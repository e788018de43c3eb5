# A verification project for zhuangsheng's durable runtime

zhuangsheng is a local-first application that runs graphs of nodes durably: a run survives the
death of the process, may be interrupted, resumed and cancelled, retries what fails, waits for
people and tools, and ends. All that is kept is rows of one SQLite database; all that happens is
transactions on them. The modules here describe those transactions, TLC checks what their
interleavings may do, and TLAPS proves what holds of every graph and every number of workers.

Paths below are relative to the root of the repository; `scheduler/` stands for
`crates/storage/src/runtime/scheduler/`.

## 1. Inventory of the system

### 1.1 How the parts fit together

* `crates/core` - the domain types, the ports, and `core/src/scheduler.rs`, whose `run_one` is one
  iteration of the scheduler: fire one due timer, recover one expired lease, claim one wakeup, and
  then activate a node, execute an attempt or settle the run.
* `crates/storage` - every durable transaction, on SQLite. The pool is opened with
  `max_connections(1)` (`storage/src/store.rs:22`), in WAL mode with a busy timeout: transactions
  of a process are serial, those of two processes on one file are serialised by SQLite. **A
  transaction is therefore one atomic step, and the interleaving of transactions is all the
  concurrency there is.** An error rolls its transaction back; a statement outside a transaction, such as the
  insertion of a plugin candidate, commits by itself, and an error after it leaves its row (3.9).
* `crates/server` - the HTTP API, the LLM executor, and the background loops (`main.rs:73-80`):
  the scheduler (at once after work, 500 ms after an error or when there is nothing to do), the
  conversation projector, artifact maintenance, collection of unreferenced content, plugin updates.
* `apps/desktop/src-tauri` - the desktop host, with the same loops under another worker id. A
  restarted process keeps its worker id, so a row leased by "itself" may be leased by its past.
* `crates/adapters/tauri`, `crates/plugin-host`, `apps/*`, `packages/*` - adapters, plug-ins, user
  interfaces. `designs/*.md` - what the authors intend.

The parts talk through shared rows: the scheduler writes wakeups that another iteration claims; the
API fences the scheduler by raising the run's `control_epoch`; an LLM executor opens a wait that
an API call answers with a new attempt and a wakeup; the projector follows the events of the journal.

### 1.2 Components

| component | state | operations | what is hard | what makes it correct |
|---|---|---|---|---|
| Scheduler loop, run lifecycle | `graph_runs`, `node_instances`, `node_attempts`, `edge_queue_values`, `run_execution_counters`, `run_output_values`, `scheduler_wakeups`, `runtime_timers` | timers, recovery, claim, mark, finalize, activate, settle | crash between any two transactions; late finalize; one clock reading per iteration; wakeup bookkeeping | one owner per activation, no lost wakeup, counters match rows, final states are final, every run ends |
| Run controls | `graph_runs.control_epoch`, `drain_epoch`, command rows | interrupt, resume, cancel | races with held attempts and with claimed wakeups | fencing by epoch, draining ends, nothing starts while halted |
| Generic external waits | `node_waits` | open, answer, time out | response against deadline against interrupt | settled once; resumed attempt is scheduled |
| Scheduler host loops | process memory | loop, die, restart | two hosts on one file | nothing in memory matters |
| Coordination nodes | join buffers, aggregator windows, expand emissions | buffer, match, close by count, deadline or end of input, emit | window deadline against its last value; unmatched items at the end | each item in exactly one emission or in the unmatched set; run does not end with an open window |
| LLM effect ledger | model and tool effects, attempts, usage | prepare, start, finish, recover, fence | death after start and before the result | no side effect repeated without a decision; late results fenced |
| Approvals, effect resolutions, secret waits | waits with a call or an effect | open, decide, resolve, unlock | decision against epoch change; decision in a `waiting` run | each call is decided once; the run goes on afterwards |
| Checkpoints, journal, compaction | `runtime_events`, checkpoints | append, checkpoint, compact, recover at startup | compaction against recovery and projectors | recovery never needs what compaction dropped |
| Starting a run | run, input rows, idempotency rows | start, replay | repeated requests | one run per key |
| Contexts, branches, commits | commits with parents and patches, heads, projections, snapshots | patch against an older commit, fork, merge, snapshot, replay | stale patches; the same element on several ways; merges of merges | no stale write, projection equals replay, merges keep both sides, elements appear once |
| Context access of runs | read sets, static write bases | read at activation, copy to the next attempt, read again, write at finalize | reads that are stale at the end; a write over what others wrote | results rest on what was read, or the attempt is repeated or fails |
| Conversations | turns, candidates, projections | send, regenerate, select, project | projection behind the run | projection reaches the run's end once |
| Memory, proposals | records, proposals, heads | propose, edit, approve, apply | decision on a stale head | a proposal is applied at most once and to the head it saw |
| Secret store | envelope, sessions | unlock, lock, rotate, resolve | lock during use | no session outlives the lock |
| Artifacts, content objects | staged, committed, quarantined objects | stage, commit, discard, collect | collector against a transaction in progress | nothing referenced is collected |
| Plugins | installs, receipts, activation | install, activate, update | update against activation | one active version |
| Graph drafts, revisions | drafts, revisions, pinned snapshots | edit, validate, apply, pin | stale drafts; configuration that moves between apply and claim | a revision is what its author saw, what an attempt pins serves it |
| Router expressions, selectors | visit and time limits | evaluate | cycles | no value goes round for ever |
| LLM messages, stream decoders, context assembly | a decoder and a finalizer per call, chunks | decode, check, persist, assemble | broken, late and lost frames in four wire shapes | completed means everything that was said |
| Configuration | channel, preset and tool revisions | publish, enable | heads that move | see graph revisions |
| HTTP, Tauri, user interfaces | the cursor of an event stream; none | translate, resume a stream | reconnection against compaction | a client misses no event |

`PROJECT.json` lists the same components with their status, and under "hazards" what in this code
is hard to test, each at its line and with the properties that cover it.

## 2. Plan

Order: the run itself, because every other part hangs its rows on it; then what an attempt does to the
world outside; then the documents it reads and writes; then the services around the runtime.

| module | what it is | abstract specification or composition | state |
|---|---|---|---|
| `Dataflow`, `GraphRun`, `MCGraphRun`; `GraphRunProofs`, `GraphRunWork` | the promise to the author of a graph, and one run with all transactions of the scheduler, the controls and the generic waits | `GraphRun` implements `Dataflow` | checked, proved |
| `ContextBranch`, `MCContextBranch`; `ContextsProofs` | commits, branches, merges and replay of a context | every head replays to its projection | checked, proved; stale writes where no patch inserts or removes by place |
| `RunContext`, `MCContexts`; `ContextsProofs` | what nodes read from a context and from memory, and write back | shares the patches of `ContextBranch` and the memory of `Memory`, cut down | checked, proved |
| `EffectLedger`, `MCEffectLedger`; `EffectLedgerProofs`, `EffectLedgerAgrees` | the durable loop of one LLM node: effects, checkpoint, waits, executor | the scheduler of `GraphRun` cut down to one node | checked, proved; the agreement of ledger, checkpoint and wait where executors end with their attempts and no policy repeats a timeout |
| `Coordination`, `MCCoordination`; `CoordinationProofs` | Expand, JoinByKey, Aggregator and the settlement | the scheduler of `GraphRun` without leases | checked, proved |
| `Conversation`, `RouterGuards`, `MCPromises`; `ConversationProofs` | two parts that owe somebody an answer | each by itself | checked; the conversation proved |
| `Memory`, `SecretStore`, `Artifacts`, `Journal`, `Plugins`, `ModelStream`, `Publishing`, `MCStores`; `StoresProofs` | the services around the runtime | each by itself | checked; proved of six of the seven |

Left:

1. Proofs of the other parts: the chunks of `ModelStream` and the guards of cycles.
2. A run of `GraphRun` with more than one run in the queue, for the order of claims.

No module to be proved about declares a RECURSIVE operator; graphs, limits and durations are constants.

## 3. What is modelled

### 3.1 `GraphRun`

One run of a published graph. Variables and rows:

| variable | rows |
|---|---|
| `run` | `graph_runs`: status, `control_epoch`, `drain_epoch` |
| `insts` | `node_instances`: status and activation number of the newest instance of a node |
| `attempts` | `node_attempts` of that instance: status, kind, retry ordinal, epoch, worker, lease, deadline, and whether its `attempt_deadline` timer is pending |
| `retries` | `runtime_timers` of kind `retry` |
| `waits` | the open `node_waits` row of the instance |
| `queues` | `edge_queue_values` not yet consumed, by `enqueue_seq` |
| `counters` | `run_execution_counters` |
| `produced` | the keys in `run_output_values` |
| `wakeups` | `scheduler_wakeups`, pending or claimed, named by their `dedupe_key` |
| `workers` | where each `run_one` stands between two transactions, with the values it holds in memory: the time it read, the wakeup it claimed, the attempt it executes |
| `clock`, `crashes` | the wall clock; a bound |

`run_one` is the sequence of phases `idle -> recover -> claim -> mark -> execute -> idle` (or
`activate` / `settle` after `claim`), one action per transaction and per early return:

| step | code | actions |
|---|---|---|
| one due timer | `scheduler/timers.rs`, `wait_deadline.rs`, `runtime/resume.rs` | `TimerStep`: run deadline, attempt deadline with its retry, without one, retry promotion, wait timeout |
| one expired lease | `scheduler/recovery.rs` | `RecoverStep`: an attempt, then wakeup claims |
| claim | `scheduler/claim.rs` | `ClaimStep` |
| mark running, execute, finalize | `attempt_state.rs`, `attempt_finish.rs`, `finalize*.rs`, `reconcile.rs`, `emit.rs` | `ExecuteStep`: mark, refuse, succeed with emission, output, fail, retry, reconcile, wait |
| activate | `activate.rs`, `activation_*.rs` | `ActivateStep`: skipped, dropped, not ready, over a limit, ready, invalid |
| settle | `settle.rs`, `events.rs` | `SettleStep`: late, waiting, busy, missing output, completed |

Beside the loop: `Interrupt`, `Resume`, `Cancel` (`runtime/control.rs`), `SubmitResponse`
(`llm/generic_wait_delivery.rs`), `Crash` of a worker, and `Tick`.

What an executor decides - success, any choice of a Router's edges, failure, a stale read set, a
wait of either timeout policy - is nondeterministic; values are abstracted to the number they were
enqueued under.

Points where the model looks thinner than the code, and why it is not:

* `lease_fence` is left out: an attempt row is leased at most once (a retry is a new row), so the
  fence is 1 whenever it is compared.
* The run-deadline timer is pending exactly while the run is not terminal, so it is no variable.
* `dedupe_key`s are never issued twice; a wakeup that is done can be forgotten.
* Only the newest instance of a node is kept: no transaction looks at an older one except to count.
* Idempotent replays - a finalize with the stored result key, a replayed control or response - change
  nothing and are not actions. Control commands carry the epoch they read, so a stale one is refused.
* Things due in the same millisecond may be served in either order, as the code's order by id does.
* Recovery covers attempts without effects; with effects it is in `EffectLedger`. Coordination nodes are in
  `Coordination`, the snapshot a claim pins in `Publishing`, what makes a read set stale in `RunContext`.

Bounds of the model that the code does not have: `Horizon` (last instant), `MaxEpoch` (number of
control commands), `MaxCrashes`. The limits `MaxAttempts`, `MaxActivations`, `MaxTotal`,
`MaxPending`, `MaxRetries`, `MaxReconciles` are the code's own.

### 3.2 `Dataflow`

The promise: a network of nodes and first-in first-out edges in which a node has one activation
at a time, an activation takes its inputs once and fills its edges once, a halted network completes
what it began and begins nothing, and a closed one does nothing. No attempts, leases, retries,
waits, wakeups, workers or crashes. `GraphRun` implements it under the mapping `Net`
(`ImplementsDataflow`); in particular the failure of a Merge, of a queue or of a late worker to keep
that promise would be a step of `GraphRun` that is none of `Dataflow`. It has no entries in the map:
it is the specification, not the code.

### 3.3 `MCGraphRun`

The graphs: *pair* `in -> out`, *chain* `in -> route -> out`, *vee* (two Inputs that meet in one
output), *fan* (a Router with two edges to one Merge and one to a side output), with their limits.

### 3.4 `ContextBranch` and `MCContextBranch`

The versioned document that runs and conversations share: all of `crates/storage/src/context` that
writes, and the pure functions under it in `crates/core/src/state/patch.rs` and
`crates/core/src/context_merge*`.

| variable | rows |
|---|---|
| `commits` | `version_commits`, `commit_parents`, the patch object, and of a merge the resolution object: `taken` (appendEntries), `blocked` (blockedPaths), `chosen` (members in resolutions) |
| `branches` | `context_branches`: status and head; an id not used yet has status `unused` |
| `projection` | `materialized_projections` at each head |
| `snapshots` | `version_snapshots`: document and element ids |

| action | code |
|---|---|
| `CommitPatch` | `commit.rs`: base on the first-parent path, conflicts since the base, appends already known left out, the patch applied to the projection, head and projection advanced |
| `Fork` | `fork.rs`, `fork_support.rs`: at any ancestor of an active head |
| `Merge` | `merge*.rs`: unique base, append histories of both sides, three-way analysis, verified appends, selections, the two-parent commit, the status of the source |
| `Snapshot` | `snapshot.rs` |

`Replayed` is `reconstruct`. Each command is one SQLite transaction, so what interleaves is whole
commands; what makes them race is that each names the base or the heads it saw.

Abstractions. A document has one level of members, scalars or arrays; deeper objects would repeat
`merge_objects` per level. The value of an appended element is told apart by its id, so the checks
that the same id carries the same value always pass and are left out. Selections choose the value of
one of the two sides. A merge whose selections do not cover its conflicts, a replayed command and a
repeated operation id change nothing here and are no actions. `rebuild_working_context_projection`
writes what `ProjectionIsReplay` says is there already. `MCContexts` takes its steps on two branches, or on three
without snapshots, with the patches of each (`StepsOn`). Branch ids are ULIDs, whose order merges sort
by; the model takes any order, and writes the sorted sequence by ranks (`Place`). `MaxCommits` and `MaxSnapshots` are bounds of the model.

### 3.5 `EffectLedger`

One LLM node of a run, from its first attempt to its end, with the executor that drives it. A logical call
- the m-th model call `<<m>>`, its i-th tool call `<<m, i>>`, the k-th count of the first request `<<0, k>>` -
is prepared, started and finished by three transactions; what was started has perhaps happened outside.

| variable | rows |
|---|---|
| `run`, `node`, `other`, `attempts`, `wakeups` | the scheduler's rows, cut down to this node and to whether another instance is active |
| `ledger` | `model_calls`, `tool_calls`, their effects and effect attempts |
| `ckpt` | `llm_loop_checkpoints`: the batch, what is filled into the transcript, the watermark |
| `wait` | the open approval, memory or effect-resolution wait and what blocks it |
| `exec` | process memory: where each attempt's executor is and its copy of the checkpoint |

Actions: `ExecutorStep` (count, model call, plan of a batch, prepare, start, finish and retry of a tool,
memory tools, repair of an output, resumption after each of them), `LeaseStep` (recovery, which settles
started effects by their class), `DeadlineStep`, `RunStep` (claim, retry timer, settlement), `ControlStep`
(interrupt, resume, cancel) and `PeopleStep` (approve, reject, decide proposals, resolve an effect). `Quit` is
the death of an executor; `LateExecutors` lets it go on after its attempt was taken away instead.

A wait keeps the checkpoint and the attempt it was opened with, so an answer resumes from there and not from what a late executor
wrote meanwhile. Each try of a call is a row of its own, by the attempt that made it; the unique keys of the tables are
conjuncts of the transactions that insert (`IsNew`). Plans and approvals are not fenced: `PlanApproval` and
`PlanProposals` look only at the status of the attempt they are made for, as the code does.

Sources: `llm/*.rs` of the storage crate and `llm_executor/*.rs` of the server. Contents of requests and
transcripts, opaque provider state and token numbers are left out: a response is the batch of tools it asks
for, and a tool is its class, its approval and whether its refusal is fatal.

Weaknesses of the code that the model has and no property forbids: a deadline that fires while an effect is
prepared or started leaves its rows behind, and the next attempt is refused (`scheduler/timers.rs:156`); an
executor that lost its attempt may still prepare an unfenced call and overwrite the checkpoint
(`llm/tool_ledger.rs:28`), though it cannot send it; a model call confirmed as succeeded by an operator cannot be
resumed (`llm_completed_resume_invalid`); a crash between a completed call and the repair of its output is refused until
the attempts are used up; a crash after the second count of a trimmed request resumes at the count (finding 17).

### 3.6 `Coordination`

Expand, JoinByKey and Aggregator of one run, with the wakeups that make them look at their queues and the
settlement. `values` are the queued values with their buffer rows, `windows` those of each Aggregator;
`Claim`, `LoseClaim`, `Work` (every outcome of `activate_if_ready` and of the finalize of an Expand), `CloseDue`,
the three settlements, `Interrupt`, `Resume` and `Cancel` are the transactions. `RowsAreConsistent` is the type
invariant and relates counters, windows, instances and wakeups. Time is a deadline that may pass at any moment.

### 3.7 `RunContext`

What the nodes of a run read and write: reads are resolved at activation (`Activate`), copied to each further
attempt (`Replace`), read again by a Router whose reads are stale (`Reconcile`), and the static write of an LLM
node is committed against the head pinned at its first activation (`Write`), while others write the branch
(`Edit`) and memory (`Remember`). A commit touches one place of the document; what that place holds - a list, a
value, nothing - decides whether a patch applies.

`ResultsRestOnReads` compares what was read with what is there, not the heads the code compares: the code may
refuse more than it must, never less. When a required binding has gone by the time of the reread,
`resolve_router_reads` returns an error out of `finalize_attempt` and the transaction is rolled back: the Router
does not fail, it waits for its lease to expire, until its attempts are used up. The model has this.

### 3.8 `Conversation` and `RouterGuards` (`MCPromises`)

`Conversation`: turns, candidates, the active branch and head, the projector with its jobs and conflicts, and
other writers of the context. `User` submits (with repeated and stale requests), regenerates, selects and forks;
`Runs` start, write and end; `Projector` reconciles and projects. The run profile, titles and lists are left out.
A submission while the branch head is ahead of the conversation's is rebased, where `designs/13:256` says that
both heads are compared; while it is ahead a read of the timeline answers with an integrity error. The model has both.

`RouterGuards`: every small cyclic graph with every placement of guards is validated as `validate_cycles` does;
where it is accepted, one value is followed through it with every decision its Routers may take. Every strongly
connected component is checked, also one no entry reaches, where `designs/11:233` speaks of reachable ones.

### 3.9 The services (`MCStores`)

| module | state | actions | left out |
|---|---|---|---|
| `Memory` | records, commits, proposals, scope revision, search index, reviews, stored searches | propose (API, tool batch), edit, decide (API, response to a wait), apply or conflict, search, replay of a search | ranking, limits, several scopes |
| `SecretStore` | session, limiter, mutex, waits of nodes, process generation | initialize, unlock, lock, change of password, runtime resolution, idle expiry, restart | cryptography, stored secrets, bundles |
| `Artifacts` | content objects, references, staging rows, artifacts, receipts | create, complete, commit, expire, delete, collect | formats, ranges, lists |
| `Journal` | events, chunks, checkpoints, compactions, the server's and a client's side of an event stream | append, checkpoint, end, compact, crash, recover, connect, page, deliver, cut | several runs |
| `Plugins` | candidates, versions, installation, files, two callers | fetch, compare, look up, insert, read back, move, activate, an error in each of these, configure, roll back, refresh, crash | receipts, Git, manifests |
| `ModelStream` | provider, decoder, finalizer, chunks | frames of four wire shapes, end, error, late and lost frames, flush | complete (non-streamed) responses, sizes |
| `Publishing` | draft, revisions, channel, preset, tool, pins | edit, apply, publish, enable, start, claim, retry, end | other nodes, other tools, versions of operations |

Each is a component by itself; none calls another within a transaction, so checking them side by side in one
run shows what checking them together would. Some behaviours of the code that the models have:

* `Memory`: a replacement or a second obsolescence of an obsolete record is accepted when proposed and refused when
  applied; the proposal stays approved. A stale head fails the whole batch of proposals.
* `SecretStore`: an unlock that fails between installing the session and resolving the waits leaves them open
  (`missed`), until the next one. Every secret wait uses up an attempt. One wait that cannot be resolved rolls back
  the resolution of all.
* `Artifacts`: a commit looks neither at `expires_at` nor at the writer's lease; the next pass does.
* `Journal`: nothing in the server calls `compact_run_events`; checkpoints are taken after each unit of work.
* `Plugins`: a candidate's row is inserted outside a transaction and then read back. An error before the insertion drops
  the caller's copy and there is no row; an error of the read drops the copy and leaves the row (`ReloadFails`, finding
  18). `torn` is a history variable of the rows this happened to: `PackagesAreWhole` excepts them as candidates, not as
  installed versions. An error of an activation leaves the files where they are, and the next attempt finds them.
* `ModelStream`: a frame after the terminal one fails a complete call; events are published before the finalizer
  accepts them; a storage error at the last flush leaves the effect started. Some shapes refuse what their
  providers may legally send (an empty text delta of Responses, text after a tool call of chat, a Gemini call with a
  thought signature, arguments of Claude server tools); such frames are not among those the model's provider sends.
* `Publishing`: a pin is compared with the capabilities of the model only, not with token limits or hosted tools; that the
  channel's head has the operation and decoder versions of the graph's revision (`llm_snapshot.rs:47`) is left out.

## 4. What the runs show

Two TLC workers; states are distinct ones, times indicative.

| run | instance | question | result |
|---|---|---|---|
| `Recovery` | chain, 1 worker, 2 crashes, lease 1, one reconcile of `route`, deadline and 2 retries on `out`, 4 instants | does a death, an expired lease or a deadline lose an attempt, a wakeup or the single owner? | holds; 1.2M, 100 s |
| `LateWorkers` | vee, 2 workers, lease 1, 2 instants | does a result delivered after the lease count twice, take a value twice, or change an ended run? | holds; 249k, 35 s |
| `Control` | pair, 1 worker, 1 crash, deadline and retries, 2 commands, fairness | fencing, draining, nothing starts while halted; every run ends | holds; 131k, 19 s |
| `Waits` | pair, waits of both kinds, 2 commands | counters and quiescence through answers, timeouts and interrupts | holds; 393k, 23 s |
| `FanIn` | fan, at most 6 activations and 3 values queued, no time passes | completion is not premature, no value and no run is stranded, and counters survive a failure in the middle of an emission or an activation | holds; 877k, 120 s |
| `Contexts` | 2 branches, 5 patches, 1 snapshot; or 3 branches, 4 patches; 5 commits each; or a Router and a writer, or two writers, on one branch, 3 attempts, 1 reread, 1 foreign commit, 2 changes of memory | does a stale patch get through, a merge drop a change, a head replay to something else; does a node complete on reads that no longer hold? | holds; 1.5M, 140 s |
| `LlmLoop` | 3 attempts, 2 model calls, 2 counts, 1 repair, 2 tries, five kinds of batches, fairness | do ledger, checkpoint and wait agree through every crash; is a side effect repeated; is recovery refused; does the loop end? | holds; 250k, 90 s |
| `LlmLate` | 1 model call, a tool that writes or searches, 2 commands, executors that outlive their attempt | is a call sent or an outcome recorded by somebody who lost the attempt? | holds; 545k, 45 s |
| `Coordination` | two Expands, a join, an Aggregator of two, 7 activations, 1 interrupt or lost claim, fairness | pairs in order, windows partition the queue and close, nothing ready is left in a completed run | holds; 205k, 100 s |
| `Promises` | 2 turns, 3 candidates, 1 fork, 1 foreign commit, fairness; graphs of 2 Routers, 1 step, 4 edges | is the story readable, does it go back by selection only, are candidates settled; does a value go round for ever? | holds; 1.0M, 145 s |
| `Stores` | see `Stores.cfg`; one of seven components per behaviour | the services of 3.9 | holds; 1.9M, 110 s |
| `StalledRun` | pair, 1 worker, 1 crash | does a recovered run go on? | **violated**, see 5 |

Why the bounds are enough for the questions asked. Every duration is 1 or 2 instants, so each deadline can
fall before, at and after each step of another actor; a retry, a recovery and a late finalize of the same
activation fit in three attempts; a third crash or a third command repeats a state of the first. `Recovery` has two
crashes because a reconciled and twice abandoned attempt is the way to the limit of attempts without a timeout. On
*fan* all three edges of the Router need 7 activations, so 6 are the boundary, which a completed double merge still
stays within. `Never` (9) switches off what another run is about: the runs split the features, because all of
them together on one graph do not finish. That split is a limit of the model checking, not of the proofs, which know
no bounds.

For contexts five commits are the root, a commit on each of two branches, and two merges, the second of which meets the
first, and the same element with another origin, in a history; or a merge there, a merge back and a commit after
both. The first context names a single array index, so that finding 5 cannot occur in it; `AppendOnce` is
no property of a passing run because of finding 6. In `LlmLoop` two model calls let a batch be filled in and followed
by another request, and three attempts let the attempt that recovers a crash crash itself. Batches have two tools, one
of each class: what is settled before a second tool starts is what matters, and finding 8 keeps larger batches
from being more than refused. In `Coordination` the arrays repeat keys, leave keys unmatched and carry an item
without a key and one the Aggregator refuses. Four edges on three nodes give two cycles that share a
Router, nested cycles and a cycle that avoids the guard. The services have two of each thing that can be
confused: two uploads with equal bytes, two sessions, two passwords, three commits of a plugin from two sources, two editors;
one of the commits depends on another plugin and asks for no permission, the others, which ask for one, are alike and so
are both sources, contents, passwords, bytes, editors and keys: the symmetry used exchanges the two of a kind. A single node waits
and opens reviews; that several do not disturb each other is `WaitsHold` of 6.3. One idempotency key is enough for `SecretStore`: initialize and unlock have
receipts of their own, so it stands for two.

Deadlock is checked in `Recovery`, `LateWorkers`, `Control`, `FanIn` and `StalledRun`. It is not in `Contexts`,
`LlmLoop`, `LlmLate`, `Coordination`, `Promises` and `Stores`, where everything may be finished, or wait for a person, and
the bounds used up. In `Waits` a wait with the policy `resume_with_timeout` whose attempt is the last one
allowed makes the timer's transaction fail for ever (`runtime/resume.rs`), and once the clock is at the horizon the model
stops with it: the wedge of finding 3 again.

Each property of each passing run is also shown to be one the code could break: `PROJECT.json`
names, per property, a definition and a mutated form (a dropped guard, a missing reset, a check in the
wrong order) under which TLC finds it violated. The mutated forms stand in the modules beside what they
mutate; nothing uses them.

Nine further configurations are not among the runs; each shows in seconds, when started by hand, that the code does what a
finding says (`tlc -config LostWakeup.cfg MCGraphRun`, and so on): `LostWakeup`, `StuckInterrupt`, `StuckTimer` with
`MCGraphRun`; `ContextIndex`, `ContextForgets` with `MCContextBranch`; `StuckBatch`, `LostResolution` with
`MCEffectLedger`; `StarvedWindow` with `MCCoordination`; `TornCandidate` with `MCStores`.

### Fairness

* `GraphRun`: each worker keeps taking steps, and time passes. The first is the loop in
  `crates/server/src/main.rs:163-174`, which never returns and after an error tries again; that an execution ends is
  the executor's own timeout. It is fairness of a worker as a whole, not of its single actions: what the loop does next
  is decided by the order of `run_one`, so a timer that can never fire is starved or not exactly as in the code.
* `EffectLedger`: the loop claims and settles (`RunStep`), an executor that lives goes on (`ExecutorStep`), a lease
  that lapses is recovered (`LeaseStep`). People, deadlines, controls and deaths are not fair; the attempts are
  finite, so nobody can die for ever.
* `Coordination`: the loop as a whole claims, works or settles; and it closes what is due, since `run_one` looks at the
  timers first.
* `Conversation`: the projector's loop makes its passes, and a job that meets no storage error is
  finished in the pass that finds it. A storage error is finding 11.
* `RouterGuards`: a value goes on, and time passes.

Commands, responses, decisions and crashes are never fair.

## 5. Disagreements between the code and what is written about it

`PROJECT.json` has each with the lines it quotes. In brackets the configuration that shows it, if it can be shown by one.

1. **A wakeup lost to an interrupt** (`LostWakeup`). `activate_if_ready` marks the wakeup of a run that
   is no longer `running` as done (`scheduler/activate.rs:41-45`). `restore_wakeups`
   (`runtime/control.rs:312-338`) restores queued attempts only, and `settle_run` never looks for a
   node that could fire. Claim, interrupt, activate, resume: the node is never woken, and the
   settlement that the resume schedules completes or fails the run around the value
   (`designs/03-async-runtime.md:354`, `designs/17-runtime-control.md:309`).
2. **An interrupt that never drains** (`StuckInterrupt`). When `reconcile_if_stale` requeues the
   attempt, `finalize_attempt` commits at once (`scheduler/finalize.rs:93-96`), without
   `settle_interrupt_after_attempt`. If it was the last held attempt the run stays `interrupting`
   until its deadline, and cannot be resumed (`designs/17-runtime-control.md:305`). Waits the LLM executor opens
   outside `finalize_attempt` do the same.
3. **A timer that can never fire** (`StuckTimer`). After a timeout the retry's ordinal is counted
   from 0 for every attempt that is not itself a retry (`scheduler/timers.rs:189-193`), and the timer row's key
   is `retry:{instance}:{ordinal}`, which is unique. A start attempt that times out, a retry that waits
   or reconciles, and a timeout of what follows insert the same key; the transaction rolls back,
   is tried again in every iteration, and being the earliest due timer keeps all later ones - of all
   runs - from firing, the run deadline included (`designs/17-runtime-control.md:334`, `:188`).
4. **A run that stands still** (`StalledRun`, a run). Recovery leaves two wakeups for one attempt; while the second is
   pending every settlement answers busy and is spent, and the second leaves none
   (`scheduler/settle.rs:189`, `designs/03-async-runtime.md:351`).
5. **A stale write by array index** (`ContextIndex`). `paths_overlap` (`core/src/state/patch.rs:268`)
   compares pointer tokens, so `/log/0` and `/log/1` never conflict. After `remove /log/0` a `replace
   /log/1` written before it is accepted and overwrites what used to be `/log/2`
   (`designs/04-state-branching.md:90`). `NothingStale` of 6.5 shows that this is the only way.
6. **A merge that forgets element ids** (`ContextForgets`). `load_append_history` walks first parents; when
   the base is a second parent - merging a target back into the branch it was merged from - it gives
   up (`context/merge_append_history.rs:102-107`). A later append of one of those elements is taken for new: the
   element appears twice (`tests/context_merge_append.rs:80`, `designs/04-state-branching.md:86`).
7. **Reads of LLM nodes are never validated.** `validate_on_commit` is accepted and stored for the static reads of LLM
   nodes, but `finalize_attempt` compares those of Routers only (`scheduler/finalize.rs:74`, `designs/02-memory.md:136`).
8. **A batch that cannot be gone on with** (`StuckBatch`). After a crash between the settlement of a batch and the
   next model call, or with a call still `requested`, every further attempt is refused
   (`llm/tool_batch_settle.rs:57`, `designs/07-llm-tool-loop.md:200`).
9. **A resolution nobody is woken for** (`LostResolution`). An effect resolved while the run is `waiting` readies the node
   without a wakeup and without restarting the run (`llm/effect_resolution_settle.rs:119`).
10. **A window that is not fed** (`StarvedWindow`). An Aggregator takes one value per wakeup and an emission makes one
    wakeup per target: the other values wait for the window's deadline (`scheduler/aggregator.rs:219`,
    `designs/18-coordination-nodes.md:204`).
11. **One failing projection stops the others** (`conversation/projection/jobs.rs:24`, `designs/13:312`).
12. **One refused snapshot stops every run**: the claim rolls back and the same wakeup stays first
    (`scheduler/claim.rs:29`).
13. **No revocation of what is pinned** (`scheduler/llm_snapshot.rs:42`, `designs/19-tools-artifacts.md:156`).
14. **The timeout of a non-idempotent tool counts as failed**, not as unknown (`tool_dispatch.rs:350`,
    `designs/07-llm-tool-loop.md:165`).
15. **A plugin candidate outlives what it was compared with** and blocks its commit (`plugin/candidate_lookup.rs:8`).
16. **An automatic update overrides a user's `manual`** (`plugin-host/src/update.rs:26`).
17. **A resumption that forgets a completed call.** Once a request was trimmed and counted twice, every later resumption takes the
    request for still being counted: a completed response is dropped and another model call made, a batch is refused
    (`llm_executor/count_resume.rs:15`, `designs/07-llm-tool-loop.md:198`).
18. **A candidate without files** (`TornCandidate`). The insertion of a candidate commits at once (`plugin/registry.rs:58-67`);
    when reading it back fails, `stage_source` removes its directory (`plugin-host/src/staging.rs:122-125`) and the row
    stays. Later stagings of the commit answer with that row and drop their own copy, and its activation fails at the
    rename (`plugin-host/src/manager.rs:50-57`, `designs/29-plugin-extension-port.md:140-149`).

Where a passing run would meet one of these, its bounds keep it out, and the text above says so: `NoLostWork` is checked
where no command is given (1), `InterruptingDrains` and `RunEnds` on a graph without Routers and waits (2, 3),
`NoStalledRun` where nobody crashes (4), `PackagesAreWhole` but for candidates whose reload failed (18). Three of the theorems of section 6 say how far such a finding reaches: without a
command no wakeup is lost at all (1), an interrupt that does not drain has a Router that was queued again, so
that no other cause exists (2), and a stale write is accepted only by way of a moved array index (5).

## 6. What is proved

Eight modules hold proofs. What they show holds for every value of the constants, under the named assumptions only; the
bounds of the runs do not enter.

### 6.1 The run

For every graph that satisfies `GraphAssumption` (what draft validation guarantees of a revision), every value of the
limits and durations in `LimitAssumption`, every finite set of workers, any number of crashes and commands:

| module | theorem | states |
|---|---|---|
| `GraphRunProofs` | `Invariance` | `Spec => []Inv`, with `Inv == TypeOK /\ OneOwner /\ HeldIsFenced /\ EndedIsClosed` |
| | `TypeCorrect`, `Ownership`, `Fencing`, `Closing` | its four parts |
| | `EndedRunIsFinal` | `Spec => TerminalIsFinal` |
| | `HaltedRunStartsNothing` | `Spec => HaltedStartsNothing` |
| | `Projection` | `Spec => []ProjectionIsSound`: the counters are those of the rows, and a waiting run waits for something |
| | `CountersMatch` | its first half |
| | `NumbersAreUnique` | no two values in the queues share a number |
| | `RunImplementsNetwork` | `Spec => ImplementsDataflow`: the run is the network of 3.2 |
| `GraphRunWork` | `NoAttemptIsLost` | `Spec => []NoLostAttempt`: each queued attempt of a run that may schedule has its wakeup |
| | `NoWorkIsLost` | `Spec => [](run.epoch = 0 => NoLostWork)`: while no command was given, idle nodes that can fire have theirs too |
| | `CompletionIsEarned` | a completed run has its outputs, and under epoch 0 no node could still fire |
| | `InterruptIsExplained` | `Spec => [](InterruptingDrains \/ RouterRequeued)` |
| | `InterruptDrains` | where no Router reconciles, every interrupt drains |

The argument. None of the four conjuncts of `Inv` is inductive alone. Ownership of a node relates the status of
its instance to its attempts, its retries and its wait; a transaction that guards on one of them (the
timer guards on the attempt, activation on the instance, the answer on the wait) needs the relation to
know the others. Fencing needs ownership, because a resume may only re-admit what is queued and
must know that nothing held is left; closure needs ownership, because the run is closed by the
status of the instances while late workers act on attempts. Types come first, one lemma per action. `GraphRunProofs` then states what each shared part of the
transactions (`EndRun`, `ResumeAttempt`, `Replaced`, `Drained`) does to one node as lemmas, then
one lemma per action, and combines them in `Invariance`. The two action properties follow from
the invariant: an ended run has no active instance, hence nothing live and no wait, hence no guard of a
transaction that changes it is true.

Its last part counts: the values pending are the pairs of an edge and a place in its queue, so an emission adds one for each
edge it fills and an activation takes one for each edge it reads, whatever failed in the middle; a wait is opened on a
node without one and closed on a node with one, which is ownership again. The end of `GraphRunProofs` shows of each transaction
that it fires a node, completes one, closes the network or is not seen, and that the value a node takes is the first
of its edge; for a Merge that needs the numbers of the queued values to differ (`ValuesAreNumbered`). `GraphRunWork` adds what
the workers remember between transactions (`PhasesFit`: a wakeup stays claimed by the worker that acts on it), from
which `Attended`: no transaction spends the wakeup of a queued attempt other than the one that leases it. `Fed`
says the same of idle nodes and their values, under epoch 0: after an interrupt it is false, which is
finding 1. `Delivered` keeps the required outputs. `Drains` characterises what finding 2 shows: an interrupt
stays open without a held attempt only if a Router was queued again by `reconcile_if_stale`.

### 6.2 The ledger of an LLM node

`EffectLedgerProofs`, for every value of the limits, every set of batches a model may ask for, and executors that live on
for any time after their attempt was taken away (`LateExecutors` either way):

| theorem | states |
|---|---|
| `LedgerHolds` | `Spec => []LedgerInv`, with `LedgerInv == Shaped /\ OneAtWork /\ TriesFit /\ InTheirHands` |
| `RepeatsAreAsked` | `Spec => []NoBlindRepeat`: a call with effects outside is repeated only after a person said it did not happen |
| `OwnersSend` | `Spec => OnlyOwnersSend`: only the attempt that holds the node in a running run of its epoch sends, and records an outcome |
| `RecordStands` | `Spec => RecordIsKept`: a try is never forgotten, reattributed or taken back, nor what a person said of it |

Every transaction touches the rows of the ledger one by one, so each is shown to change each row lawfully (`Proper`, by
the attempt that owns it), and the theorems about steps are that lemma read in two ways. It needs
`OneAtWork` (only the last attempt is held) and `InTheirHands` (what an executor in a held attempt thinks it has
prepared or started, it has), because the transactions trust what the executor remembers. `Repeatable` adds the
state that recovery leaves a started call in.

`EffectLedgerAgrees`, for every value of the limits, every finite set of batches (`limits.maxToolCalls` bounds them,
`LedgerAssumption`), any commands and decisions of people, and executors that die at any moment, under two hypotheses:
`~LateExecutors` and `~RetryTimeouts`.

| theorem | states |
|---|---|
| `AgreementHolds` | `Spec => []Agreement`, the inductive invariant |
| `LedgerAgrees` | `Spec => []LedgerIsConsistent`: rows, checkpoint and wait agree, what was sent is in somebody's hands, a run that is over has nothing open |
| `NothingRefused` | `Spec => []NeverRefused`: no recovery and no end of a run is refused for the rows it finds |

The hypotheses are the conditions of the run `LlmLoop`. Without either both statements are false, not only unproved (TLC
refutes them under the bounds of `LlmLoop`): an executor that lost its attempt may still prepare an unfenced call and overwrite the checkpoint
(`llm/tool_ledger.rs:28`), and a deadline that is retried leaves the started call of its attempt behind
(`scheduler/timers.rs:156`); both are among the weaknesses of 3.5. What holds in spite of them is
`EffectLedgerProofs`.

The argument. `CheckpointMatchesLedger` is not inductive: a recovery takes the call at the checkpoint's mark for the one
that was sent, so it keeps the agreement only if that is so (`SentFits`: what was sent was sent by the held attempt, is
the last thing it did and is at the mark), and it withdraws what was prepared by the attempt the checkpoint names
(`PreparedFits`). Executors write the checkpoint they hold, so theirs must be the stored one, or that with a plan added
(`StepFits`), and each transaction must find the checkpoint as the place of the executor implies (`Steady`). A decision of
a person restores the checkpoint of the wait, so nothing else may be unknown (`WaitFits`), and a node that succeeded must
have no open call and only its settlement ahead (`Finished`), for the fence of the run to find nothing. All this holds
while the run goes on; what ends it leaves `AtRest`. The module first says what a checkpoint says of each call after each
kind of change (a mark names one call and one try: `SameName`, `MarksDiffer`), then takes the transactions one by one.

### 6.3 The services

`StoresProofs`, under `Quantities` (durations, bounds and the page size are natural numbers), for any number of bytes, uploads, nodes, passwords,
editors, runs and keys:

| theorem | states | invariant |
|---|---|---|
| `ObjectsServe` | `Spec => []OwnersFindTheirObjects` | `FilesInv`: an upload's objects are live and referred to, an artifact is the content of a committed upload |
| `PackagesServe` | `Spec => []PackagesAreWhole` | `PluginsInv`: what a caller has fetched is in a workspace of its own that no row refers to yet; what is registered is in a workspace, in its place or `torn` (finding 18); what is installed is in its place, and a caller at the transaction has moved the files it asks for |
| `RevisionsAreServed` | `Spec => []RevisionsServe` | `PublishingInv`: receipts and answers name a revision that is the draft of their token; a pin names heads that served |
| `MemoryServes` | `Spec => []MemoryFollowsProposals` | `HistoryInv`: the commits of a record are a chain, each made on the head its proposal names; a record has one create; the token of a stored search is not after the scope's, and if it is the scope's, the search would select the same now |
| `WaitsHold` | `Spec => []WaitsAreServed` | `SecretsInv`: the mutex carries an unlock to the waits it found; `MemoryInv`: open reviews have proposals of their own, undecided |
| `ReadersAreServed` | `Spec => []JournalServesItsReaders` | `JournalInv`: the last event is never compacted, because a checkpoint is followed by the event that says so; what the client has, the wire and the page that was read follow each other without a gap |
| `LawfulSteps` | `Spec => StepsAreLawful` | all of them |

Each service keeps its own invariant while the others sleep (`StoresInv`). That drafts, revisions and heads only grow is what
lets a receipt or a pin stay true; that a review's proposals are numbered when it is opened is what keeps them from
being anybody else's. A page of events is chosen by counting, so that it is the next events in order rests on two lemmas
about ranks in finite sets of numbers (`RanksGrow`, `RanksAreTaken`). The history of a record is proved without replaying it: a
commit has the highest number, so it is the latest of its record and leaves the parents of the others alone
(`LatestCommit`, `ChainStands`); a step that commits nothing changes no proposal that is applied (`ProposalsStand`). A
search stays true because every commit raises the token, and what a proposal or a decision changes without raising it is
never readable (`ReadsStand`).

### 6.4 The coordination nodes

`CoordinationProofs`, for every graph, port, key, limit and number of interrupts and lost claims that satisfy
`CoordinationAssumption` (finitely many nodes and edges, a node of one kind, every join with an edge into it):

| theorem | states |
|---|---|
| `CoordinationHolds` | `Spec => []CoordinationInv`, the inductive invariant |
| `CoordinationConsistent` | `Spec => []RowsAreConsistent` |
| `CoordinationPairs` | `Spec => []JoinPairsInOrder` |
| `CoordinationWindows` | `Spec => []WindowsPartitionTheQueue` |
| `CoordinationLeavesNothing` | `Spec => []NothingReadyIsStranded` |

Every step is first shown to be one of nine kinds (`StepKinds`: nothing of the rows moves, the run ends or completes, an
Expand or a join begins, values are indexed, a result is emitted, a window is kept or closed), each saying what it does to
the rows, the counters and the wakeups at once; the conjuncts of the invariant are then kept kind by kind.

*Order.* A place in a queue is a rank: the number of values of that node, or of that port and key, not after it. `QueueIsCut`
says that the windows laid end to end hold the values of ranks 1, 2, 3 and so on, which survives the step because the
value an Aggregator takes, the oldest one waiting, has the rank after the last. `PairsFit` says that a join took the same
number of values on each of its ports, and those of the smallest ranks; the buffered value of the smallest number on a
port has therefore the same rank on all of them, whichever port it came by first.

*Completion.* `ReadyIsWoken`: as long as nobody interrupted the run, a node that could begin has a wakeup, pending or
claimed. The settlement completes the run only without a wakeup left, so no node can begin. It is the reason why
`NothingReadyIsStranded` names runs without an interrupt; why an interrupt breaks it is finding 1.

*Counting.* `pending_values` goes up by what is emitted and down by what is consumed; `join_buffered` goes up by what is
indexed and down by a tuple. That they are the cardinalities of the rows (`CountersMatchRows`) needs that the values
of a tuple were all indexed, and each on another port.

### 6.5 Contexts

`ContextsProofs`, for every set of branches, patches, places and records, under `ContextAssumption`, `ProposalAssumption`
(a document has members, whoever writes the whole of it or an array gives all of that) and, of the module that puts the
views side by side, `Views` and `SomebodyElse` (its branches and patches are among those of `ContextBranch`; whoever else
writes is no node):

| theorem | states |
|---|---|
| `ContextsHold` | `ContextsSpec => []ContextsInv`, the inductive invariant |
| `HistoriesReplay` | `ContextsSpec => []HeadsReplay`: the projection beside each head is what its history replays to |
| `MergesKeep` | `ContextsSpec => []MergesKeepBothSides`: a merge undoes neither side and doubles no element |
| `MembersStayFresh` | `ContextsSpec => [](which # "runs" => FreshUnlessMoved)`: what a patch names as a member it finds as its author saw it |
| `NothingStale` | `ContextsSpec => [](InPlace => StaleWritesRefused)`: so is what it names as a place of an array |
| `NodesRestOnReads` | `ContextsSpec => ResultsRestOnReads`: nodes complete on what they would read now |

*Replay.* `advance_projection` computes a document from the one before it, `reconstruct` from the patches since the nearest
snapshot, or the root; they agree because each commit follows from its first parent (`Entry`) and each snapshot is
what follows (`SnapshotsFit`). Replay is a recursive function over the history. That it satisfies its
equation, that ancestors were made before, and that the element ids `load_history` collects are those replay has seen
(`KnownIsReplayed`) are each shown by the smallest commit at which they would fail: well-founded induction over numbers,
which needs no induction theorem with an operator. A commit that stays keeps what it replays to, whichever snapshots are
made (`ReplayStands`), so a step needs a look at the new commit only (`CommitGrows`).

*Merges.* `merge_append_only_arrays` sorts the items of both sides by origin. The result has each item once only if
the origins order them totally: an item is told apart by its place in its commit, and a commit by its branch and its
number on it (`OriginsFit`), because the head of a branch is its latest commit. That the appends since a base are such
items needs in turn that those a merge took over are (`TakenFit`), since a later history reads them from its resolution
object. Then the ranks of finitely many items are `1..n` (`InOrderLists`), and the array begins with the common part and
has the elements of both sides behind it (`AppendsOfBoth`).

*Stale writes.* A patch is made where no commit since its base conflicts with it, and stays so (`PatchFits`). Up the
first parents from the base, every operation on the way is then harmless: elsewhere, or another append to the same array
(`HarmlessStays`). Elsewhere means that two paths differ at a token. If that token is a member, the operation leaves
alone what the patch names; if it is a place in an array, only as long as nobody moves elements (`InPlace`: no patch
inserts or removes by place). The hypothesis is exactly what finding 5 violates.

*Reads.* An open attempt knows no more of the branch than there is, and while memory's token is the one it was given it
would find what it found (`Knows`): every change of memory raises the token. A Router that completes has compared
both, so what it decided on is what is there; a writer that completes had no commit on its place after its base.

### 6.6 Conversations

`ConversationProofs`, for any number of turns, candidates, branches, runs and other writers; it needs no assumption on
the constants:

| theorem | states |
|---|---|
| `StoryHolds` | `Spec => []PromisesInv`, the inductive invariant |
| `StoriesAreSound` | `Spec => []StoryIsSound`: each reply follows its turn's message with none in between, and the integrity checks of a read hold |
| `HeadsGoBackBySelection` | `Spec => OnlySelectionsGoBack`: the conversation's head leaves its line of commits only when somebody selects a candidate |

*Ancestors.* What a commit has behind it is a recursive function over the commits. That it satisfies its equation
(`AncestryRuns`), and that an append does not change it for the commits there are (`AncestryStands`), is shown by the
smallest commit at which it would fail. A step is then known by the commit it lands (`Landed`) and the heads it moves:
the turns, commits and candidates it leaves alone keep their place (`TurnKeeps`, `CommitKeeps`, `CandidateKeeps`).

*Replies.* Where a reply lands is decided long before it does: a run is started on a branch made at its turn's message,
and anybody may write there until the projector appends the reply. So the property is not inductive; the invariant adds
`OpenFits`: the branch of a candidate that is not ready ends with its turn's message and is not the one the next user's message is
written to. Two candidates never share a branch (`NamesFit`), so no reply of another lands on it either.

### 6.7 What is only model-checked

* Liveness under fairness (`RunEnds`, `LoopEnds`, `WindowsClose`, `CandidatesSettle`, `ValuesLeave`): beyond the prover.
* `WorkGoesOn` with `NoStalledRun`, and `NoLostWakeup` after a command: false in general, by findings 4 and 1.
* `RouterGuards`: what it promises is that a value leaves the cycle (`ValuesLeave`), which is liveness.
* `ModelStream`: a batch of events is folded over a sequence of any length, which needs induction over data.
* `StaleWritesRefused` without `InPlace`, and `AppendOnce`: false in general, by findings 5 and 6.

## 7. What is not modelled, and why

* Contents: prompts, transcripts, requests, formats, sizes, schemas, expressions and selectors. They are
  data without shared state, represented by the choices they may make.
* Non-streamed model responses and the assembly of contexts: pure functions of one request.
* The alias `/list/-` of a JSON pointer (`core/src/state/patch.rs:113`): `add` there does what `add` at the length
  of the array does.
* Structural validation of a graph other than cycles: `GraphAssumption` states what is used of it.
* Artifact and conversation-history bindings, limits of a memory search, several scopes, several static writes of one node.
* Opaque provider state, sealed bundles and all cryptography; Git and manifests of plugins: not transition systems.
* A conversation's run profile, titles and lists; text transforms of what is displayed.
* HTTP, Tauri, TypeScript: translation and presentation; of the HTTP side the resumption of an event stream is in `Journal`.
* Several runs in one queue, and shutdown of the processes.
