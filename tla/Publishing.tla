------------------------------ MODULE Publishing ------------------------------
(***************************************************************************)
(* From a draft to what an attempt executes.  Editors change the draft of a *)
(* graph under its revision token and apply it; applying validates it       *)
(* against the heads of the channel, the preset and the tool registry and   *)
(* makes a revision without pinning any of them.  They are pinned by the    *)
(* first claim of a node instance, when the heads may have moved, and every *)
(* later attempt of the instance executes with that snapshot.               *)
(*                                                                         *)
(* Every command is one transaction with a receipt: a repeated key answers  *)
(* with the stored result, and with a conflict if the request differs.      *)
(*                                                                         *)
(* One graph with one LLM node, one channel with one model and one of its   *)
(* capabilities, one preset, one tool.  Of the scheduler only the claim is  *)
(* here, of any run with a queued attempt: GraphRun has its order.          *)
(***************************************************************************)
EXTENDS Naturals, Sequences, SequencesExt

CONSTANTS
  Editors, Keys, Runs,
  Documents,     \* [streams, override, preset, tool : BOOLEAN], of the LLM node
  None,
  MaxDrafts, MaxHeads, MaxSwitches, MaxAttempts   \* bounds

Capability == {"yes", "no", "unknown"}

VARIABLES
  drafts,      \* every document the draft had; the last one is the draft,
               \* its place the revision token
  revisions,   \* of the graph
  channel,     \* revisions of the channel: whether the model can stream
  preset,      \* number of versions of the preset
  tool,        \* [registered, enabled, switches]
  receipts,    \* results of the completed commands
  seen,        \* seen[e]: the token an editor last got, 0 for none
  answer,      \* answer[e]: the token he last applied and the revision he got
  runs         \* [status, revision, pin, attempts]

vars == <<drafts, revisions, channel, preset, tool, receipts, seen, answer, runs>>

Init ==
  /\ \E d \in Documents : drafts = <<d>>
  /\ revisions = <<>> /\ channel = <<>> /\ preset = 0
  /\ tool = [registered |-> FALSE, enabled |-> FALSE, switches |-> 0]
  /\ receipts = {}
  /\ seen = [e \in Editors |-> 0] /\ answer = [e \in Editors |-> None]
  /\ runs = [r \in Runs |-> None]
-----------------------------------------------------------------------------
(* Receipts: one scope for each kind of command.                            *)
Kept(scope, k) == {r \in receipts : r.scope = scope /\ r.key = k}
Replays(scope, k, digest) == \E r \in Kept(scope, k) : r.digest = digest
Stored(scope, k) == (CHOOSE r \in Kept(scope, k) : TRUE).result
Record(scope, k, digest, result) ==
  receipts' = receipts \cup {[scope |-> scope, key |-> k, digest |-> digest, result |-> result]}
-----------------------------------------------------------------------------
(* get_graph_draft and update_graph_draft.                                  *)
Read(e) ==
  /\ seen' = [seen EXCEPT ![e] = Len(drafts)]
  /\ UNCHANGED <<drafts, revisions, channel, preset, tool, receipts, answer, runs>>

UpdateDraft(e, k, document) ==
  LET digest == [token |-> seen[e], document |-> document] IN
  /\ seen[e] # 0
  /\ \/ /\ Replays("draft", k, digest)
        /\ seen' = [seen EXCEPT ![e] = Stored("draft", k)]
        /\ UNCHANGED <<drafts, receipts>>
     \/ /\ Kept("draft", k) = {} /\ seen[e] = Len(drafts) /\ Len(drafts) < MaxDrafts
        /\ drafts' = Append(drafts, document)
        /\ seen' = [seen EXCEPT ![e] = Len(drafts')]
        /\ Record("draft", k, digest, Len(drafts'))
  /\ UNCHANGED <<revisions, channel, preset, tool, answer, runs>>
-----------------------------------------------------------------------------
(* What a capability allows: a model that denies it is refused whatever the *)
(* node says, one that does not tell needs the node's confirmation.         *)
Offers(capability, node) ==
  node.streams => capability = "yes" \/ (capability = "unknown" /\ node.override)

Resolvable(node) ==
  /\ channel # <<>>
  /\ node.preset => preset > 0
  /\ node.tool => tool.registered /\ tool.enabled
Servable(node) == Resolvable(node) /\ Offers(Last(channel), node)

(* apply_graph: a document applied before is found by its hash.             *)
Apply(e, k) ==
  LET node == drafts[seen[e]]
      revision(all) == CHOOSE n \in 1..Len(all) : all[n] = node IN
  /\ seen[e] # 0
  /\ \/ /\ Replays("apply", k, seen[e])
        /\ answer' = [answer EXCEPT ![e] = [token |-> seen[e], revision |-> Stored("apply", k)]]
        /\ UNCHANGED <<revisions, receipts>>
     \/ /\ Kept("apply", k) = {} /\ seen[e] = Len(drafts) /\ Servable(node)
        /\ revisions' = IF node \in ToSet(revisions) THEN revisions ELSE Append(revisions, node)
        /\ answer' = [answer EXCEPT ![e] = [token |-> seen[e], revision |-> revision(revisions')]]
        /\ Record("apply", k, seen[e], revision(revisions'))
  /\ UNCHANGED <<drafts, channel, preset, tool, seen, runs>>
-----------------------------------------------------------------------------
(* Configuration.  The expected heads of the publishers are current: one    *)
(* who expects another head is refused, and a replay changes nothing.       *)
PublishChannel(capability) ==
  /\ Len(channel) < MaxHeads
  /\ channel' = Append(channel, capability)
  /\ UNCHANGED <<drafts, revisions, preset, tool, receipts, seen, answer, runs>>

PublishPreset ==
  /\ preset < MaxHeads
  /\ preset' = preset + 1
  /\ UNCHANGED <<drafts, revisions, channel, tool, receipts, seen, answer, runs>>

PublishTool(enabled) ==
  /\ ~tool.registered
  /\ tool' = [tool EXCEPT !.registered = TRUE, !.enabled = enabled]
  /\ UNCHANGED <<drafts, revisions, channel, preset, receipts, seen, answer, runs>>

SetToolEnabled(enabled) ==
  /\ tool.registered /\ tool.switches < MaxSwitches
  /\ tool' = [tool EXCEPT !.enabled = enabled, !.switches = @ + 1]
  /\ UNCHANGED <<drafts, revisions, channel, preset, receipts, seen, answer, runs>>
-----------------------------------------------------------------------------
(* A run executes the revision it was started with.                         *)
StartRun(r, revision) ==
  /\ runs[r] = None
  /\ runs' = [runs EXCEPT ![r] =
                [status |-> "queued", revision |-> revision, pin |-> None, attempts |-> 1]]
  /\ UNCHANGED <<drafts, revisions, channel, preset, tool, receipts, seen, answer>>

Is(r, status) == IF runs[r] = None THEN FALSE ELSE runs[r].status = status
Node(r) == revisions[runs[r].revision]

(* ensure_llm_snapshot, within the claim.  A node that cannot be served     *)
(* rolls the claim back and stays queued.                                   *)
Heads(r) == [channel |-> Len(channel), preset |-> IF Node(r).preset THEN preset ELSE 0, tool |-> Node(r).tool]
Pinned(r) == runs[r].pin # None
ServedAtApply(r) == Resolvable(Node(r))
Served(r) == Servable(Node(r))
Claim(r) ==
  /\ Is(r, "queued")
  /\ IF Pinned(r) THEN TRUE ELSE Served(r)
  /\ runs' = [runs EXCEPT ![r].status = "leased", ![r].pin = IF Pinned(r) THEN @ ELSE Heads(r)]
  /\ UNCHANGED <<drafts, revisions, channel, preset, tool, receipts, seen, answer>>

Retry(r) ==
  /\ Is(r, "leased") /\ runs[r].attempts < MaxAttempts
  /\ runs' = [runs EXCEPT ![r].status = "queued", ![r].attempts = @ + 1]
  /\ UNCHANGED <<drafts, revisions, channel, preset, tool, receipts, seen, answer>>

End(r) ==
  /\ Is(r, "leased") \/ Is(r, "queued")
  /\ runs' = [runs EXCEPT ![r].status = "ended"]
  /\ UNCHANGED <<drafts, revisions, channel, preset, tool, receipts, seen, answer>>

Next ==
  \/ \E e \in Editors : \/ Read(e)
                        \/ \E k \in Keys : Apply(e, k) \/ \E d \in Documents : UpdateDraft(e, k, d)
  \/ \E capability \in Capability : PublishChannel(capability)
  \/ PublishPreset
  \/ \E enabled \in BOOLEAN : PublishTool(enabled) \/ SetToolEnabled(enabled)
  \/ \E r \in Runs : \/ \E n \in 1..Len(revisions) : StartRun(r, n)
                     \/ Claim(r) \/ Retry(r) \/ End(r)

Spec == Init /\ [][Next]_vars
-----------------------------------------------------------------------------
(* Whoever applies gets a revision of the document he saw, not of what      *)
(* another editor made of the draft meanwhile nor of what an earlier        *)
(* command with the same key applied (apply.rs:32-49, draft.rs:35-58).      *)
ApplyersGetWhatTheySaw ==
  \A e \in Editors : answer[e] # None => revisions[answer[e].revision] = drafts[answer[e].token]

(* However the heads moved between apply, start and claim, what an attempt  *)
(* executes with serves its node: a preset and a tool if it wants them, and *)
(* a model that does not deny what it needs, nor keeps silent about it      *)
(* without a confirmation (llm_snapshot.rs:47-91).                          *)
PinsServe ==
  \A r \in Runs : runs[r] # None => (runs[r].pin # None =>
    /\ Offers(channel[runs[r].pin.channel], Node(r))
    /\ Node(r).preset => runs[r].pin.preset \in 1..preset)

(* A retry executes with what its first attempt pinned, although heads move *)
(* and tools are disabled in between (llm_snapshot.rs:42-46).               *)
PinKept ==
  \A r \in Runs : runs[r] # None => (runs[r].pin # None => runs'[r].pin = runs[r].pin)
PinsStay == [][PinKept]_vars
=============================================================================
