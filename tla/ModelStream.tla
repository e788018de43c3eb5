---------------------------- MODULE ModelStream ----------------------------
(***************************************************************************)
(* One streaming model call from the provider's first frame to the outcome  *)
(* that the effect ledger is told.  A decoder, one per wire shape, turns the *)
(* provider's frames into normalized events; the finalizer checks the       *)
(* events as they come and the terminal response against them; the events    *)
(* are also kept as chunks, a few at a time.                                 *)
(*                                                                         *)
(* The provider is external.  What it has to say is a sequence of blocks    *)
(* (text, thinking, tool call, hosted tool) in fragments; it frames them as  *)
(* its shape does, and may stop early, report an error or send something    *)
(* after its last frame, and a frame may get lost.  Texts and tool           *)
(* arguments are counted in non-empty fragments: sizes are left out, and     *)
(* arguments are taken for JSON when no fragment is missing.                *)
(***************************************************************************)
EXTENDS Naturals, Sequences, FiniteSets, SequencesExt

CONSTANTS
  Shapes,        \* subset of {"claude", "chat", "responses", "gemini"}
  PersistLimit,  \* PERSIST_EVENT_LIMIT
  HostedUses,    \* max_uses_per_model_call of the granted hosted tool
  MaxBlocks, MaxFragments    \* bounds of what a provider says

VARIABLES
  shape,
  sent,          \* the provider's blocks so far: [kind, n, open]
  connection,    \* "silent", "talking", "ended": its last frame is sent
  decoder,       \* see NewDecoder
  stream,        \* finalizer and StreamState: see NewStream
  outcome,       \* "none", "completed", "failed", "abandoned" (effect left started)
  fault          \* what went wrong outside: "none", "cut", "error", "late", "lost", "store"

vars == <<shape, sent, connection, decoder, stream, outcome, fault>>

Kinds == {"text", "thinking", "tool", "hosted"}
(* thinking is an item of kind "reasoning", text one of kind "message".     *)
NewDecoder == [started |-> FALSE, terminal |-> FALSE, finish |-> FALSE, blocks |-> <<>>, seq |-> 0]
NewStream == [started |-> FALSE, terminal |-> "none", response |-> <<>>, next |-> 0,
              order |-> <<>>, texts |-> {}, tools |-> {}, valid |-> TRUE,
              pending |-> <<>>, chunks |-> <<>>]

Init ==
  /\ shape \in Shapes
  /\ sent = <<>> /\ connection = "silent"
  /\ decoder = NewDecoder /\ stream = NewStream
  /\ outcome = "none" /\ fault = "none"
-----------------------------------------------------------------------------
(* Item ids: the position of the block, except that chat has one message,   *)
(* one reasoning and a numbering of its own for tool calls.                 *)
ItemId(blocks, i) ==
  LET kind == blocks[i].kind IN
  IF shape # "chat" THEN <<kind, i>>
  ELSE <<kind, IF kind = "tool"
                 THEN Len(SelectSeq(SubSeq(blocks, 1, i), LAMBDA b : b.kind = "tool")) ELSE 0>>

(* decode_*_terminal: blocks in order, texts without content left out; chat *)
(* puts its reasoning first, then its message, then its tool calls.         *)
Item(blocks, i) == [id |-> ItemId(blocks, i), n |-> blocks[i].n]
Spoken(blocks, i) == blocks[i].kind \in {"tool", "hosted"} \/ blocks[i].n > 0 \/
                     (blocks[i].kind = "thinking" /\ shape # "chat")
Kept(blocks, kinds) ==
  LET chosen == SelectSeq([i \in 1..Len(blocks) |-> i],
                          LAMBDA i : blocks[i].kind \in kinds /\ Spoken(blocks, i))
  IN  [j \in 1..Len(chosen) |-> Item(blocks, chosen[j])]
TerminalItems(blocks) ==
  IF shape = "chat" THEN Kept(blocks, {"thinking"}) \o Kept(blocks, {"text"}) \o Kept(blocks, {"tool"})
  ELSE Kept(blocks, Kinds)

Event(type, id, n) == [type |-> type, id |-> id, n |-> n]
Marker(type) == Event(type, <<>>, 0)
DeltaOf(kind) == CASE kind = "text" -> "textDelta" [] kind = "thinking" -> "reasoningDelta"
                   [] OTHER -> "toolDelta"
-----------------------------------------------------------------------------
(* The finalizer takes events one at a time.                                *)
Observed(s, id) == IF Contains(s.order, id) THEN s.order ELSE Append(s.order, id)
TextSoFar(s, id) == {t \in s.texts : t.id = id}
TextOf(s, id) == IF TextSoFar(s, id) = {} THEN 0 ELSE (CHOOSE t \in TextSoFar(s, id) : TRUE).n
ToolsNamed(s, id) == {t \in s.tools : t.id = id}
ToolOf(s, id) == IF ToolsNamed(s, id) = {} THEN [id |-> id, n |-> 0, completed |-> FALSE]
                 ELSE CHOOSE t \in ToolsNamed(s, id) : TRUE
Rejected(s) == [s EXCEPT !.valid = FALSE]

PositionIn(items, id) == {p \in DOMAIN items : items[p].id = id}
InOrder(order, items) ==
  /\ \A j \in DOMAIN order : PositionIn(items, order[j]) # {}
  /\ \A j, k \in DOMAIN order : j < k =>
       \A p \in PositionIn(items, order[j]), q \in PositionIn(items, order[k]) : p < q

AcceptsResponse(s, items) ==
  /\ \A t \in s.tools : t.completed
  /\ InOrder(s.order, items)
  /\ \A t \in s.texts : \E p \in PositionIn(items, t.id) : items[p].n = t.n

AcceptTool(s, e) ==
  LET t == ToolOf(s, e.id)
      n == IF e.type = "toolDelta" THEN t.n + e.n ELSE e.n IN
  IF t.completed \/ (e.type = "toolCompleted" /\ t.n \notin {0, e.n}) THEN Rejected(s)
  ELSE [s EXCEPT !.order = Observed(s, e.id),
                 !.tools = (@ \ {t}) \cup {[t EXCEPT !.n = n, !.completed = e.type = "toolCompleted"]}]

Accept(s, e) ==
  CASE s.terminal # "none" \/ e.seq # s.next \/ ((e.type = "started") = s.started) -> Rejected(s)
    [] e.type = "started" -> [s EXCEPT !.started = TRUE, !.next = @ + 1]
    [] e.type \in {"textDelta", "reasoningDelta"} /\ e.n = 0 -> Rejected(s)
    [] e.type = "textDelta" ->
         [s EXCEPT !.order = Observed(s, e.id), !.next = @ + 1,
                   !.texts = (@ \ TextSoFar(s, e.id)) \cup {[id |-> e.id, n |-> TextOf(s, e.id) + e.n]}]
    [] e.type \in {"reasoningDelta", "hosted"} -> [s EXCEPT !.order = Observed(s, e.id), !.next = @ + 1]
    [] e.type \in {"toolDelta", "toolCompleted"} -> [AcceptTool(s, e) EXCEPT !.next = @ + 1]
    [] e.type = "usage" -> [s EXCEPT !.next = @ + 1]
    [] e.type = "failed" -> [s EXCEPT !.terminal = "failed", !.next = @ + 1]
    [] e.type = "completed" ->
         IF AcceptsResponse(s, e.items)
           THEN [s EXCEPT !.terminal = "completed", !.response = e.items, !.next = @ + 1]
           ELSE Rejected(s)

(* push_batch for one event: it is set aside for the chunks first, then the *)
(* finalizer decides, then a full chunk is written.                          *)
Terminal(e) == e.type \in {"completed", "failed"}
SetAside(s, e) == IF Terminal(e) THEN s ELSE [s EXCEPT !.pending = Append(@, e.seq)]
Flushed(s) == IF s.pending = <<>> THEN s
              ELSE [s EXCEPT !.chunks = Append(@, s.pending), !.pending = <<>>]
Flush(s) == IF s.valid /\ Len(s.pending) >= PersistLimit THEN Flushed(s) ELSE s
PushEvent(s, e) == IF s.valid THEN Flush(Accept(SetAside(s, e), e)) ELSE s
PushBatch(s, events) == FoldLeft(PushEvent, s, events)
Writes(s, events) == PushBatch(s, events).chunks # s.chunks

Numbered(events, first) == [j \in 1..Len(events) |-> [seq |-> first + j - 1] @@ events[j]]
Completion(items) == <<Marker("usage"), [items |-> items] @@ Marker("completed")>>

(* bind_hosted_stream_events: more hosted items than the grant allows.      *)
HostedItems(items) == Len(SelectSeq(items, LAMBDA it : it.id[1] = "hosted"))
OverGrant(events) ==
  \E j \in DOMAIN events : events[j].type = "completed" /\ HostedItems(events[j].items) > HostedUses

(* A frame that the decoder turned into events; a failing store loses the    *)
(* chunk it was given and ends the call.                                     *)
Deliver(decoded, store, why) ==
  LET events == Numbered(decoded.events, decoder.seq)
      pushed == PushBatch(stream, events)
      over == OverGrant(events)
      lost == ~over /\ pushed.valid /\ store = "fails" /\ Writes(stream, events)
  IN  /\ decoder' = [decoded.state EXCEPT !.seq = @ + Len(events)]
      /\ stream' = IF over THEN stream
                   ELSE IF lost THEN [pushed EXCEPT !.chunks = stream.chunks, !.pending = <<>>]
                   ELSE pushed
      /\ fault' = IF lost THEN "store" ELSE why
      /\ outcome' = IF over \/ lost \/ ~pushed.valid THEN "failed" ELSE outcome
-----------------------------------------------------------------------------
(* Decoders.  A frame is [type, i, kind, n]: its block's number, the block's *)
(* kind, and how many fragments it carries (for "close", the block's total). *)
Lifecycle == shape \in {"claude", "responses"}
Blocks == decoder.blocks
Known(f) == f.i \in DOMAIN Blocks
Same(f) == Known(f) /\ Blocks[f.i].kind = f.kind
Fragment(f) == [Blocks EXCEPT ![f.i].n = @ + f.n]
Block(f, open) == [kind |-> f.kind, n |-> f.n, open |-> open]
IdIn(blocks, f) == ItemId(blocks, f.i)

Decoded(events, state) == [events |-> events, state |-> state]
Quiet(blocks) == Decoded(<<>>, [decoder EXCEPT !.blocks = blocks])
First(events) == IF decoder.started THEN events ELSE <<Marker("started")>> \o events
SaysText(f) == f.n > 0
Text(f, id) == IF SaysText(f) THEN <<Event(DeltaOf(f.kind), id, f.n)>> ELSE <<>>
Completes(events) == Decoded(events, [decoder EXCEPT !.terminal = TRUE])

LifecycleStarts(f) == /\ decoder.started = (f.type # "start")
                      /\ f.type = "open" => f.i = Len(Blocks) + 1
                      /\ f.type \in {"delta", "close"} => Known(f)

(* Claude: a delta or a stop needs its open block, the stop of a tool call  *)
(* its arguments, message_stop no open block.                               *)
ClaudeAccepts(f) ==
  \/ f.type = "error"
  \/ /\ LifecycleStarts(f)
     /\ f.type \in {"delta", "close"} => Blocks[f.i].open /\ Same(f)
     /\ f.type = "close" /\ f.kind = "tool" => Blocks[f.i].n = f.n
     /\ f.type = "end" => \A i \in DOMAIN Blocks : ~Blocks[i].open

(* Responses: the sequence numbers show a gap (a lost frame) at once; the    *)
(* terminal frame carries the whole output, as long as the items seen.      *)
ResponsesAccepts(f) ==
  /\ fault # "lost"
  /\ LifecycleStarts(f)
  /\ f.type = "end" => Len(sent) = Len(Blocks)

DecodeLifecycle(f) ==
  LET claude == shape = "claude" IN
  CASE f.type = "start" -> Decoded(<<Marker("started")>>, [decoder EXCEPT !.started = TRUE])
    [] f.type = "open" ->
         LET blocks == Append(Blocks, Block(f, TRUE)) IN
         [Quiet(blocks) EXCEPT !.events = IF f.kind = "tool" THEN <<Event("toolDelta", IdIn(blocks, f), 0)>> ELSE <<>>]
    [] f.type = "delta" ->
         [Quiet(Fragment(f)) EXCEPT !.events = IF claude THEN Text(f, IdIn(Blocks, f))
                                               ELSE <<Event(DeltaOf(f.kind), IdIn(Blocks, f), f.n)>>]
    [] f.type = "close" ->
         [Quiet([Blocks EXCEPT ![f.i].open = FALSE]) EXCEPT !.events =
            IF f.kind = "tool" THEN <<Event("toolCompleted", IdIn(Blocks, f), f.n)>>
            ELSE IF f.kind = "hosted" /\ ~claude THEN <<Event("hosted", IdIn(Blocks, f), 0)>> ELSE <<>>]
    [] f.type = "end" -> Completes(Completion(TerminalItems(IF claude THEN Blocks ELSE sent)))
    [] f.type = "error" -> Completes(<<Marker("failed")>>)
    [] f.type = "ping" -> Quiet(Blocks)

(* Chat: chunks of text, reasoning or one numbered tool call, the first of   *)
(* which names it; the call is completed by the end of the stream only.      *)
ChatIndex(f) == {i \in DOMAIN Blocks : ItemId(Blocks, i) = <<f.kind, f.i>>}
ChatTools == Cardinality({i \in DOMAIN Blocks : Blocks[i].kind = "tool"})
ChatAccepts(f) == f.type # "error" /\ (f.type = "delta" /\ f.kind = "tool" => f.i <= ChatTools + 1)

DecodeChat(f) ==
  IF f.type = "end"
    THEN Decoded(First(<<>>), [decoder EXCEPT !.started = TRUE, !.finish = TRUE])
    ELSE LET at == ChatIndex(f)
             blocks == IF at = {} THEN Append(Blocks, Block(f, ~f.names))
                       ELSE [Blocks EXCEPT ![CHOOSE i \in at : TRUE].n = @ + f.n]
             events == IF f.kind = "tool" THEN <<Event("toolDelta", <<"tool", f.i>>, f.n)>>
                       ELSE Text(f, <<f.kind, 0>>)
         IN  Decoded(First(events), [decoder EXCEPT !.started = TRUE, !.blocks = blocks])

(* Gemini: parts by position, a tool call in one piece.                      *)
GeminiAccepts(f) ==
  /\ f.type # "error"
  /\ f.type = "delta" => Same(f) \/ f.i = Len(Blocks) + 1

DecodeGemini(f) ==
  LET first == [decoder EXCEPT !.started = TRUE] IN
  CASE f.type = "end" -> Decoded(First(Completion(TerminalItems(Blocks))), [first EXCEPT !.terminal = TRUE])
    [] f.type = "ping" -> Decoded(First(<<>>), first)
    [] OTHER ->
         LET blocks == IF Known(f) THEN Fragment(f) ELSE Append(Blocks, Block(f, FALSE))
             id == IdIn(blocks, f)
             events == CASE f.kind = "tool" -> <<Event("toolDelta", id, f.n), Event("toolCompleted", id, f.n)>>
                         [] f.kind = "hosted" -> <<>>
                         [] OTHER -> Text(f, id)
         IN  Decoded(First(events), [first EXCEPT !.blocks = blocks])

Accepts(f) ==
  /\ ~decoder.terminal
  /\ CASE shape = "claude" -> ClaudeAccepts(f)
       [] shape = "responses" -> ResponsesAccepts(f)
       [] shape = "chat" -> ChatAccepts(f)
       [] shape = "gemini" -> GeminiAccepts(f)
Decode(f) == CASE Lifecycle -> DecodeLifecycle(f)
               [] shape = "chat" -> DecodeChat(f)
               [] OTHER -> DecodeGemini(f)
-----------------------------------------------------------------------------
(* One frame off the connection: decoded and delivered, or the call fails.  *)
Receive(f, store, why) ==
  IF Accepts(f) THEN Deliver(Decode(f), store, why)
  ELSE outcome' = "failed" /\ fault' = why /\ UNCHANGED <<decoder, stream>>

Stores == {"works", "fails"}
Lose == fault = "none" /\ fault' = "lost" /\ UNCHANGED <<decoder, stream, outcome>>
Transmit(f) == (\E store \in Stores : Receive(f, store, fault)) \/ Lose

Talking == outcome = "none" /\ connection = "talking"
Frame(type, i, kind, n) == [type |-> type, i |-> i, kind |-> kind, n |-> n, names |-> FALSE]
Latest == sent[Len(sent)]
AllClosed == IF sent = <<>> THEN TRUE ELSE ~Latest.open

(* The provider's frames.                                                   *)
Begin ==
  /\ outcome = "none" /\ connection = "silent"
  /\ connection' = "talking"
  /\ IF Lifecycle THEN Transmit(Frame("start", 0, "none", 0)) ELSE UNCHANGED <<decoder, stream, outcome, fault>>
  /\ UNCHANGED <<shape, sent>>

Open(kind) ==
  /\ Talking /\ Lifecycle /\ AllClosed /\ Len(sent) < MaxBlocks
  /\ sent' = Append(sent, [kind |-> kind, n |-> 0, open |-> TRUE])
  /\ Transmit(Frame("open", Len(sent) + 1, kind, 0))
  /\ UNCHANGED <<shape, connection>>

(* An empty fragment is said by shapes other than responses.                *)
Fragments == IF shape = "responses" THEN {1} ELSE {0, 1}
Say(n) ==
  /\ Talking /\ Lifecycle /\ ~AllClosed /\ Latest.kind # "hosted"
  /\ Latest.n + n <= MaxFragments
  /\ sent' = [sent EXCEPT ![Len(sent)].n = @ + n]
  /\ Transmit(Frame("delta", Len(sent), Latest.kind, n))
  /\ UNCHANGED <<shape, connection>>

Close ==
  /\ Talking /\ Lifecycle /\ ~AllClosed
  /\ shape = "responses" /\ Latest.kind = "tool" => Latest.n > 0
  /\ sent' = [sent EXCEPT ![Len(sent)].open = FALSE]
  /\ Transmit(Frame("close", Len(sent), Latest.kind, Latest.n))
  /\ UNCHANGED <<shape, connection>>

(* Chat and gemini say fragments without opening blocks, in chat reasoning   *)
(* before text before tool calls.                                           *)
Rank(kind) == CASE kind = "thinking" -> 1 [] kind = "text" -> 2 [] OTHER -> 3
MayStart(kind) ==
  /\ Len(sent) < MaxBlocks
  /\ shape = "chat" => kind # "hosted" /\
       (IF sent = <<>> THEN TRUE ELSE Rank(kind) > Rank(Latest.kind) \/ (kind = "tool" /\ Latest.kind = "tool"))
MayContinue(kind, n) ==
  /\ sent # <<>> /\ Latest.kind = kind /\ Latest.n + n <= MaxFragments
  /\ kind \in (IF shape = "chat" THEN {"tool"} ELSE {}) \cup {"text", "thinking"}
Pieces(kind) == IF kind = "tool" THEN {1} ELSE IF kind = "hosted" THEN {0} ELSE {0, 1}
Address(blocks) ==
  IF shape = "chat" THEN ItemId(blocks, Len(blocks))[2] ELSE Len(blocks)

Chunk(kind, n, new) ==
  /\ Talking /\ ~Lifecycle
  /\ IF new THEN MayStart(kind) ELSE MayContinue(kind, n)
  /\ sent' = IF new THEN Append(sent, [kind |-> kind, n |-> n, open |-> FALSE])
             ELSE [sent EXCEPT ![Len(sent)].n = @ + n]
  /\ Transmit([Frame("delta", Address(sent'), kind, n) EXCEPT !.names = (new \/ kind # "tool")])
  /\ UNCHANGED <<shape, connection>>

Finish ==
  /\ Talking /\ AllClosed /\ (Lifecycle \/ sent # <<>>)
  /\ connection' = "ended"
  /\ Transmit(Frame("end", 0, "none", 0))
  /\ UNCHANGED <<shape, sent>>

(* The provider reports a failure, or says more after its last frame (in     *)
(* chat that may be the chunk with the usage).                              *)
ReportError ==
  /\ Talking
  /\ connection' = "ended"
  /\ \E store \in Stores : Receive(Frame("error", 0, "none", 0), store, "error")
  /\ UNCHANGED <<shape, sent>>

SayMore ==
  /\ outcome = "none" /\ connection = "ended" /\ shape # "chat"
  /\ Receive(Frame("ping", 0, "none", 0), "works", "late")
  /\ UNCHANGED <<shape, sent, connection>>

(* The connection breaks: whatever the finalizer has, the call fails.        *)
Break ==
  /\ outcome = "none" /\ connection \in {"talking", "ended"}
  /\ fault' = "cut" /\ outcome' = "failed"
  /\ UNCHANGED <<shape, sent, connection, decoder, stream>>

(* The end of the stream, after the last frame or too early: what is left    *)
(* of the decoder's events, the last chunk, and the finalizer's verdict.     *)
WholeCalls ==
  \A i \in DOMAIN Blocks : Blocks[i].kind = "tool" =>
    /\ ~Blocks[i].open
    /\ \E j \in DOMAIN sent : Item(sent, j) = Item(Blocks, i)
DecoderFinishesEarly == shape \in {"responses", "chat"} \/ decoder.terminal
DecoderFinishes ==
  CASE shape = "responses" -> TRUE
    [] shape = "chat" -> decoder.finish /\ WholeCalls
    [] OTHER -> decoder.terminal
ToolItems == SelectSeq(TerminalItems(Blocks), LAMBDA it : it.id[1] = "tool")
FinalEvents ==
  IF shape # "chat" THEN <<>>
  ELSE [j \in 1..Len(ToolItems) |-> Event("toolCompleted", ToolItems[j].id, ToolItems[j].n)]
         \o Completion(TerminalItems(Blocks))

LastFlush(s) == Flushed(s)
Verdict(s) == IF s.terminal = "none" THEN "failed" ELSE s.terminal

EndOfStream(store) ==
  LET pushed == PushBatch(stream, Numbered(FinalEvents, decoder.seq))
      why == IF connection = "talking" THEN "cut" ELSE fault
      refused == ~DecoderFinishes \/ ~pushed.valid
      early == pushed.chunks # stream.chunks
  IN
  /\ outcome = "none" /\ connection \in {"talking", "ended"}
  /\ CASE refused -> outcome' = "failed" /\ fault' = why /\ UNCHANGED stream
       [] ~refused /\ store = "fails" /\ (early \/ pushed.pending # <<>>) ->
            /\ outcome' = IF early THEN "failed" ELSE "abandoned"
            /\ fault' = "store" /\ UNCHANGED stream
       [] OTHER -> stream' = LastFlush(pushed) /\ outcome' = Verdict(pushed) /\ fault' = why
  /\ UNCHANGED <<shape, sent, connection, decoder>>

Next ==
  \/ Begin
  \/ \E kind \in Kinds : Open(kind)
  \/ \E n \in Fragments : Say(n)
  \/ Close
  \/ \E kind \in Kinds : \E n \in Pieces(kind), new \in BOOLEAN : Chunk(kind, n, new)
  \/ Finish \/ ReportError \/ SayMore \/ Break
  \/ \E store \in Stores : EndOfStream(store)

Spec == Init /\ [][Next]_vars
-----------------------------------------------------------------------------
(* What the provider says in order, within the grant, and what the store     *)
(* keeps is never refused: the events a decoder makes, its own reading of    *)
(* the terminal response and the finalizer agree for every shape            *)
(* (finalizer.rs:44-217, the four decoders).                                *)
SoundStreamsComplete ==
  outcome \in {"failed", "abandoned"} /\ HostedItems(TerminalItems(sent)) <= HostedUses => fault # "none"

(* A call completes only after the provider's own end of message, with all   *)
(* that was said if no frame was lost; and even then no tool call has        *)
(* arguments other than the provider's (claude_stream.rs:290-357,            *)
(* openai_chat_stream.rs:163-245, openai_responses_stream.rs:196-218).       *)
CompletedIsWhole ==
  outcome = "completed" =>
    /\ connection = "ended"
    /\ fault = "none" => stream.response = TerminalItems(sent)
    /\ shape = "responses" => fault = "none"
    /\ \A j \in DOMAIN stream.response : LET it == stream.response[j] IN
         it.id[1] = "tool" => Contains(TerminalItems(sent), it)

(* The chunks kept hold the events from the first one without a gap, and all *)
(* of them but the terminal once the call is completed                      *)
(* (model_stream_batch.rs:52-130, model_stream.rs:214-223).                  *)
ChunksAreTheStream ==
  LET kept == FlattenSeq(stream.chunks) IN
  /\ kept = [j \in 1..Len(kept) |-> j - 1]
  /\ outcome = "completed" => Len(kept) = stream.next - 1
=============================================================================
