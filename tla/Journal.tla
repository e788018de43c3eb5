------------------------------ MODULE Journal ------------------------------
(***************************************************************************)
(* The event journal of one run: the events its transactions append, the    *)
(* runtime checkpoints taken of it, the compaction of the events that need  *)
(* not be kept, the recovery every start of the server insists on, and the  *)
(* event stream of one client that is cut and resumed.                      *)
(*                                                                         *)
(* The database has one connection, so each action up to Compact is one     *)
(* transaction.  Of a checkpoint's snapshot only what it covers is kept: it *)
(* is written once, under a checksum, and never changed.                    *)
(***************************************************************************)
EXTENDS Naturals, Sequences, FiniteSets, FiniteSetsExt

CONSTANTS
  Chunks,         \* chunk numbers of the run's streamed model call
  PageSize,       \* events a stream reads at once
  MaxEvents       \* bound: events

VARIABLES
  events,         \* run_events: [seq, kind]
  nextSeq,        \* run_event_counters.next_seq
  ended,          \* the run is in a terminal status
  chunks,         \* llm_stream_chunks: chunk -> durable_seq, 0: none
  checkpoints,    \* runtime_checkpoints.through_seq
  compactions,    \* run_event_compactions: [seq, kind, checkpoint]
  server,         \* "up", or "starting" until every run is recovered
  feed,           \* the server's side of the event stream
  wire,           \* events sent to the client and not yet there
  received, last  \* events the client has, and the id it saw last

vars == <<events, nextSeq, ended, chunks, checkpoints, compactions, server,
          feed, wire, received, last>>
clients == <<feed, wire, received, last>>

Closed == [open |-> FALSE, cursor |-> 0, page |-> <<>>]
Event(seq, kind) == [seq |-> seq, kind |-> kind]

Init ==
  /\ events = {Event(1, "critical")} /\ nextSeq = 2 /\ ended = FALSE
  /\ chunks = [c \in Chunks |-> 0]
  /\ checkpoints = {} /\ compactions = {} /\ server = "up"
  /\ feed = Closed /\ wire = <<>> /\ received = {} /\ last = 0

Seqs == {e.seq : e \in events}
(* The events after the transaction has appended one of each of 'kinds'.    *)
Appends(kinds) ==
  /\ nextSeq + Len(kinds) <= MaxEvents + 1
  /\ events' = events \cup {Event(nextSeq + i - 1, kinds[i]) : i \in DOMAIN kinds}
  /\ nextSeq' = nextSeq + Len(kinds)
-----------------------------------------------------------------------------
(* Any transaction of the run: critical and debug events, and with the one  *)
(* that ends the run its terminal event.                                    *)
Commit(kinds) ==
  /\ server = "up"
  /\ "terminal" \in {kinds[i] : i \in DOMAIN kinds} => ~ended
  /\ Appends(kinds)
  /\ ended' = (ended \/ "terminal" \in {kinds[i] : i \in DOMAIN kinds})
  /\ UNCHANGED <<chunks, checkpoints, compactions, server, clients>>

(* A chunk already there is answered with the sequence number it has got.   *)
PersistChunk(c) ==
  /\ server = "up" /\ ~ended
  /\ chunks[c] = 0
  /\ Appends(<<"chunk">>)
  /\ chunks' = [chunks EXCEPT ![c] = nextSeq]
  /\ UNCHANGED <<ended, checkpoints, compactions, server, clients>>

(* validate_projection, the journal's part: the counter follows the last    *)
(* event, and a run that has ended has its terminal event.                  *)
Consistent(through) ==
  /\ nextSeq = through + 1
  /\ ended => \E e \in events : e.kind = "terminal"

(* A checkpoint covers the events so far and appends one that says so; for  *)
(* events a checkpoint covers already there is nothing to do.               *)
TakeCheckpoint ==
  /\ Max(Seqs) \notin checkpoints
  /\ Consistent(Max(Seqs))
  /\ checkpoints' = checkpoints \cup {Max(Seqs)}
  /\ Appends(<<"critical">>)
  /\ UNCHANGED <<ended, chunks, compactions, clients>>

CreateCheckpoint ==
  /\ server = "up"
  /\ TakeCheckpoint
  /\ UNCHANGED server

Compactable(through) ==
  {e \in events : e.seq <= through /\ e.kind \in {"debug", "chunk"}}

(* At most 'limit' of them, oldest first, leave a hash behind.              *)
Compact(through, limit) ==
  LET compacted == {e \in Compactable(through) :
        Cardinality({f \in Compactable(through) : f.seq < e.seq}) < limit}
  IN /\ server = "up"
     /\ through \in checkpoints
     /\ Consistent(nextSeq - 1)
     /\ compacted # {}
     /\ events' = events \ compacted
     /\ compactions' = compactions \cup
          {[seq |-> e.seq, kind |-> e.kind, checkpoint |-> through] : e \in compacted}
     /\ UNCHANGED <<nextSeq, ended, chunks, checkpoints, server, clients>>
-----------------------------------------------------------------------------
(* reconcile_runtime_checkpoint: what follows the latest checkpoint must    *)
(* lead to the counter.                                                     *)
Reconciles ==
  LET latest == Max(checkpoints)
  IN Consistent(Max({latest} \cup {e.seq : e \in {f \in events : f.seq > latest}}))

(* recover_runtime_runs, before the server answers or schedules anything: a *)
(* run that has not ended is reconciled, after a first checkpoint if it has *)
(* none; one refusal ends the start.                                        *)
Recover ==
  /\ server = "starting"
  /\ server' = "up"
  /\ IF ~ended /\ checkpoints = {} THEN TakeCheckpoint
     ELSE /\ IF ended THEN TRUE ELSE Reconciles
          /\ UNCHANGED <<events, nextSeq, ended, chunks, checkpoints, compactions, clients>>

Crash ==
  /\ server = "up"
  /\ server' = "starting"
  /\ feed' = Closed /\ wire' = <<>>
  /\ UNCHANGED <<events, nextSeq, ended, chunks, checkpoints, compactions, received, last>>
-----------------------------------------------------------------------------
(* A client connects with the id of the last event it has seen.             *)
ResumeAtStart == Max(Seqs)
ResumeAt == last
Connect ==
  /\ server = "up" /\ ~feed.open
  /\ feed' = [open |-> TRUE, cursor |-> ResumeAt, page |-> <<>>]
  /\ UNCHANGED <<events, nextSeq, ended, chunks, checkpoints, compactions, server, wire, received, last>>

Page(cursor) ==
  LET after == {s \in Seqs : s > cursor}
      page == {s \in after : Cardinality({t \in after : t < s}) < PageSize}
  IN [i \in 1..Cardinality(page) |->
        CHOOSE s \in page : Cardinality({t \in page : t < s}) = i - 1]

Drain ==
  /\ feed.open /\ feed.page = <<>>
  /\ Page(feed.cursor) # <<>>
  /\ feed' = [feed EXCEPT !.page = Page(feed.cursor)]
  /\ UNCHANGED <<events, nextSeq, ended, chunks, checkpoints, compactions, server, wire, received, last>>

Send ==
  /\ feed.open /\ feed.page # <<>>
  /\ feed' = [feed EXCEPT !.cursor = Head(feed.page), !.page = Tail(@)]
  /\ wire' = Append(wire, Head(feed.page))
  /\ UNCHANGED <<events, nextSeq, ended, chunks, checkpoints, compactions, server, received, last>>

Receive ==
  /\ wire # <<>>
  /\ received' = received \cup {Head(wire)}
  /\ last' = Head(wire)
  /\ wire' = Tail(wire)
  /\ UNCHANGED <<events, nextSeq, ended, chunks, checkpoints, compactions, server, feed>>

Disconnect ==
  /\ feed.open
  /\ feed' = Closed /\ wire' = <<>>
  /\ UNCHANGED <<events, nextSeq, ended, chunks, checkpoints, compactions, server, received, last>>

Batches == {<<"critical">>, <<"debug">>, <<"debug", "terminal">>, <<"terminal">>}
Runtime ==
  \/ \E kinds \in Batches : Commit(kinds)
  \/ \E c \in Chunks : PersistChunk(c)
  \/ CreateCheckpoint
  \/ \E through \in checkpoints, limit \in 1..2 : Compact(through, limit)
Client == Connect \/ Drain \/ Send \/ Receive \/ Disconnect
Next == Runtime \/ Crash \/ Recover \/ Client

Spec == Init /\ [][Next]_vars
-----------------------------------------------------------------------------
(* Compaction loses nothing the journal is for: every sequence number ever  *)
(* given is an event or the record of a compacted one, only events that a   *)
(* checkpoint covers and nobody has to act on are compacted, a persisted    *)
(* chunk stays accounted for, and the recovery of a run that has not ended  *)
(* is never refused, whenever the server restarts (event_compaction.rs:20,  *)
(* checkpoint.rs:111).                                                      *)
JournalSurvivesCompaction ==
  LET gone == {c.seq : c \in compactions}
  IN /\ Seqs \cap gone = {} /\ Seqs \cup gone = 1..(nextSeq - 1)
     /\ \A c \in compactions :
          c.kind \in {"debug", "chunk"} /\ c.seq <= c.checkpoint /\ c.checkpoint \in checkpoints
     /\ \A c \in Chunks : chunks[c] # 0 =>
          \E e \in events \cup compactions : e.seq = chunks[c] /\ e.kind = "chunk"
     /\ ended \/ (IF checkpoints = {} THEN Consistent(Max(Seqs)) ELSE Reconciles)

(* A client that resumes with the id it saw last misses nothing: however    *)
(* often the stream is cut, with events on the wire or compacted meanwhile, *)
(* it has every event of the journal up to that id, and the wire carries    *)
(* later ones only (runtime.rs:166).                                        *)
CursorsSkipNothing ==
  /\ \A s \in Seqs : s <= last => s \in received
  /\ \A i \in DOMAIN wire : wire[i] > last
=============================================================================
