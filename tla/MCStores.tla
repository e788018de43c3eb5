------------------------------ MODULE MCStores ------------------------------
(***************************************************************************)
(* The services around the runtime, each with state of its own and no step  *)
(* in common with the others.  One run checks them all: which of them a     *)
(* behaviour is about is chosen in its initial state, the others sleep.     *)
(* The names their modules have for constants and variables are the ones    *)
(* here, but for the few that WITH gives.                                   *)
(***************************************************************************)
EXTENDS Naturals, Sequences, TLC

CONSTANTS
  None, Keys, Nodes,
  Contents, MaxProposals, MaxReads,
  UnlockKeys, Passwords, NoPassword, IdleTimeout, UnlockWindow, UnlockBackoff, MaxFailures,
  MaxAttempts, MaxClock, MaxProcesses, MaxSessions,
  Bytes, Unrecognised, WriterLease, Retention, EphemeralFor, QuarantineGrace,
  OrphanGrace, MaxUploads,
  Chunks, PageSize, MaxEvents,
  Sources, Commits, Dependent, MaxFetches,
  Shapes, PersistLimit, HostedUses, MaxBlocks, MaxFragments,
  Editors, Runs, MaxDrafts, MaxHeads, MaxSwitches, MaxTries

VARIABLES
  which,
  records, commits, proposals, revision, index, proposeReceipts, reviews, reads,
  clock, process, password, unlockReceipts, session, installed, limiter, mutex, nodes, missed,
  objects, refs, staging, artifacts, commitReceipts, writing, now,
  events, nextSeq, ended, chunks, checkpoints, compactions, server, feed, wire, received, last,
  candidates, versions, plugin, issued, workspaces, placed, torn, tasks,
  shape, sent, connection, decoder, stream, outcome, fault,
  drafts, revisions, channel, preset, tool, receipts, seen, answer, runs

ASSUME Quantities ==
  {WriterLease, Retention, EphemeralFor, QuarantineGrace, OrphanGrace, IdleTimeout, MaxClock,
   MaxFetches, PageSize} \subseteq Nat

(* A commit that does not need the other plugin asks for a permission.      *)
Permissions == [c \in Commits |-> IF c \in Dependent THEN {} ELSE {"read"}]
Documents == {[streams |-> TRUE, override |-> TRUE, preset |-> FALSE, tool |-> TRUE],
              [streams |-> TRUE, override |-> FALSE, preset |-> TRUE, tool |-> FALSE]}

M == INSTANCE Memory WITH Keys <- {"k"}
S == INSTANCE SecretStore WITH Keys <- UnlockKeys
A == INSTANCE Artifacts WITH MaxClock <- MaxClock + 1
J == INSTANCE Journal
P == INSTANCE Plugins
L == INSTANCE ModelStream
U == INSTANCE Publishing WITH MaxAttempts <- MaxTries

memory == <<records, commits, proposals, revision, index, proposeReceipts, reviews, reads>>
secrets == <<clock, process, password, unlockReceipts, session, installed, limiter, mutex, nodes, missed>>
files == <<objects, refs, staging, artifacts, commitReceipts, writing, now>>
journal == <<events, nextSeq, ended, chunks, checkpoints, compactions, server, feed, wire, received, last>>
plugins == <<candidates, versions, plugin, issued, workspaces, placed, torn, tasks>>
model == <<shape, sent, connection, decoder, stream, outcome, fault>>
publishing == <<drafts, revisions, channel, preset, tool, receipts, seen, answer, runs>>
vars == <<which, memory, secrets, files, journal, plugins, model, publishing>>

MemorySleeps ==
  /\ records = 0 /\ commits = 0 /\ proposals = 0 /\ revision = 0 /\ index = 0
  /\ proposeReceipts = 0 /\ reviews = 0 /\ reads = 0
SecretsSleep ==
  /\ clock = 0 /\ process = 0 /\ password = 0 /\ unlockReceipts = 0 /\ session = 0
  /\ installed = 0 /\ limiter = 0 /\ mutex = 0 /\ nodes = 0 /\ missed = 0
FilesSleep ==
  /\ objects = 0 /\ refs = 0 /\ staging = 0 /\ artifacts = 0 /\ commitReceipts = 0
  /\ writing = 0 /\ now = 0
JournalSleeps ==
  /\ events = 0 /\ nextSeq = 0 /\ ended = 0 /\ chunks = 0 /\ checkpoints = 0 /\ compactions = 0
  /\ server = 0 /\ feed = 0 /\ wire = 0 /\ received = 0 /\ last = 0
PluginsSleep ==
  /\ candidates = 0 /\ versions = 0 /\ plugin = 0 /\ issued = 0 /\ workspaces = 0
  /\ placed = 0 /\ torn = 0 /\ tasks = 0
ModelSleeps ==
  /\ shape = 0 /\ sent = 0 /\ connection = 0 /\ decoder = 0 /\ stream = 0
  /\ outcome = 0 /\ fault = 0
PublishingSleeps ==
  /\ drafts = 0 /\ revisions = 0 /\ channel = 0 /\ preset = 0 /\ tool = 0
  /\ receipts = 0 /\ seen = 0 /\ answer = 0 /\ runs = 0

Init ==
  /\ which \in {"memory", "secrets", "files", "journal", "plugins", "model", "publishing"}
  /\ IF which = "memory" THEN M!Init ELSE MemorySleeps
  /\ IF which = "secrets" THEN S!Init ELSE SecretsSleep
  /\ IF which = "files" THEN A!Init ELSE FilesSleep
  /\ IF which = "journal" THEN J!Init ELSE JournalSleeps
  /\ IF which = "plugins" THEN P!Init ELSE PluginsSleep
  /\ IF which = "model" THEN L!Init ELSE ModelSleeps
  /\ IF which = "publishing" THEN U!Init ELSE PublishingSleeps

Next ==
  \/ /\ which = "memory" /\ M!Next
     /\ UNCHANGED <<which, secrets, files, journal, plugins, model, publishing>>
  \/ /\ which = "secrets" /\ S!Next
     /\ UNCHANGED <<which, memory, files, journal, plugins, model, publishing>>
  \/ /\ which = "files" /\ A!Next
     /\ UNCHANGED <<which, memory, secrets, journal, plugins, model, publishing>>
  \/ /\ which = "journal" /\ J!Next
     /\ UNCHANGED <<which, memory, secrets, files, plugins, model, publishing>>
  \/ /\ which = "plugins" /\ P!Next
     /\ UNCHANGED <<which, memory, secrets, files, journal, model, publishing>>
  \/ /\ which = "model" /\ L!Next
     /\ UNCHANGED <<which, memory, secrets, files, journal, plugins, publishing>>
  \/ /\ which = "publishing" /\ U!Next
     /\ UNCHANGED <<which, memory, secrets, files, journal, plugins, model>>

Spec == Init /\ [][Next]_vars

(* Values that are alike, two of a kind.  The services share no step, so    *)
(* one permutation exchanges the values of several of them at once.         *)
Exchange(pair, all) == [v \in pair |-> IF all THEN CHOOSE w \in pair : w # v ELSE v]
Symmetric ==
  {   Exchange(Contents, first) @@ Exchange(Passwords, first) @@ Exchange(Bytes, first)
   @@ Exchange(Sources, first) @@ Exchange(Editors, first)
   @@ Exchange(Commits \ Dependent, second) @@ Exchange(Keys, second) : first, second \in BOOLEAN}
-----------------------------------------------------------------------------
(* Memory: what a record says is what its decided proposals made of it, and *)
(* a stored search keeps the token of the memory it was read from.          *)
MemoryFollowsProposals ==
  which = "memory" => M!RecordsFollowProposals /\ M!TokensNameWhatWasRead
(* Memory and SecretStore: a review that a node waits for can be answered   *)
(* while it is open, and nobody waits for an unlock that has been given.    *)
WaitsAreServed ==
  /\ which = "memory" => M!ReviewsStayAnswerable
  /\ which = "secrets" => S!NoForgottenWait
(* Artifacts: an object that is referred to is there.                       *)
OwnersFindTheirObjects == which = "files" => A!OwnersFindTheirObjects
(* Journal: neither the recovery at startup nor a client that reconnects    *)
(* misses an event, whatever was compacted.                                 *)
JournalServesItsReaders ==
  which = "journal" => J!JournalSurvivesCompaction /\ J!CursorsSkipNothing
(* Plugins: a version or candidate has its files, and so has the candidate   *)
(* of a staging that reported an error (TornCandidate.cfg refutes this).    *)
PackagesAreWhole == which = "plugins" => P!PackagesAreWhole
CandidatesHaveFiles == which = "plugins" => P!CandidatesHaveFiles
(* ModelStream: a sound stream completes, a completed call has everything   *)
(* the provider said, and the chunks kept are the stream.                   *)
OutcomesAreWhatWasSaid ==
  which = "model" => L!SoundStreamsComplete /\ L!CompletedIsWhole /\ L!ChunksAreTheStream
(* Publishing: an applied revision is the document its author saw, and what *)
(* an attempt pins serves it.                                               *)
RevisionsServe == which = "publishing" => U!ApplyersGetWhatTheySaw /\ U!PinsServe
(* What no step of these components may do: resolve a wait for a session    *)
(* that is gone, move an upload backwards, add a permission by an automatic *)
(* update, change what an attempt has pinned.                               *)
StepsAreLawful ==
  [][/\ which = "secrets" => S!SessionDelivers
     /\ which = "files" => A!Advances
     /\ which = "plugins" => P!UpdateAsksNothing
     /\ which = "publishing" => U!PinKept]_vars
=============================================================================
