----------------------------- MODULE Artifacts -----------------------------
(***************************************************************************)
(* Uploads, artifacts and the content objects they share.  An upload has a  *)
(* staging row: created with a metadata draft, completed with its bytes,    *)
(* committed into an artifact.  Two maintenance loops of the server race    *)
(* these calls, one expiring staging rows, one deleting content objects     *)
(* nothing owns any more.  Objects are stored once per hash, so rows and    *)
(* artifacts that never heard of each other own the same object.            *)
(*                                                                         *)
(* Each action is one transaction.  Calls carry the generation the caller   *)
(* saw last and may be late or repeated.  Of an artifact's own records only *)
(* the binding to its content is kept: its commit, projection and receipt   *)
(* objects are written with it and are never released.                      *)
(***************************************************************************)
EXTENDS Naturals, Sequences, FiniteSets

CONSTANTS
  Bytes,          \* contents an upload or a metadata draft may have
  Unrecognised,   \* bytes no media type is detected for
  None,           \* a NULL object
  Keys,           \* idempotency keys of commits
  WriterLease,    \* time an upload may take
  Retention,      \* time a staging row waits to be committed
  EphemeralFor,   \* time an ephemeral artifact is kept
  QuarantineGrace, OrphanGrace,   \* positive
  MaxUploads,     \* bound: staging rows
  MaxClock        \* bound: the clock

VARIABLES
  objects,        \* content_objects by their content
  refs,           \* content_object_refs
  staging,        \* artifact_staging, in the order of creation
  artifacts,      \* artifacts
  commitReceipts, \* receipts of artifact.commit
  writing,        \* the node attempt that uploads is still running
  now             \* the clock

vars == <<objects, refs, staging, artifacts, commitReceipts, writing, now>>

Forever == MaxClock + Retention + EphemeralFor
Earlier(a, b) == IF a < b THEN a ELSE b

Init ==
  /\ objects = [b \in Bytes |-> [lifecycle |-> "none", created |-> 0]]
  /\ refs = {} /\ staging = <<>> /\ artifacts = {} /\ commitReceipts = {}
  /\ writing = TRUE /\ now = 0

Ref(object, owner, id, role) ==
  [object |-> object, owner |-> owner, id |-> id, role |-> role]
DraftRef(s) == Ref(staging[s].draft, "artifact_staging", s, "metadata_draft")
ContentRef(s, b) == Ref(b, "artifact_staging", s, "validated_content")
ArtifactRef(s, b) == Ref(b, "artifact", s, "content")

(* An object whose hash is known is reused, and rehydrated when it has been *)
(* deleted; it keeps the time of its first creation.                        *)
PutKnown(b) ==
  objects' = [objects EXCEPT ![b] =
    IF @.lifecycle = "none" THEN [lifecycle |-> "live", created |-> now] ELSE @]
PutInline(b) ==
  objects' = [objects EXCEPT ![b] =
    IF @.lifecycle = "none" THEN [lifecycle |-> "live", created |-> now]
    ELSE [@ EXCEPT !.lifecycle = "live"]]
-----------------------------------------------------------------------------
(* The draft fixes how long the artifact is kept; a row created for a node  *)
(* attempt is accepted, and completed, only while that attempt runs.        *)
Create(draft, ephemeral, ofAttempt) ==
  LET keptUntil == IF ephemeral THEN now + EphemeralFor ELSE Forever
      expires == Earlier(keptUntil, now + Retention)
  IN /\ Len(staging) < MaxUploads
     /\ ofAttempt => writing
     /\ PutInline(draft)
     /\ staging' = Append(staging,
          [status |-> "uploading", generation |-> 0, draft |-> draft,
           content |-> None, hash |-> None, lease |-> Earlier(now + WriterLease, expires),
           expires |-> expires, keptUntil |-> keptUntil, ofAttempt |-> ofAttempt,
           quarantined |-> 0])
     /\ refs' = refs \cup {Ref(draft, "artifact_staging", Len(staging) + 1,
                               "metadata_draft")}
     /\ UNCHANGED <<artifacts, commitReceipts, writing, now>>

(* The row may still be completed by the call that expects generation g.    *)
Uploading(s, g) ==
  /\ staging[s].status = "uploading"
  /\ staging[s].generation = g
  /\ staging[s].lease > now
  /\ staging[s].ofAttempt => writing

Quarantined(row) ==
  [row EXCEPT !.status = "quarantined", !.generation = @ + 1, !.lease = 0,
              !.quarantined = now]
(* Recognised bytes pass 'staged' within the transaction, one generation    *)
(* each for 'staged' and 'validated'.                                       *)
Validated(row, b) ==
  [row EXCEPT !.status = "validated", !.generation = @ + 2, !.lease = 0,
              !.content = b, !.hash = b]
Committed(row) == [row EXCEPT !.status = "committed", !.generation = @ + 1]
Deleting(row) ==
  [row EXCEPT !.status = "deleting", !.generation = @ + 1, !.content = None]
Deleted(row) == [row EXCEPT !.status = "deleted", !.generation = @ + 1]

RejectUpload(s, g) ==
  /\ Uploading(s, g)
  /\ staging' = [staging EXCEPT ![s] = Quarantined(@)]
  /\ UNCHANGED <<objects, refs, artifacts, commitReceipts, writing, now>>

CompleteUpload(s, g, b) ==
  /\ Uploading(s, g)
  /\ PutInline(b)
  /\ refs' = refs \cup {ContentRef(s, b)}
  /\ staging' = [staging EXCEPT ![s] = Validated(@, b)]
  /\ UNCHANGED <<artifacts, commitReceipts, writing, now>>

Complete(s, g, b) ==
  \/ b = Unrecognised /\ RejectUpload(s, g)
  \/ b # Unrecognised /\ CompleteUpload(s, g, b)
-----------------------------------------------------------------------------
Committable(s, g) ==
  /\ staging[s].status = "validated"
  /\ staging[s].generation = g
  /\ staging[s].keptUntil > now

ObjectsOf(s) ==
  /\ objects[staging[s].draft].lifecycle = "live"
  /\ objects[staging[s].content].lifecycle = "live"
  /\ ContentRef(s, staging[s].content) \in refs

(* The artifact takes over the object: its owner reference is added and     *)
(* that of the staging row removed, whose column keeps naming the object.   *)
Handover(s, b) == (refs \cup {ArtifactRef(s, b)}) \ {ContentRef(s, b)}

Commit(s, g, k) ==
  /\ ~\E r \in commitReceipts : r.staging = s /\ r.key = k
  /\ Committable(s, g)
  /\ ObjectsOf(s)
  /\ staging' = [staging EXCEPT ![s] = Committed(@)]
  /\ artifacts' = artifacts \cup {[staging |-> s, content |-> staging[s].content]}
  /\ refs' = Handover(s, staging[s].content)
  /\ commitReceipts' = commitReceipts \cup {[staging |-> s, key |-> k, generation |-> g]}
  /\ UNCHANGED <<objects, writing, now>>
-----------------------------------------------------------------------------
(* The first transaction of a staging pass, whose batch of 100 is taken to  *)
(* hold every row there is.                                                 *)
Overdue(row) ==
  /\ row.status \in {"uploading", "validated"}
  /\ \/ row.expires <= now
     \/ row.status = "uploading" /\ row.lease <= now

Abandoned(row) ==
  /\ row.status = "quarantined"
  /\ row.quarantined + QuarantineGrace <= now

MaintainStaging ==
  LET Maintained(row) ==
        IF Overdue(row) THEN Quarantined(row)
        ELSE IF Abandoned(row) THEN Deleting(row) ELSE row
      released == {s \in DOMAIN staging : Abandoned(staging[s])}
  IN /\ \E s \in DOMAIN staging : Overdue(staging[s]) \/ Abandoned(staging[s])
     /\ staging' = [s \in DOMAIN staging |-> Maintained(staging[s])]
     /\ refs' = refs \ {ContentRef(s, staging[s].content) : s \in released}
     /\ UNCHANGED <<objects, artifacts, commitReceipts, writing, now>>

(* The second transaction, possibly of a later pass.                        *)
DeleteStaging ==
  /\ \E s \in DOMAIN staging : staging[s].status = "deleting"
  /\ staging' = [s \in DOMAIN staging |->
       IF staging[s].status = "deleting" THEN Deleted(staging[s]) ELSE staging[s]]
  /\ UNCHANGED <<objects, refs, artifacts, commitReceipts, writing, now>>

(* Columns of other tables that name an object, whatever their row's status.*)
ForeignKeyRoots ==
  {staging[s].draft : s \in DOMAIN staging}
  \cup {staging[s].content : s \in DOMAIN staging}
  \cup {a.content : a \in artifacts}

Orphans ==
  {b \in Bytes : /\ objects[b].lifecycle = "live"
                 /\ objects[b].created + OrphanGrace <= now
                 /\ ~\E r \in refs : r.object = b
                 /\ b \notin ForeignKeyRoots}

(* Marking an object 'deleting' and sweeping it share one transaction.      *)
MaintainObjects ==
  /\ Orphans # {}
  /\ objects' = [b \in Bytes |->
       IF b \in Orphans THEN [objects[b] EXCEPT !.lifecycle = "deleted"]
       ELSE objects[b]]
  /\ UNCHANGED <<refs, staging, artifacts, commitReceipts, writing, now>>

AttemptEnds ==
  /\ writing /\ writing' = FALSE
  /\ UNCHANGED <<objects, refs, staging, artifacts, commitReceipts, now>>

Tick ==
  /\ now < MaxClock /\ now' = now + 1
  /\ UNCHANGED <<objects, refs, staging, artifacts, commitReceipts, writing>>

Next ==
  \/ \E draft \in Bytes, ephemeral, ofAttempt \in BOOLEAN :
       Create(draft, ephemeral, ofAttempt)
  \/ \E s \in DOMAIN staging : \E g \in 0 .. staging[s].generation :
       \/ \E b \in Bytes \cup {Unrecognised} : Complete(s, g, b)
       \/ \E k \in Keys : Commit(s, g, k)
  \/ MaintainStaging \/ DeleteStaging \/ MaintainObjects
  \/ AttemptEnds \/ Tick

Spec == Init /\ [][Next]_vars
-----------------------------------------------------------------------------
(* What load_artifact_binding checks before it returns an artifact.         *)
Readable(a) ==
  /\ staging[a.staging].status = "committed"
  /\ staging[a.staging].content = a.content
  /\ objects[a.content].lifecycle = "live"
  /\ ArtifactRef(a.staging, a.content) \in refs

(* Whatever uploads share their bytes, expire, are deleted or are collected *)
(* in between: every artifact stays readable with the bytes its own upload  *)
(* completed, and every validated row stays committable until it expires.   *)
OwnersFindTheirObjects ==
  /\ \A a \in artifacts : Readable(a) /\ staging[a.staging].hash = a.content
  /\ \A s \in DOMAIN staging : staging[s].status = "validated" => ObjectsOf(s)

(* A row that expired, was refused or was committed never leaves that line: *)
(* neither a late commit of an expired row nor a maintenance pass on a      *)
(* committed one takes effect, and an upload becomes at most one artifact.  *)
After(status) ==
  CASE status = "uploading" -> {"validated", "quarantined"}
    [] status = "validated" -> {"committed", "quarantined"}
    [] status = "quarantined" -> {"deleting"}
    [] status = "deleting" -> {"deleted"}
    [] OTHER -> {}
Advances ==
  \A s \in DOMAIN staging :
    /\ staging'[s].status \in {staging[s].status} \cup After(staging[s].status)
    /\ staging'[s].status # staging[s].status => staging'[s].generation > staging[s].generation
StagingOnlyAdvances == [][Advances]_vars
=============================================================================
