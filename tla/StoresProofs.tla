---------------------------- MODULE StoresProofs ----------------------------
(***************************************************************************)
(* What the services around the runtime owe their callers, proved for every *)
(* set of contents, commits, documents, nodes and editors and for every     *)
(* value of the durations and bounds.  Each service has an invariant of its *)
(* own; a behaviour of MCStores is about one of them, so that the theorems  *)
(* at the end, about the properties of the run Stores, follow from what is  *)
(* proved of the services one by one.                                       *)
(***************************************************************************)
EXTENDS MCStores, FiniteSetTheorems, WellFoundedInduction, TLAPS

-----------------------------------------------------------------------------
(* Artifacts.  What keeps an object from the collector is a reference or a  *)
(* column that names it; what an upload owns passes to its artifact when it *)
(* is committed.                                                            *)
UploadStatus == {"uploading", "validated", "quarantined", "committed", "deleting", "deleted"}
Upload ==
  [status : UploadStatus, generation : Nat, draft : Bytes, content : Bytes \cup {None},
   hash : Bytes \cup {None}, lease : Nat, expires : Nat, keptUntil : Nat,
   ofAttempt : BOOLEAN, quarantined : Nat]
FilesTyped ==
  /\ objects \in [Bytes -> [lifecycle : {"none", "live", "deleted"}, created : Nat]]
  /\ staging \in Seq(Upload)
  /\ now \in Nat

IsLive(b) == b \in Bytes /\ objects[b].lifecycle = "live"
UploadServed(s) ==
  /\ IsLive(staging[s].draft)
  /\ staging[s].status \in {"validated", "committed"} =>
       IsLive(staging[s].content) /\ staging[s].hash = staging[s].content
  /\ staging[s].status = "validated" => A!ContentRef(s, staging[s].content) \in refs
ArtifactServed(a) ==
  /\ a.staging \in DOMAIN staging
  /\ staging[a.staging].status = "committed"
  /\ staging[a.staging].content = a.content
  /\ A!ArtifactRef(a.staging, a.content) \in refs
FilesInv ==
  /\ FilesTyped
  /\ \A s \in DOMAIN staging : UploadServed(s)
  /\ \A a \in artifacts : ArtifactServed(a)

FilesStep == FilesInv' /\ A!Advances

\* The invariant is what the property asks for, and more.
LEMMA FilesServed ==
  ASSUME FilesInv
  PROVE  A!OwnersFindTheirObjects
BY DEF FilesInv, UploadServed, ArtifactServed, IsLive, A!OwnersFindTheirObjects, A!Readable, A!ObjectsOf

\* An upload is a row, and its place in the table a positive number.
LEMMA UploadRows ==
  ASSUME FilesTyped
  PROVE  /\ Len(staging) \in Nat
         /\ DOMAIN staging = 1..Len(staging)
         /\ \A s \in DOMAIN staging : staging[s] \in Upload
BY DEF FilesTyped

\* What each transaction makes of a row: it is the same upload, a generation
\* later.
LEMMA RowsMove ==
  ASSUME NEW r \in Upload, NEW b \in Bytes, now \in Nat
  PROVE  /\ A!Quarantined(r) \in Upload /\ A!Quarantined(r).status = "quarantined"
         /\ A!Quarantined(r).generation > r.generation /\ A!Quarantined(r).draft = r.draft
         /\ A!Validated(r, b) \in Upload /\ A!Validated(r, b).status = "validated"
         /\ A!Validated(r, b).generation > r.generation /\ A!Validated(r, b).draft = r.draft
         /\ A!Validated(r, b).content = b /\ A!Validated(r, b).hash = b
         /\ A!Committed(r) \in Upload /\ A!Committed(r).status = "committed"
         /\ A!Committed(r).generation > r.generation /\ A!Committed(r).draft = r.draft
         /\ A!Committed(r).content = r.content /\ A!Committed(r).hash = r.hash
         /\ A!Deleting(r) \in Upload /\ A!Deleting(r).status = "deleting"
         /\ A!Deleting(r).generation > r.generation /\ A!Deleting(r).draft = r.draft
         /\ A!Deleted(r) \in Upload /\ A!Deleted(r).status = "deleted"
         /\ A!Deleted(r).generation > r.generation /\ A!Deleted(r).draft = r.draft
<1>1. r.generation \in Nat /\ r.generation + 1 \in Nat /\ r.generation + 2 \in Nat
  BY DEF Upload
<1>2. /\ "quarantined" \in UploadStatus /\ "validated" \in UploadStatus /\ "committed" \in UploadStatus
      /\ "deleting" \in UploadStatus /\ "deleted" \in UploadStatus
  BY DEF UploadStatus
<1>3. A!Quarantined(r) \in Upload
  BY <1>1, <1>2 DEF Upload, A!Quarantined
<1>4. /\ A!Quarantined(r).status = "quarantined"
      /\ A!Quarantined(r).generation > r.generation /\ A!Quarantined(r).draft = r.draft
  BY <1>1 DEF Upload, A!Quarantined
<1>5. A!Validated(r, b) \in Upload
  BY <1>1, <1>2 DEF Upload, A!Validated
<1>6. /\ A!Validated(r, b).status = "validated"
      /\ A!Validated(r, b).generation > r.generation /\ A!Validated(r, b).draft = r.draft
      /\ A!Validated(r, b).content = b /\ A!Validated(r, b).hash = b
  BY <1>1 DEF Upload, A!Validated
<1>7. A!Committed(r) \in Upload
  BY <1>1, <1>2 DEF Upload, A!Committed
<1>8. /\ A!Committed(r).status = "committed"
      /\ A!Committed(r).generation > r.generation /\ A!Committed(r).draft = r.draft
      /\ A!Committed(r).content = r.content /\ A!Committed(r).hash = r.hash
  BY <1>1 DEF Upload, A!Committed
<1>9. A!Deleting(r) \in Upload
  BY <1>1, <1>2 DEF Upload, A!Deleting
<1>10. /\ A!Deleting(r).status = "deleting"
      /\ A!Deleting(r).generation > r.generation /\ A!Deleting(r).draft = r.draft
  BY <1>1 DEF Upload, A!Deleting
<1>11. A!Deleted(r) \in Upload
  BY <1>1, <1>2 DEF Upload, A!Deleted
<1>12. /\ A!Deleted(r).status = "deleted"
      /\ A!Deleted(r).generation > r.generation /\ A!Deleted(r).draft = r.draft
  BY <1>1 DEF Upload, A!Deleted
<1> QED BY <1>3, <1>4, <1>5, <1>6, <1>7, <1>8, <1>9, <1>10, <1>11, <1>12

\* A new row keeps its draft alive and touches no other.
LEMMA CreateFiles ==
  ASSUME FilesInv, NEW draft \in Bytes, NEW ephemeral \in BOOLEAN, NEW ofAttempt \in BOOLEAN,
         A!Create(draft, ephemeral, ofAttempt)
  PROVE  FilesStep
<1> DEFINE until == IF ephemeral THEN now + EphemeralFor ELSE A!Forever
           expires == A!Earlier(until, now + Retention)
           row == [status |-> "uploading", generation |-> 0, draft |-> draft, content |-> None,
                   hash |-> None, lease |-> A!Earlier(now + WriterLease, expires),
                   expires |-> expires, keptUntil |-> until, ofAttempt |-> ofAttempt,
                   quarantined |-> 0]
<1>1. /\ FilesTyped
      /\ Len(staging) \in Nat
      /\ DOMAIN staging = 1..Len(staging)
  BY UploadRows DEF FilesInv
<1>2. now \in Nat /\ until \in Nat /\ expires \in Nat /\ row.lease \in Nat
  <2>1. {WriterLease, Retention, EphemeralFor, MaxClock} \subseteq Nat
    BY Quantities
  <2> QED BY <1>1, <2>1 DEF FilesTyped, A!Earlier, A!Forever
<1>3. row \in Upload /\ row.status = "uploading" /\ row.draft = draft
  <2> HIDE DEF until, expires
  <2> QED BY <1>2 DEF Upload, UploadStatus
<1>4. staging' = Append(staging, row) /\ refs \subseteq refs' /\ UNCHANGED <<artifacts, now>>
  BY DEF A!Create
<1> HIDE DEF row
<1>5. /\ objects' \in [Bytes -> [lifecycle : {"none", "live", "deleted"}, created : Nat]]
      /\ objects'[draft].lifecycle = "live"
      /\ \A b \in Bytes : objects[b].lifecycle = "live" => objects'[b].lifecycle = "live"
  BY <1>1 DEF A!Create, A!PutInline, FilesTyped
<1>6. /\ staging' \in Seq(Upload)
      /\ DOMAIN staging' = 1..(Len(staging) + 1)
      /\ staging'[Len(staging) + 1] = row
      /\ \A s \in DOMAIN staging : staging'[s] = staging[s]
  BY <1>1, <1>3, <1>4 DEF FilesTyped
<1>7. FilesTyped'
  BY <1>1, <1>4, <1>5, <1>6 DEF FilesTyped
<1>8. ASSUME NEW s \in DOMAIN staging' PROVE UploadServed(s)'
  <2>1. CASE s \in DOMAIN staging
    BY <1>1, <1>4, <1>5, <1>6, <2>1 DEF FilesInv, UploadServed, IsLive, A!ContentRef, A!Ref
  <2>2. CASE s = Len(staging) + 1
    BY <1>3, <1>5, <1>6, <2>2 DEF UploadServed, IsLive
  <2> QED BY <1>1, <1>6, <2>1, <2>2
<1>9. ASSUME NEW a \in artifacts' PROVE ArtifactServed(a)'
  BY <1>1, <1>4, <1>6 DEF FilesInv, ArtifactServed, A!ArtifactRef, A!Ref
<1>10. A!Advances
  BY <1>1, <1>6 DEF A!Advances
<1> QED BY <1>7, <1>8, <1>9, <1>10 DEF FilesStep, FilesInv

\* Refused bytes put the row into quarantine, and nothing else.
LEMMA RejectFiles ==
  ASSUME FilesInv, NEW s \in DOMAIN staging, NEW g, A!RejectUpload(s, g)
  PROVE  FilesStep
<1> DEFINE row == A!Quarantined(staging[s])
<1>1. FilesTyped /\ staging[s] \in Upload /\ now \in Nat
  BY UploadRows DEF FilesInv, FilesTyped
<1>2. /\ staging[s].status = "uploading"
      /\ staging' = [staging EXCEPT ![s] = row]
      /\ UNCHANGED <<objects, refs, artifacts, now>>
  BY DEF A!RejectUpload, A!Uploading
<1>3. IsLive(staging[s].draft) /\ staging[s].draft \in Bytes
  BY DEF FilesInv, UploadServed, IsLive
<1>4. /\ row \in Upload /\ row.status = "quarantined" /\ row.draft = staging[s].draft
      /\ row.generation > staging[s].generation
  BY <1>1, <1>3, RowsMove
<1> HIDE DEF row
<1>5. /\ staging' \in Seq(Upload)
      /\ DOMAIN staging' = DOMAIN staging
      /\ staging'[s] = row
      /\ \A t \in DOMAIN staging : t # s => staging'[t] = staging[t]
  BY <1>1, <1>2, <1>4 DEF FilesTyped
<1>6. FilesTyped'
  BY <1>1, <1>2, <1>5 DEF FilesTyped
<1>7. ASSUME NEW t \in DOMAIN staging' PROVE UploadServed(t)'
  BY <1>2, <1>3, <1>4, <1>5 DEF FilesInv, UploadServed, IsLive, A!ContentRef, A!Ref
<1>8. ASSUME NEW a \in artifacts' PROVE ArtifactServed(a)'
  BY <1>2, <1>5 DEF FilesInv, ArtifactServed, A!ArtifactRef, A!Ref
<1>9. A!Advances
  BY <1>2, <1>4, <1>5 DEF A!Advances, A!After
<1> QED BY <1>6, <1>7, <1>8, <1>9 DEF FilesStep, FilesInv

\* Accepted bytes are stored, named by the row and owned by it.
LEMMA CompleteFiles ==
  ASSUME FilesInv, NEW s \in DOMAIN staging, NEW g, NEW b \in Bytes, A!CompleteUpload(s, g, b)
  PROVE  FilesStep
<1> DEFINE row == A!Validated(staging[s], b)
<1>1. FilesTyped /\ staging[s] \in Upload /\ now \in Nat
  BY UploadRows DEF FilesInv, FilesTyped
<1>2. /\ staging[s].status = "uploading"
      /\ staging' = [staging EXCEPT ![s] = row]
      /\ refs' = refs \cup {A!ContentRef(s, b)}
      /\ UNCHANGED <<artifacts, now>>
  BY DEF A!CompleteUpload, A!Uploading
<1>3. IsLive(staging[s].draft) /\ staging[s].draft \in Bytes
  BY DEF FilesInv, UploadServed, IsLive
<1>4. /\ row \in Upload /\ row.status = "validated" /\ row.draft = staging[s].draft
      /\ row.content = b /\ row.hash = b
      /\ row.generation > staging[s].generation
  BY <1>1, RowsMove
<1> HIDE DEF row
<1>5. /\ objects' \in [Bytes -> [lifecycle : {"none", "live", "deleted"}, created : Nat]]
      /\ objects'[b].lifecycle = "live"
      /\ \A c \in Bytes : objects[c].lifecycle = "live" => objects'[c].lifecycle = "live"
  BY <1>1 DEF A!CompleteUpload, A!PutInline, FilesTyped
<1>6. /\ staging' \in Seq(Upload)
      /\ DOMAIN staging' = DOMAIN staging
      /\ staging'[s] = row
      /\ \A t \in DOMAIN staging : t # s => staging'[t] = staging[t]
  BY <1>1, <1>2, <1>4 DEF FilesTyped
<1>7. FilesTyped'
  BY <1>1, <1>2, <1>5, <1>6 DEF FilesTyped
<1>8. ASSUME NEW t \in DOMAIN staging' PROVE UploadServed(t)'
  BY <1>2, <1>3, <1>4, <1>5, <1>6 DEF FilesInv, UploadServed, IsLive, A!ContentRef, A!Ref
<1>9. ASSUME NEW a \in artifacts' PROVE ArtifactServed(a)'
  BY <1>2, <1>6 DEF FilesInv, ArtifactServed, A!ArtifactRef, A!Ref
<1>10. A!Advances
  BY <1>2, <1>4, <1>6 DEF A!Advances, A!After
<1> QED BY <1>7, <1>8, <1>9, <1>10 DEF FilesStep, FilesInv

\* A commit hands the object over: the artifact's reference comes before the
\* row's goes, and the row's goes for this row alone.
LEMMA CommitFiles ==
  ASSUME FilesInv, NEW s \in DOMAIN staging, NEW g, NEW k, A!Commit(s, g, k)
  PROVE  FilesStep
<1> DEFINE row == A!Committed(staging[s])
           b == staging[s].content
<1>1. FilesTyped /\ staging[s] \in Upload /\ now \in Nat
  BY UploadRows DEF FilesInv, FilesTyped
<1>2. /\ staging[s].status = "validated"
      /\ staging' = [staging EXCEPT ![s] = row]
      /\ artifacts' = artifacts \cup {[staging |-> s, content |-> b]}
      /\ refs' = (refs \cup {A!ArtifactRef(s, b)}) \ {A!ContentRef(s, b)}
      /\ UNCHANGED <<objects, now>>
  BY DEF A!Commit, A!Committable, A!Handover
<1>3. IsLive(staging[s].draft) /\ staging[s].draft \in Bytes
  BY DEF FilesInv, UploadServed, IsLive
<1>4. /\ row \in Upload /\ row.status = "committed" /\ row.draft = staging[s].draft
      /\ row.content = b /\ row.hash = staging[s].hash
      /\ row.generation > staging[s].generation
  BY <1>1, <1>3, RowsMove
<1> HIDE DEF row
<1>5. /\ staging' \in Seq(Upload)
      /\ DOMAIN staging' = DOMAIN staging
      /\ staging'[s] = row
      /\ \A t \in DOMAIN staging : t # s => staging'[t] = staging[t]
  BY <1>1, <1>2, <1>4 DEF FilesTyped
<1>6. FilesTyped'
  BY <1>1, <1>2, <1>5 DEF FilesTyped
<1>7. \A t, c : t # s /\ A!ContentRef(t, c) \in refs => A!ContentRef(t, c) \in refs'
  BY <1>2 DEF A!ContentRef, A!Ref
<1>8. \A t, c : A!ArtifactRef(t, c) \in refs => A!ArtifactRef(t, c) \in refs'
  BY <1>2 DEF A!ContentRef, A!ArtifactRef, A!Ref
<1>9. A!ArtifactRef(s, b) \in refs'
  BY <1>2 DEF A!ContentRef, A!ArtifactRef, A!Ref
<1>10. ASSUME NEW t \in DOMAIN staging' PROVE UploadServed(t)'
  <2>1. CASE t = s
    BY <1>2, <1>3, <1>4, <1>5, <2>1 DEF FilesInv, UploadServed, IsLive
  <2>2. CASE t # s
    BY <1>2, <1>5, <1>7, <2>2 DEF FilesInv, UploadServed, IsLive, A!ContentRef, A!Ref
  <2> QED BY <2>1, <2>2
<1>11. ASSUME NEW a \in artifacts' PROVE ArtifactServed(a)'
  <2>1. CASE a \in artifacts
    <3>1. ArtifactServed(a) /\ a.staging # s
      BY <1>2, <2>1 DEF FilesInv, ArtifactServed
    <3> QED BY <1>5, <1>8, <3>1 DEF ArtifactServed, A!ArtifactRef, A!Ref
  <2>2. CASE a = [staging |-> s, content |-> b]
    <3>1. a.staging = s /\ a.content = b
      BY <2>2
    <3> QED BY <1>4, <1>5, <1>9, <3>1 DEF ArtifactServed, A!ArtifactRef, A!Ref
  <2> QED BY <1>2, <2>1, <2>2
<1>12. A!Advances
  BY <1>2, <1>4, <1>5 DEF A!Advances, A!After
<1> QED BY <1>6, <1>10, <1>11, <1>12 DEF FilesStep, FilesInv

\* A pass puts overdue rows into quarantine and releases what quarantined rows
\* owned: references of rows that are no longer validated, and of no artifact.
LEMMA MaintainFiles ==
  ASSUME FilesInv, A!MaintainStaging
  PROVE  FilesStep
<1> DEFINE row(s) == IF A!Overdue(staging[s]) THEN A!Quarantined(staging[s])
                     ELSE IF A!Abandoned(staging[s]) THEN A!Deleting(staging[s])
                     ELSE staging[s]
           released == {s \in DOMAIN staging : A!Abandoned(staging[s])}
<1>1. /\ FilesTyped /\ now \in Nat /\ Len(staging) \in Nat
      /\ DOMAIN staging = 1..Len(staging)
      /\ \A s \in DOMAIN staging : staging[s] \in Upload
  BY UploadRows DEF FilesInv, FilesTyped
<1>2. /\ staging' = [s \in DOMAIN staging |-> row(s)]
      /\ refs' = refs \ {A!ContentRef(s, staging[s].content) : s \in released}
      /\ UNCHANGED <<objects, artifacts, now>>
  BY DEF A!MaintainStaging
<1>3. ASSUME NEW s \in DOMAIN staging
      PROVE  /\ row(s) \in Upload /\ row(s).draft = staging[s].draft
             /\ \/ row(s) = staging[s] /\ staging[s].status # "quarantined"
                \/ row(s) = staging[s] /\ s \notin released
                \/ /\ row(s).status = "quarantined" /\ row(s).generation > staging[s].generation
                   /\ staging[s].status \in {"uploading", "validated"}
                \/ /\ row(s).status = "deleting" /\ row(s).generation > staging[s].generation
                   /\ staging[s].status = "quarantined"
  <2>1. staging[s] \in Upload /\ staging[s].draft \in Bytes
    BY <1>1 DEF Upload
  <2>2. /\ A!Quarantined(staging[s]) \in Upload /\ A!Quarantined(staging[s]).status = "quarantined"
        /\ A!Quarantined(staging[s]).generation > staging[s].generation
        /\ A!Quarantined(staging[s]).draft = staging[s].draft
        /\ A!Deleting(staging[s]) \in Upload /\ A!Deleting(staging[s]).status = "deleting"
        /\ A!Deleting(staging[s]).generation > staging[s].generation
        /\ A!Deleting(staging[s]).draft = staging[s].draft
    BY <1>1, <2>1, RowsMove
  <2>3. A!Overdue(staging[s]) => staging[s].status \in {"uploading", "validated"}
    BY DEF A!Overdue
  <2>4. A!Abandoned(staging[s]) => staging[s].status = "quarantined"
    BY DEF A!Abandoned
  <2> QED BY <2>1, <2>2, <2>3, <2>4
<1>4. ASSUME NEW s \in released PROVE staging[s].status = "quarantined"
  BY DEF A!Abandoned
<1> HIDE DEF row, released
<1>5. /\ staging' \in Seq(Upload)
      /\ DOMAIN staging' = DOMAIN staging
      /\ \A s \in DOMAIN staging : staging'[s] = row(s)
  BY <1>1, <1>2, <1>3
<1>6. FilesTyped'
  BY <1>1, <1>2, <1>5 DEF FilesTyped
<1>7. \A t, c : A!ArtifactRef(t, c) \in refs => A!ArtifactRef(t, c) \in refs'
  BY <1>2 DEF A!ContentRef, A!ArtifactRef, A!Ref
<1>8. \A t, c : t \notin released /\ A!ContentRef(t, c) \in refs => A!ContentRef(t, c) \in refs'
  BY <1>2 DEF A!ContentRef, A!Ref
<1>9. ASSUME NEW s \in DOMAIN staging' PROVE UploadServed(s)'
  <2>1. CASE row(s) = staging[s]
    <3>1. staging'[s] = staging[s] /\ s \in DOMAIN staging
      BY <1>5, <2>1
    <3>2. staging[s].status = "validated" => s \notin released
      BY <1>4
    <3> QED BY <1>2, <1>8, <3>1, <3>2 DEF FilesInv, UploadServed, IsLive, A!ContentRef, A!Ref
  <2>2. CASE row(s).status \in {"quarantined", "deleting"}
    BY <1>2, <1>3, <1>5, <2>2 DEF FilesInv, UploadServed, IsLive
  <2> QED BY <1>3, <1>5, <2>1, <2>2
<1>10. ASSUME NEW a \in artifacts' PROVE ArtifactServed(a)'
  <2>1. ArtifactServed(a) /\ a.staging \in DOMAIN staging
    BY <1>2 DEF FilesInv, ArtifactServed
  <2>2. staging'[a.staging] = staging[a.staging]
    BY <1>3, <1>5, <2>1 DEF ArtifactServed
  <2> QED BY <1>5, <1>7, <2>1, <2>2 DEF ArtifactServed, A!ArtifactRef, A!Ref
<1>11. A!Advances
  BY <1>3, <1>5 DEF A!Advances, A!After
<1> QED BY <1>6, <1>9, <1>10, <1>11 DEF FilesStep, FilesInv

\* The second transaction of a pass ends rows nobody owns anything by.
LEMMA DeleteFiles ==
  ASSUME FilesInv, A!DeleteStaging
  PROVE  FilesStep
<1> DEFINE row(s) == IF staging[s].status = "deleting" THEN A!Deleted(staging[s]) ELSE staging[s]
<1>1. /\ FilesTyped /\ now \in Nat /\ Len(staging) \in Nat
      /\ DOMAIN staging = 1..Len(staging)
      /\ \A s \in DOMAIN staging : staging[s] \in Upload
  BY UploadRows DEF FilesInv, FilesTyped
<1>2. /\ staging' = [s \in DOMAIN staging |-> row(s)]
      /\ UNCHANGED <<objects, refs, artifacts, now>>
  BY DEF A!DeleteStaging
<1>3. ASSUME NEW s \in DOMAIN staging
      PROVE  /\ row(s) \in Upload /\ row(s).draft = staging[s].draft
             /\ \/ row(s) = staging[s]
                \/ /\ row(s).status = "deleted" /\ row(s).generation > staging[s].generation
                   /\ staging[s].status = "deleting"
  <2>1. staging[s] \in Upload /\ staging[s].draft \in Bytes
    BY <1>1 DEF Upload
  <2> QED BY <1>1, <2>1, RowsMove
<1> HIDE DEF row
<1>4. /\ staging' \in Seq(Upload)
      /\ DOMAIN staging' = DOMAIN staging
      /\ \A s \in DOMAIN staging : staging'[s] = row(s)
  BY <1>1, <1>2, <1>3
<1>5. FilesTyped'
  BY <1>1, <1>2, <1>4 DEF FilesTyped
<1>6. ASSUME NEW s \in DOMAIN staging' PROVE UploadServed(s)'
  BY <1>2, <1>3, <1>4 DEF FilesInv, UploadServed, IsLive, A!ContentRef, A!Ref
<1>7. ASSUME NEW a \in artifacts' PROVE ArtifactServed(a)'
  BY <1>2, <1>3, <1>4 DEF FilesInv, ArtifactServed, A!ArtifactRef, A!Ref
<1>8. A!Advances
  BY <1>3, <1>4 DEF A!Advances, A!After
<1> QED BY <1>5, <1>6, <1>7, <1>8 DEF FilesStep, FilesInv

\* The collector leaves every object alone that some row names.
LEMMA CollectFiles ==
  ASSUME FilesInv, A!MaintainObjects
  PROVE  FilesStep
<1>1. FilesTyped /\ UNCHANGED <<refs, staging, artifacts, now>>
  BY DEF FilesInv, A!MaintainObjects
<1>2. /\ objects' \in [Bytes -> [lifecycle : {"none", "live", "deleted"}, created : Nat]]
      /\ \A b \in Bytes : b \notin A!Orphans => objects'[b] = objects[b]
  BY <1>1 DEF FilesTyped, A!MaintainObjects
<1>3. FilesTyped'
  BY <1>1, <1>2 DEF FilesTyped
<1>4. ASSUME NEW s \in DOMAIN staging
      PROVE  staging[s].draft \notin A!Orphans /\ staging[s].content \notin A!Orphans
  BY DEF A!Orphans, A!ForeignKeyRoots
<1>5. ASSUME NEW s \in DOMAIN staging' PROVE UploadServed(s)'
  BY <1>1, <1>2, <1>4 DEF FilesInv, UploadServed, IsLive, A!ContentRef, A!Ref
<1>6. ASSUME NEW a \in artifacts' PROVE ArtifactServed(a)'
  BY <1>1 DEF FilesInv, ArtifactServed, A!ArtifactRef, A!Ref
<1>7. A!Advances
  BY <1>1 DEF A!Advances
<1> QED BY <1>3, <1>5, <1>6, <1>7 DEF FilesStep, FilesInv

\* Every step of uploads, commits and collectors keeps the invariant.
LEMMA FilesAdvance ==
  ASSUME FilesInv, A!Next
  PROVE  FilesStep
<1>1. CASE A!AttemptEnds \/ A!Tick
  <2>1. UNCHANGED <<objects, refs, staging, artifacts>>
    BY <1>1 DEF A!AttemptEnds, A!Tick
  <2>2. now' \in Nat
    BY <1>1 DEF FilesInv, FilesTyped, A!AttemptEnds, A!Tick
  <2>3. FilesInv'
    BY <2>1, <2>2 DEF FilesInv, FilesTyped, UploadServed, ArtifactServed, IsLive,
                      A!ContentRef, A!ArtifactRef, A!Ref
  <2> QED BY <2>1, <2>3 DEF FilesStep, A!Advances
<1>2. CASE \E draft \in Bytes, ephemeral, ofAttempt \in BOOLEAN : A!Create(draft, ephemeral, ofAttempt)
  BY <1>2, CreateFiles
<1>3. ASSUME NEW s \in DOMAIN staging, NEW g, NEW b \in Bytes \cup {Unrecognised}, A!Complete(s, g, b)
      PROVE  FilesStep
  <2>1. CASE b = Unrecognised
    BY <1>3, <2>1, RejectFiles DEF A!Complete
  <2>2. CASE b # Unrecognised
    BY <1>3, <2>2, CompleteFiles DEF A!Complete
  <2> QED BY <2>1, <2>2
<1>4. ASSUME NEW s \in DOMAIN staging, NEW g, NEW k, A!Commit(s, g, k) PROVE FilesStep
  BY <1>4, CommitFiles
<1> QED BY <1>1, <1>2, <1>3, <1>4, MaintainFiles, DeleteFiles, CollectFiles DEF A!Next

\* Nothing is stored in the beginning.
LEMMA FilesBegin ==
  ASSUME A!Init
  PROVE  FilesInv
BY DEF A!Init, FilesInv, FilesTyped, Upload
-----------------------------------------------------------------------------
(* Plugins.  A candidate says which version its permissions were compared   *)
(* with, and what it asks for beyond it stays what it is as long as that    *)
(* version is known.  A copy that is dropped is one no row stands for.      *)
Asked == UNION {Permissions[c] : c \in Commits}
CandidateRow ==
  [status : {"staged", "activated"}, source : Sources, commit : Commits, base : Nat,
   added : SUBSET Asked]
Installation ==
  [active : P!Ids, policy : P!Policies, source : Sources, enabled : BOOLEAN]
Task ==
  {P!Idle}
  \cup [at : {"checking"}, source : Sources, expected : Nat]
  \cup [at : {"fetched"}, source : Sources, expected : Nat, id : P!Ids, commit : Commits]
  \cup [at : {"staged", "missing"}, source : Sources, expected : Nat, id : P!Ids,
        commit : Commits, base : Nat, added : SUBSET Asked]
  \cup [at : {"registered"}, id : P!Ids, expected : Nat]
  \cup [at : {"chosen", "placed"}, id : P!Ids, expected : Nat, policy : P!Policies]
PluginsTyped ==
  /\ issued \in Nat
  /\ candidates \in [P!Ids -> {P!NoCandidate} \cup CandidateRow]
  /\ versions \subseteq P!Ids
  /\ plugin \in [active : {0}] \cup Installation
  /\ tasks \in [P!Callers -> Task]

Registered(i) == i \in P!Ids /\ candidates[i].status # "none"
Compared(commit, base, added) ==
  /\ base \in versions \cup {0}
  /\ added = Permissions[commit] \ P!Grants(base)
RowHolds(i) ==
  Registered(i) =>
    /\ i <= issued /\ i \in workspaces \cup placed \cup torn
    /\ Compared(candidates[i].commit, candidates[i].base, candidates[i].added)
Own == {"fetched", "staged", "missing"}
TaskHolds(c, t) ==
  /\ t.at \in Own => t.id <= issued /\ t.id \in workspaces /\ ~Registered(t.id)
  /\ t.at \in {"staged", "missing"} => Compared(t.commit, t.base, t.added)
  /\ t.at = "registered" => Registered(t.id)
  /\ t.at \in {"chosen", "placed"} =>
       Registered(t.id) /\ (c = "updater" => candidates[t.id].added = {})
  /\ t.at = "placed" => t.id \in placed
PluginsInv ==
  /\ PluginsTyped
  /\ plugin.active \in versions \cup {0}
  /\ \A i \in P!Ids : RowHolds(i)
  /\ \A v \in versions : Registered(v) /\ v \in placed
  /\ \A c \in P!Callers : TaskHolds(c, tasks[c])
  /\ \A c, d \in P!Callers :
       c # d /\ tasks[c].at \in Own /\ tasks[d].at \in Own => tasks[c].id # tasks[d].id

PluginsStep == PluginsInv' /\ P!UpdateAsksNothing

\* The invariant is what the property asks for, and more.
LEMMA PluginsServed ==
  ASSUME PluginsInv
  PROVE  P!PackagesAreWhole
BY DEF PluginsInv, PluginsTyped, RowHolds, Registered, P!PackagesAreWhole, P!Installed

\* A task is known by where it stands.
LEMMA TaskKinds ==
  ASSUME NEW t \in Task
  PROVE  /\ t.at = "checking" => t \in [at : {"checking"}, source : Sources, expected : Nat]
         /\ t.at = "fetched" =>
              t \in [at : {"fetched"}, source : Sources, expected : Nat, id : P!Ids, commit : Commits]
         /\ t.at \in {"staged", "missing"} =>
              t \in [at : {"staged", "missing"}, source : Sources, expected : Nat, id : P!Ids,
                     commit : Commits, base : Nat, added : SUBSET Asked]
         /\ t.at = "registered" => t \in [at : {"registered"}, id : P!Ids, expected : Nat]
         /\ t.at \in {"chosen", "placed"} =>
              t \in [at : {"chosen", "placed"}, id : P!Ids, expected : Nat, policy : P!Policies]
BY DEF Task, P!Idle

\* A caller that has no copy of its own afterwards, and drops at most the copy
\* it had, disturbs nobody.
LEMMA TaskEnds ==
  ASSUME PluginsInv, NEW c \in P!Callers, NEW t \in Task,
         tasks' = [tasks EXCEPT ![c] = t], t.at \notin Own, TaskHolds(c, t),
         UNCHANGED <<candidates, versions, plugin, issued, placed, torn>>,
         \/ workspaces' = workspaces
         \/ tasks[c].at \in Own /\ workspaces' = workspaces \ {tasks[c].id}
  PROVE  PluginsStep
<1>1. PluginsTyped /\ PluginsTyped'
  BY DEF PluginsInv, PluginsTyped
<1>2. /\ tasks'[c] = t
      /\ \A d \in P!Callers : d # c => tasks'[d] = tasks[d]
  BY <1>1 DEF PluginsTyped
<1>3. /\ \A i : Registered(i)' <=> Registered(i)
      /\ \A p, b, a : Compared(p, b, a)' <=> Compared(p, b, a)
  BY DEF Registered, Compared, P!Grants
<1>4. \A i \in P!Ids : Registered(i) /\ i \in workspaces => i \in workspaces'
  BY DEF PluginsInv, TaskHolds
<1>5. ASSUME NEW i \in P!Ids PROVE RowHolds(i)'
  BY <1>3, <1>4 DEF PluginsInv, RowHolds
<1>6. ASSUME NEW d \in P!Callers PROVE TaskHolds(d, tasks[d])'
  <2>1. CASE d = c
    BY <1>2, <1>3, <2>1 DEF TaskHolds, Own
  <2>2. CASE d # c
    <3>1. TaskHolds(d, tasks[d]) /\ tasks'[d] = tasks[d]
      BY <1>2, <2>2 DEF PluginsInv
    <3>2. tasks[d].at \in Own => tasks[d].id \in workspaces'
      BY <2>2, <3>1 DEF PluginsInv, TaskHolds
    <3> QED BY <1>3, <3>1, <3>2 DEF TaskHolds
  <2> QED BY <2>1, <2>2
<1>7. \A d, e \in P!Callers :
        d # e /\ tasks'[d].at \in Own /\ tasks'[e].at \in Own => tasks'[d].id # tasks'[e].id
  BY <1>2 DEF PluginsInv
<1>8. \A v \in versions' : Registered(v)' /\ v \in placed'
  BY <1>3 DEF PluginsInv
<1>9. (plugin.active \in versions \cup {0})'
  BY DEF PluginsInv
<1>10. PluginsInv'
  BY <1>1, <1>5, <1>6, <1>7, <1>8, <1>9 DEF PluginsInv
<1> QED BY <1>10 DEF PluginsStep, P!UpdateAsksNothing

\* A fetched copy has a number nobody has used.
LEMMA FetchPlugins ==
  ASSUME PluginsInv, NEW c \in P!Callers, NEW commit \in Commits, P!Fetch(c, commit)
  PROVE  PluginsStep
<1> DEFINE t == [at |-> "fetched", source |-> tasks[c].source, expected |-> tasks[c].expected,
                 id |-> issued + 1, commit |-> commit]
<1>1. PluginsTyped /\ tasks[c] \in Task
  BY DEF PluginsInv, PluginsTyped
<1>2. /\ tasks[c].at = "checking"
      /\ issued + 1 \in P!Ids
      /\ issued' = issued + 1
      /\ workspaces' = workspaces \cup {issued + 1}
      /\ tasks' = [tasks EXCEPT ![c] = t]
      /\ UNCHANGED <<candidates, versions, plugin, placed, torn>>
  BY <1>1, Quantities DEF P!Fetch, P!Becomes, P!Ids, PluginsTyped
<1>3. tasks[c].source \in Sources /\ tasks[c].expected \in Nat
  BY <1>1, <1>2, TaskKinds
<1>4. t \in Task /\ t.at = "fetched" /\ t.id = issued + 1
  BY <1>2, <1>3 DEF Task
<1> HIDE DEF t
<1>5. PluginsTyped'
  BY <1>1, <1>2, <1>4 DEF PluginsTyped
<1>6. /\ tasks'[c] = t
      /\ \A d \in P!Callers : d # c => tasks'[d] = tasks[d]
  BY <1>1, <1>2 DEF PluginsTyped
<1>7. /\ \A i : Registered(i)' <=> Registered(i)
      /\ \A p, b, a : Compared(p, b, a)' <=> Compared(p, b, a)
  BY <1>2 DEF Registered, Compared, P!Grants
<1>8. ~Registered(issued + 1)
  BY <1>1, <1>2 DEF PluginsInv, RowHolds, PluginsTyped
<1>9. ASSUME NEW i \in P!Ids PROVE RowHolds(i)'
  BY <1>1, <1>2, <1>7 DEF PluginsInv, RowHolds, PluginsTyped, P!Ids
<1>10. ASSUME NEW d \in P!Callers, d # c, tasks[d].at \in Own
       PROVE  tasks[d].id # issued + 1 /\ tasks[d].id <= issued + 1
  <2>1. tasks[d] \in Task /\ tasks[d].id <= issued
    BY <1>1, <1>10 DEF PluginsInv, PluginsTyped, TaskHolds
  <2>2. tasks[d].id \in P!Ids
    BY <1>10, <2>1, TaskKinds DEF Own
  <2> QED BY <1>1, <2>1, <2>2 DEF PluginsTyped, P!Ids
<1>11. ASSUME NEW d \in P!Callers PROVE TaskHolds(d, tasks[d])'
  <2>1. CASE d = c
    BY <1>1, <1>2, <1>4, <1>6, <1>7, <1>8, <2>1 DEF TaskHolds, PluginsTyped
  <2>2. CASE d # c
    BY <1>2, <1>6, <1>7, <1>10, <2>2 DEF PluginsInv, TaskHolds
  <2> QED BY <2>1, <2>2
<1>12. \A d, e \in P!Callers :
         d # e /\ tasks'[d].at \in Own /\ tasks'[e].at \in Own => tasks'[d].id # tasks'[e].id
  BY <1>4, <1>6, <1>10 DEF PluginsInv
<1>13. \A v \in versions' : Registered(v)' /\ v \in placed'
  BY <1>2, <1>7 DEF PluginsInv
<1>14. (plugin.active \in versions \cup {0})'
  BY <1>2 DEF PluginsInv
<1>15. PluginsInv'
  BY <1>5, <1>9, <1>11, <1>12, <1>13, <1>14 DEF PluginsInv
<1> QED BY <1>2, <1>15 DEF PluginsStep, P!UpdateAsksNothing

\* A copy that is kept keeps its number, whatever else is learnt of it.
LEMMA TaskGoesOn ==
  ASSUME PluginsInv, NEW c \in P!Callers, NEW t \in Task,
         tasks' = [tasks EXCEPT ![c] = t], tasks[c].at \in Own, t.at \in Own,
         t.id = tasks[c].id, TaskHolds(c, t),
         UNCHANGED <<candidates, versions, plugin, issued, workspaces, placed, torn>>
  PROVE  PluginsStep
<1>1. PluginsTyped /\ PluginsTyped'
  BY DEF PluginsInv, PluginsTyped
<1>2. /\ tasks'[c] = t
      /\ \A d \in P!Callers : d # c => tasks'[d] = tasks[d]
  BY <1>1 DEF PluginsTyped
<1>3. /\ \A i : Registered(i)' <=> Registered(i)
      /\ \A p, b, a : Compared(p, b, a)' <=> Compared(p, b, a)
  BY DEF Registered, Compared, P!Grants
<1>4. ASSUME NEW i \in P!Ids PROVE RowHolds(i)'
  BY <1>3 DEF PluginsInv, RowHolds
<1>5. ASSUME NEW d \in P!Callers PROVE TaskHolds(d, tasks[d])'
  BY <1>2, <1>3 DEF PluginsInv, TaskHolds
<1>6. \A d, e \in P!Callers :
        d # e /\ tasks'[d].at \in Own /\ tasks'[e].at \in Own => tasks'[d].id # tasks'[e].id
  BY <1>2 DEF PluginsInv
<1>7. \A v \in versions' : Registered(v)' /\ v \in placed'
  BY <1>3 DEF PluginsInv
<1>8. (plugin.active \in versions \cup {0})'
  BY DEF PluginsInv
<1>9. PluginsInv'
  BY <1>1, <1>4, <1>5, <1>6, <1>7, <1>8 DEF PluginsInv
<1> QED BY <1>9 DEF PluginsStep, P!UpdateAsksNothing

\* What was fetched is compared with the version that is active now.
LEMMA ReadPlugins ==
  ASSUME PluginsInv, NEW c \in P!Callers, P!ReadInstallation(c)
  PROVE  PluginsStep
<1> DEFINE t == tasks[c]
           u == [at |-> "staged", source |-> t.source, expected |-> t.expected, id |-> t.id,
                 commit |-> t.commit, base |-> plugin.active,
                 added |-> P!AddedPermissions(t.commit)]
<1>1. PluginsTyped /\ t \in Task /\ TaskHolds(c, t)
  BY DEF PluginsInv, PluginsTyped
<1>2. t.at = "fetched" /\ UNCHANGED <<candidates, versions, plugin, issued, placed, torn>>
  BY DEF P!ReadInstallation
<1>3. t \in [at : {"fetched"}, source : Sources, expected : Nat, id : P!Ids, commit : Commits]
  BY <1>1, <1>2, TaskKinds
<1>4. CASE t.commit \in P!KnownCommits
  <2>1. workspaces' = workspaces \ {t.id} /\ tasks' = [tasks EXCEPT ![c] = P!Idle]
    BY <1>4 DEF P!ReadInstallation, P!Becomes
  <2>2. P!Idle \in Task /\ P!Idle.at \notin Own /\ TaskHolds(c, P!Idle) /\ t.at \in Own
    BY <1>2 DEF Task, P!Idle, Own, TaskHolds
  <2> QED BY <1>2, <2>1, <2>2, TaskEnds
<1>5. CASE t.commit \notin P!KnownCommits
  <2>1. UNCHANGED workspaces /\ tasks' = [tasks EXCEPT ![c] = u]
    BY <1>5 DEF P!ReadInstallation, P!Becomes
  <2>a. plugin.active \in versions \cup {0}
    BY DEF PluginsInv
  <2>b. plugin.active \in Nat
    <3>1. versions \subseteq P!Ids
      BY <1>1 DEF PluginsTyped
    <3>2. MaxFetches \in Nat
      BY Quantities
    <3>3. 0 \in Nat /\ \A v \in P!Ids : v \in Nat
      BY <3>2 DEF P!Ids
    <3> QED BY <2>a, <3>1, <3>3, Zenon
  <2>2. Compared(t.commit, plugin.active, P!AddedPermissions(t.commit))
    BY <2>a DEF Compared, P!AddedPermissions
  <2>3. P!AddedPermissions(t.commit) \in SUBSET Asked
    BY <1>3 DEF P!AddedPermissions, Asked
  <2>4. u \in Task /\ u.at = "staged" /\ u.id = t.id
    BY <1>3, <2>b, <2>3 DEF Task
  <2>5. u.commit = t.commit /\ u.base = plugin.active /\ u.added = P!AddedPermissions(t.commit)
    OBVIOUS
  <2> HIDE DEF u
  <2>6. TaskHolds(c, u) /\ t.at \in Own /\ u.at \in Own
    BY <1>1, <1>2, <2>2, <2>4, <2>5 DEF TaskHolds, Own
  <2> QED BY <1>2, <2>1, <2>4, <2>6, TaskGoesOn
<1> QED BY <1>4, <1>5

\* Who has found or made a candidate is done, or chooses it; an updater
\* chooses none that asks for more than the version it was compared with has.
LEMMA AnswersHold ==
  ASSUME PluginsInv, NEW c \in P!Callers, NEW i \in P!Ids, NEW row \in CandidateRow,
         tasks[c].expected \in Nat
  PROVE  LET t == P!Answered(c, i, row) IN
         /\ t \in Task /\ t.at \notin Own /\ t.at # "placed"
         /\ t.at = "chosen" => t.id = i /\ (c = "updater" => row.added = {})
         /\ t.at \notin {"staged", "missing", "registered"}
<1>1. CASE c = "user" \/ row.added # {}
  <2>1. P!Answered(c, i, row) = P!Idle
    BY <1>1 DEF P!Answered
  <2> QED BY <2>1 DEF Task, P!Idle, Own
<1>2. CASE ~(c = "user" \/ row.added # {})
  <2>1. P!Answered(c, i, row) = [at |-> "chosen", id |-> i, expected |-> tasks[c].expected,
                                 policy |-> "automatic"]
    BY <1>2 DEF P!Answered
  <2> QED BY <1>2, <2>1 DEF Task, Own, P!Policies
<1> QED BY <1>1, <1>2

\* An equal candidate is found, and the copy fetched for nothing dropped.
LEMMA LookUpPlugins ==
  ASSUME PluginsInv, NEW c \in P!Callers, P!LookUpCandidate(c)
  PROVE  PluginsStep
<1> DEFINE t == tasks[c]
           same == P!StagedAt(t.commit)
           u == [t EXCEPT !.at = "missing"]
<1>1. PluginsTyped /\ t \in Task /\ TaskHolds(c, t)
  BY DEF PluginsInv, PluginsTyped
<1>2. t.at = "staged" /\ UNCHANGED <<candidates, versions, plugin, issued, placed, torn>>
  BY DEF P!LookUpCandidate
<1>3. t \in [at : {"staged", "missing"}, source : Sources, expected : Nat, id : P!Ids,
             commit : Commits, base : Nat, added : SUBSET Asked]
  BY <1>1, <1>2, TaskKinds
<1>4. CASE same = {}
  <2>1. UNCHANGED workspaces /\ tasks' = [tasks EXCEPT ![c] = u]
    BY <1>4 DEF P!LookUpCandidate, P!Becomes
  <2>2. /\ u \in [at : {"staged", "missing"}, source : Sources, expected : Nat, id : P!Ids,
                  commit : Commits, base : Nat, added : SUBSET Asked]
        /\ u.at = "missing" /\ u.id = t.id
        /\ u.commit = t.commit /\ u.base = t.base /\ u.added = t.added
    BY <1>3
  <2> HIDE DEF u
  <2>3. u \in Task
    BY <2>2 DEF Task
  <2>4. TaskHolds(c, u) /\ t.at \in Own /\ u.at \in Own
    BY <1>1, <1>2, <2>2 DEF TaskHolds, Own
  <2> QED BY <1>2, <2>1, <2>2, <2>3, <2>4, TaskGoesOn
<1>5. CASE same # {}
  <2>2. PICK i \in P!Newest(same) :
          /\ workspaces' = workspaces \ {P!Discarded(t.id, i)}
          /\ tasks' = [tasks EXCEPT ![c] = P!Answered(c, i, candidates[i])]
    BY <1>5 DEF P!LookUpCandidate, P!Becomes
  <2> DEFINE a == P!Answered(c, i, candidates[i])
  <2>1. workspaces' = workspaces \ {t.id} /\ tasks' = [tasks EXCEPT ![c] = a]
    BY <2>2 DEF P!Discarded
  <2>3. i \in P!Ids /\ Registered(i) /\ candidates[i] \in CandidateRow
    BY <1>1, <2>2 DEF P!StagedAt, P!Newest, Registered, PluginsTyped, P!NoCandidate
  <2>4. /\ a \in Task /\ a.at \notin Own /\ a.at # "placed"
        /\ a.at = "chosen" => a.id = i /\ (c = "updater" => candidates[i].added = {})
        /\ a.at \notin {"staged", "missing", "registered"}
    BY <1>3, <2>3, AnswersHold
  <2> HIDE DEF a
  <2>5. TaskHolds(c, a) /\ t.at \in Own
    BY <1>2, <2>3, <2>4 DEF TaskHolds, Own
  <2> QED BY <1>2, <2>1, <2>4, <2>5, TaskEnds
<1> QED BY <1>4, <1>5
\* A copy that nobody has staged yet becomes a candidate with its files.
LEMMA RegisterPlugins ==
  ASSUME PluginsInv, NEW c \in P!Callers, P!RegisterCandidate(c)
  PROVE  PluginsStep
<1> DEFINE t == tasks[c]
           row == [status |-> "staged", source |-> t.source, commit |-> t.commit,
                   base |-> t.base, added |-> t.added]
           a == [at |-> "registered", id |-> t.id, expected |-> t.expected]
<1>1. PluginsTyped /\ t \in Task /\ TaskHolds(c, t)
  BY DEF PluginsInv, PluginsTyped
<1>2. /\ t.at = "missing"
      /\ candidates' = [candidates EXCEPT ![t.id] = row]
      /\ tasks' = [tasks EXCEPT ![c] = a]
      /\ UNCHANGED <<versions, plugin, issued, workspaces, placed, torn>>
  BY DEF P!RegisterCandidate, P!Becomes
<1>3. t \in [at : {"staged", "missing"}, source : Sources, expected : Nat, id : P!Ids,
             commit : Commits, base : Nat, added : SUBSET Asked]
  BY <1>1, <1>2, TaskKinds
<1>4. /\ row \in CandidateRow /\ row.status # "none" /\ row.commit = t.commit
      /\ row.base = t.base /\ row.added = t.added
  BY <1>3 DEF CandidateRow
<1> HIDE DEF row
<1>5. a \in Task /\ a.at = "registered" /\ a.id = t.id
  BY <1>3 DEF Task
<1> HIDE DEF a
<1>6. /\ candidates' \in [P!Ids -> {P!NoCandidate} \cup CandidateRow]
      /\ candidates'[t.id] = row
      /\ \A i \in P!Ids : i # t.id => candidates'[i] = candidates[i]
  BY <1>1, <1>2, <1>3, <1>4 DEF PluginsTyped
<1>7. PluginsTyped'
  BY <1>1, <1>2, <1>5, <1>6 DEF PluginsTyped
<1>8. /\ tasks'[c] = a
      /\ \A d \in P!Callers : d # c => tasks'[d] = tasks[d]
  BY <1>1, <1>2 DEF PluginsTyped
<1>9. /\ ~Registered(t.id) /\ t.id <= issued /\ t.id \in workspaces
      /\ Compared(t.commit, t.base, t.added)
  BY <1>1, <1>2 DEF TaskHolds, Own
<1>10. /\ \A i : Registered(i)' <=> Registered(i) \/ i = t.id
       /\ t.id \notin versions /\ 0 \notin P!Ids
  BY <1>3, <1>4, <1>6, <1>9 DEF PluginsInv, Registered, P!Ids
<1>11. \A v \in versions \cup {0} : P!Grants(v)' = P!Grants(v)
  BY <1>1, <1>2, <1>6, <1>10 DEF PluginsTyped, P!Grants
<1>12. \A p, b, x : Compared(p, b, x) => Compared(p, b, x)'
  BY <1>2, <1>11 DEF Compared
<1>13. ASSUME NEW i \in P!Ids PROVE RowHolds(i)'
  <2>1. CASE i = t.id
    BY <1>2, <1>4, <1>6, <1>9, <1>12, <2>1 DEF RowHolds
  <2>2. CASE i # t.id
    BY <1>2, <1>6, <1>10, <1>12, <2>2 DEF PluginsInv, RowHolds
  <2> QED BY <2>1, <2>2
<1>14. ASSUME NEW d \in P!Callers PROVE TaskHolds(d, tasks[d])'
  <2>1. CASE d = c
    BY <1>5, <1>8, <1>10, <2>1 DEF TaskHolds, Own
  <2>2. CASE d # c
    <3>1. TaskHolds(d, tasks[d]) /\ tasks'[d] = tasks[d] /\ tasks[d] \in Task
      BY <1>1, <1>8, <2>2 DEF PluginsInv, PluginsTyped
    <3>2. tasks[d].at \in Own => tasks[d].id # t.id
      BY <1>2, <2>2 DEF PluginsInv, Own
    <3>3. Registered(tasks[d].id) => candidates'[tasks[d].id] = candidates[tasks[d].id]
      BY <1>6, <1>9 DEF Registered
    <3> QED BY <1>2, <1>10, <1>12, <3>1, <3>2, <3>3 DEF TaskHolds
  <2> QED BY <2>1, <2>2
<1>15. \A d, e \in P!Callers :
         d # e /\ tasks'[d].at \in Own /\ tasks'[e].at \in Own => tasks'[d].id # tasks'[e].id
  BY <1>5, <1>8 DEF PluginsInv, Own
<1>16. \A v \in versions' : Registered(v)' /\ v \in placed'
  BY <1>2, <1>10 DEF PluginsInv
<1>17. (plugin.active \in versions \cup {0})'
  BY <1>2 DEF PluginsInv
<1>18. PluginsInv'
  BY <1>7, <1>13, <1>14, <1>15, <1>16, <1>17 DEF PluginsInv
<1> QED BY <1>2, <1>18 DEF PluginsStep, P!UpdateAsksNothing

\* Who has read back the row it inserted goes on with it.
LEMMA ReloadPlugins ==
  ASSUME PluginsInv, NEW c \in P!Callers, P!ReloadCandidate(c)
  PROVE  PluginsStep
<1> DEFINE t == tasks[c]
           a == P!Answered(c, t.id, candidates[t.id])
<1>1. PluginsTyped /\ t \in Task /\ TaskHolds(c, t)
  BY DEF PluginsInv, PluginsTyped
<1>2. /\ t.at = "registered" /\ tasks' = [tasks EXCEPT ![c] = a]
      /\ UNCHANGED <<candidates, versions, plugin, issued, workspaces, placed, torn>>
  BY DEF P!ReloadCandidate, P!Becomes
<1>3. t.id \in P!Ids /\ t.expected \in Nat /\ Registered(t.id)
  BY <1>1, <1>2, TaskKinds DEF TaskHolds
<1>4. candidates[t.id] \in CandidateRow
  BY <1>1, <1>3 DEF PluginsTyped, Registered, P!NoCandidate
<1>5. /\ a \in Task /\ a.at \notin Own /\ a.at # "placed"
      /\ a.at = "chosen" => a.id = t.id /\ (c = "updater" => candidates[t.id].added = {})
      /\ a.at \notin {"staged", "missing", "registered"}
  BY <1>3, <1>4, AnswersHold
<1> HIDE DEF a
<1>6. TaskHolds(c, a)
  BY <1>3, <1>5 DEF TaskHolds, Own
<1> QED BY <1>2, <1>5, <1>6, TaskEnds

\* What an error before the row was inserted drops stands for no row.
LEMMA StagingPlugins ==
  ASSUME PluginsInv, NEW c \in P!Callers, P!StagingFails(c)
  PROVE  PluginsStep
<1>1. /\ tasks[c].at \in Own /\ workspaces' = workspaces \ {tasks[c].id}
      /\ tasks' = [tasks EXCEPT ![c] = P!Idle]
      /\ UNCHANGED <<candidates, versions, plugin, issued, placed, torn>>
  BY DEF P!StagingFails, P!Drop, P!Becomes, Own
<1>2. P!Idle \in Task /\ P!Idle.at \notin Own /\ TaskHolds(c, P!Idle)
  BY DEF Task, P!Idle, TaskHolds, Own
<1> QED BY <1>1, <1>2, TaskEnds

\* What an error after it drops is remembered, and no other caller's copy.
LEMMA TearPlugins ==
  ASSUME PluginsInv, NEW c \in P!Callers, P!ReloadFails(c)
  PROVE  PluginsStep
<1> DEFINE t == tasks[c]
<1>1. PluginsTyped /\ TaskHolds(c, t)
  BY DEF PluginsInv
<1>2. /\ t.at = "registered" /\ Registered(t.id)
      /\ workspaces' = workspaces \ {t.id} /\ torn' = torn \cup {t.id}
      /\ tasks' = [tasks EXCEPT ![c] = P!Idle]
      /\ UNCHANGED <<candidates, versions, plugin, issued, placed>>
  BY <1>1 DEF P!ReloadFails, P!Drop, P!Becomes, TaskHolds
<1>3. P!Idle \in Task /\ P!Idle.at = "idle"
  BY DEF Task, P!Idle
<1>4. PluginsTyped'
  BY <1>1, <1>2, <1>3 DEF PluginsTyped
<1>5. /\ tasks'[c] = P!Idle
      /\ \A d \in P!Callers : d # c => tasks'[d] = tasks[d]
  BY <1>1, <1>2 DEF PluginsTyped
<1>6. /\ \A i : Registered(i)' <=> Registered(i)
      /\ \A p, b, a : Compared(p, b, a)' <=> Compared(p, b, a)
  BY <1>2 DEF Registered, Compared, P!Grants
<1>7. ASSUME NEW i \in P!Ids PROVE RowHolds(i)'
  BY <1>2, <1>6 DEF PluginsInv, RowHolds
<1>8. ASSUME NEW d \in P!Callers PROVE TaskHolds(d, tasks[d])'
  <2>1. CASE d = c
    BY <1>3, <1>5, <2>1 DEF TaskHolds, Own
  <2>2. CASE d # c
    <3>1. TaskHolds(d, tasks[d]) /\ tasks'[d] = tasks[d]
      BY <1>5, <2>2 DEF PluginsInv
    <3>2. tasks[d].at \in Own => tasks[d].id # t.id
      BY <1>2, <3>1 DEF TaskHolds
    <3> QED BY <1>2, <1>6, <3>1, <3>2 DEF TaskHolds
  <2> QED BY <2>1, <2>2
<1>9. \A d, e \in P!Callers :
        d # e /\ tasks'[d].at \in Own /\ tasks'[e].at \in Own => tasks'[d].id # tasks'[e].id
  BY <1>3, <1>5 DEF PluginsInv, Own
<1>10. \A v \in versions' : Registered(v)' /\ v \in placed'
  BY <1>2, <1>6 DEF PluginsInv
<1>11. (plugin.active \in versions \cup {0})'
  BY <1>2 DEF PluginsInv
<1>12. PluginsInv'
  BY <1>4, <1>7, <1>8, <1>9, <1>10, <1>11 DEF PluginsInv
<1> QED BY <1>2, <1>12 DEF PluginsStep, P!UpdateAsksNothing

\* The files are moved before the registry is asked, and stay where they are
\* found.
LEMMA PlacePlugins ==
  ASSUME PluginsInv, NEW c \in P!Callers, P!ActivateFiles(c)
  PROVE  PluginsStep
<1> DEFINE t == tasks[c]
           u == [t EXCEPT !.at = "placed"]
<1>1. PluginsTyped /\ t \in Task /\ TaskHolds(c, t)
  BY DEF PluginsInv, PluginsTyped
<1>2. t.at = "chosen" /\ UNCHANGED <<candidates, versions, plugin, issued, torn>>
  BY DEF P!ActivateFiles
<1>3. t \in [at : {"chosen", "placed"}, id : P!Ids, expected : Nat, policy : P!Policies]
  BY <1>1, <1>2, TaskKinds
<1>4. Registered(t.id)
  BY <1>1, <1>2 DEF TaskHolds
<1>a. CASE t.id \notin workspaces \cup placed
  <2>1. /\ tasks' = [tasks EXCEPT ![c] = P!Idle] /\ UNCHANGED <<workspaces, placed>>
    BY <1>a DEF P!ActivateFiles, P!Becomes
  <2>2. P!Idle \in Task /\ P!Idle.at \notin Own /\ TaskHolds(c, P!Idle)
    BY DEF Task, P!Idle, TaskHolds, Own
  <2> QED BY <1>2, <2>1, <2>2, TaskEnds
<1>b. SUFFICES ASSUME t.id \in workspaces \cup placed PROVE PluginsStep
  BY <1>a
<1>5. /\ placed' = placed \cup {t.id} /\ workspaces' = workspaces \ {t.id}
      /\ tasks' = [tasks EXCEPT ![c] = u]
  BY <1>b DEF P!ActivateFiles, P!Becomes
<1>6. /\ u \in Task /\ u.at = "placed" /\ u.id = t.id
  BY <1>3 DEF Task
<1> HIDE DEF u
<1>7. PluginsTyped'
  BY <1>1, <1>2, <1>5, <1>6 DEF PluginsTyped
<1>8. /\ tasks'[c] = u
      /\ \A d \in P!Callers : d # c => tasks'[d] = tasks[d]
  BY <1>1, <1>5 DEF PluginsTyped
<1>9. /\ \A i : Registered(i)' <=> Registered(i)
      /\ \A p, b, a : Compared(p, b, a)' <=> Compared(p, b, a)
  BY <1>2 DEF Registered, Compared, P!Grants
<1>10. ASSUME NEW i \in P!Ids PROVE RowHolds(i)'
  BY <1>2, <1>5, <1>9 DEF PluginsInv, RowHolds
<1>11. ASSUME NEW d \in P!Callers PROVE TaskHolds(d, tasks[d])'
  <2>1. CASE d = c
    BY <1>1, <1>2, <1>4, <1>5, <1>6, <1>8, <1>9, <2>1 DEF TaskHolds, Own
  <2>2. CASE d # c
    <3>1. TaskHolds(d, tasks[d]) /\ tasks'[d] = tasks[d]
      BY <1>8, <2>2 DEF PluginsInv
    <3>2. tasks[d].at \in Own => tasks[d].id # t.id
      BY <1>4, <3>1 DEF TaskHolds
    <3> QED BY <1>2, <1>5, <1>9, <3>1, <3>2 DEF TaskHolds
  <2> QED BY <2>1, <2>2
<1>12. \A d, e \in P!Callers :
         d # e /\ tasks'[d].at \in Own /\ tasks'[e].at \in Own => tasks'[d].id # tasks'[e].id
  BY <1>6, <1>8 DEF PluginsInv, Own
<1>13. \A v \in versions' : Registered(v)' /\ v \in placed'
  BY <1>2, <1>5, <1>9 DEF PluginsInv
<1>14. (plugin.active \in versions \cup {0})'
  BY <1>2 DEF PluginsInv
<1>15. PluginsInv'
  BY <1>7, <1>10, <1>11, <1>12, <1>13, <1>14 DEF PluginsInv
<1> QED BY <1>2, <1>15 DEF PluginsStep, P!UpdateAsksNothing

\* What is activated was compared with the version it replaces, and by an
\* update nothing that asks for more.
LEMMA ActivatePlugins ==
  ASSUME PluginsInv, NEW c \in P!Callers, NEW dependency \in BOOLEAN,
         P!ActivateCandidate(c, dependency)
  PROVE  PluginsStep
<1> DEFINE t == tasks[c]
           old == candidates[t.id]
           row == [old EXCEPT !.status = "activated"]
<1>1. PluginsTyped /\ t \in Task /\ TaskHolds(c, t)
  BY DEF PluginsInv, PluginsTyped
<1>2. /\ t.at = "placed"
      /\ plugin.active = t.expected /\ old.base = t.expected
      /\ plugin' = [active |-> t.id, policy |-> t.policy, source |-> old.source,
                    enabled |-> IF P!Installed THEN plugin.enabled ELSE TRUE]
      /\ versions' = versions \cup {t.id}
      /\ candidates' = [candidates EXCEPT ![t.id] = row]
      /\ tasks' = [tasks EXCEPT ![c] = P!Idle]
      /\ UNCHANGED <<issued, workspaces, placed, torn>>
  BY DEF P!ActivateCandidate, P!Activatable, P!Expected, P!Becomes
<1>3. /\ t \in [at : {"chosen", "placed"}, id : P!Ids, expected : Nat, policy : P!Policies]
      /\ Registered(t.id) /\ t.id \in placed
      /\ c = "updater" => old.added = {}
  BY <1>1, <1>2, TaskKinds DEF TaskHolds
<1>4. old \in CandidateRow /\ RowHolds(t.id)
  BY <1>1, <1>3 DEF PluginsTyped, PluginsInv, Registered, P!NoCandidate
<1>5. /\ row \in CandidateRow /\ row.status # "none" /\ row.commit = old.commit
      /\ row.base = old.base /\ row.added = old.added
  BY <1>4 DEF CandidateRow
<1> HIDE DEF row
<1>6. /\ candidates' \in [P!Ids -> {P!NoCandidate} \cup CandidateRow]
      /\ candidates'[t.id] = row
      /\ \A i \in P!Ids : i # t.id => candidates'[i] = candidates[i]
  BY <1>1, <1>2, <1>3, <1>5 DEF PluginsTyped
<1>7. plugin' \in Installation /\ plugin'.active = t.id
  <2>1. (IF P!Installed THEN plugin.enabled ELSE TRUE) \in BOOLEAN
    BY <1>1 DEF PluginsTyped, Installation, P!Installed
  <2>2. old.source \in Sources
    BY <1>4 DEF CandidateRow
  <2> QED BY <1>2, <1>3, <2>1, <2>2 DEF Installation
<1>8. PluginsTyped'
  <2>1. P!Idle \in Task
    BY DEF Task
  <2> QED BY <1>1, <1>2, <1>3, <1>6, <1>7, <2>1 DEF PluginsTyped
<1>9. /\ tasks'[c] = P!Idle /\ P!Idle.at = "idle"
      /\ \A d \in P!Callers : d # c => tasks'[d] = tasks[d]
  BY <1>1, <1>2 DEF PluginsTyped, P!Idle
<1>10. /\ \A i : Registered(i)' <=> Registered(i)
       /\ \A i \in P!Ids : Registered(i) =>
            /\ candidates'[i].commit = candidates[i].commit
            /\ candidates'[i].base = candidates[i].base
            /\ candidates'[i].added = candidates[i].added
  BY <1>3, <1>5, <1>6 DEF Registered
<1>11. \A v \in versions \cup {0} : P!Grants(v)' = P!Grants(v)
  BY <1>1, <1>10 DEF PluginsTyped, PluginsInv, P!Grants
<1>12. \A p, b, x : Compared(p, b, x) => Compared(p, b, x)'
  BY <1>2, <1>11 DEF Compared
<1>13. ASSUME NEW i \in P!Ids PROVE RowHolds(i)'
  BY <1>2, <1>10, <1>12 DEF PluginsInv, RowHolds
<1>14. ASSUME NEW d \in P!Callers PROVE TaskHolds(d, tasks[d])'
  <2>1. CASE d = c
    BY <1>9, <2>1 DEF TaskHolds, Own
  <2>2. CASE d # c
    <3>1. TaskHolds(d, tasks[d]) /\ tasks'[d] = tasks[d]
      BY <1>9, <2>2 DEF PluginsInv
    <3>2. Registered(tasks[d].id) => candidates'[tasks[d].id].added = candidates[tasks[d].id].added
      BY <1>10 DEF Registered
    <3> QED BY <1>2, <1>10, <1>12, <3>1, <3>2 DEF TaskHolds
  <2> QED BY <2>1, <2>2
<1>15. \A d, e \in P!Callers :
         d # e /\ tasks'[d].at \in Own /\ tasks'[e].at \in Own => tasks'[d].id # tasks'[e].id
  BY <1>9 DEF PluginsInv, Own
<1>16. \A v \in versions' : Registered(v)' /\ v \in placed'
  BY <1>2, <1>3, <1>10 DEF PluginsInv
<1>17. (plugin.active \in versions \cup {0})'
  BY <1>2, <1>7
<1>18. PluginsInv'
  BY <1>8, <1>13, <1>14, <1>15, <1>16, <1>17 DEF PluginsInv
<1>19. P!UpdateAsksNothing
  <2>1. SUFFICES ASSUME c = "updater" PROVE P!Grants(plugin.active)' \subseteq P!Grants(plugin.active)
    BY <1>9 DEF P!UpdateAsksNothing, P!Callers
  <2>2. old.added = Permissions[old.commit] \ P!Grants(plugin.active) /\ old.added = {}
    BY <1>2, <1>3, <1>4, <2>1 DEF RowHolds, Compared
  <2>3. P!Grants(plugin.active)' = Permissions[old.commit]
    BY <1>3, <1>5, <1>6, <1>7 DEF P!Grants, P!Ids
  <2> QED BY <2>2, <2>3
<1> QED BY <1>18, <1>19 DEF PluginsStep

\* A user's configuration and a rollback stay among the installed versions.
LEMMA ConfigurePlugins ==
  ASSUME PluginsInv,
         UNCHANGED <<candidates, versions, issued, workspaces, placed, torn, tasks>>,
         plugin' \in Installation, plugin'.active \in versions
  PROVE  PluginsStep
<1>1. PluginsTyped'
  BY DEF PluginsInv, PluginsTyped
<1>2. /\ \A i : Registered(i)' <=> Registered(i)
      /\ \A p, b, a : Compared(p, b, a)' <=> Compared(p, b, a)
  BY DEF Registered, Compared, P!Grants
<1>3. /\ \A i \in P!Ids : RowHolds(i)'
      /\ \A c \in P!Callers : TaskHolds(c, tasks[c])'
  BY <1>2 DEF PluginsInv, RowHolds, TaskHolds
<1>4. PluginsInv'
  BY <1>1, <1>2, <1>3 DEF PluginsInv
<1> QED BY <1>4 DEF PluginsStep, P!UpdateAsksNothing

\* The end of the process ends what the callers were about, and no more.
LEMMA CrashPlugins ==
  ASSUME PluginsInv, P!Crash
  PROVE  PluginsStep
<1>1. /\ tasks' = [c \in P!Callers |-> P!Idle] /\ P!Idle \in Task /\ P!Idle.at = "idle"
      /\ UNCHANGED <<candidates, versions, plugin, issued, workspaces, placed, torn>>
  BY DEF P!Crash, Task, P!Idle
<1>2. PluginsTyped'
  BY <1>1 DEF PluginsInv, PluginsTyped
<1>3. /\ \A i : Registered(i)' <=> Registered(i)
      /\ \A p, b, a : Compared(p, b, a)' <=> Compared(p, b, a)
  BY <1>1 DEF Registered, Compared, P!Grants
<1>4. /\ \A i \in P!Ids : RowHolds(i)'
      /\ \A c \in P!Callers : tasks'[c].at = "idle" /\ TaskHolds(c, tasks[c])'
  BY <1>1, <1>3 DEF PluginsInv, RowHolds, TaskHolds, Own
<1>5. PluginsInv'
  BY <1>1, <1>2, <1>3, <1>4 DEF PluginsInv, Own
<1> QED BY <1>1, <1>5 DEF PluginsStep, P!UpdateAsksNothing

\* Every step of the users, of the updater and of the process keeps the invariant.
LEMMA PluginsAdvance ==
  ASSUME PluginsInv, P!Next
  PROVE  PluginsStep
<1>1. PluginsTyped
  BY DEF PluginsInv
<1>2. CASE P!ListAutomatic
  <2> DEFINE t == [at |-> "checking", source |-> plugin.source, expected |-> plugin.active]
  <2>1. plugin \in Installation
    BY <1>1, <1>2 DEF P!ListAutomatic, P!Installed, PluginsTyped
  <2>2. t \in Task /\ t.at = "checking"
    BY <2>1, Quantities DEF Task, Installation, P!Ids
  <2>3. /\ tasks' = [tasks EXCEPT !["updater"] = t]
        /\ UNCHANGED <<candidates, versions, plugin, issued, placed, workspaces, torn>>
    BY <1>2 DEF P!ListAutomatic, P!Becomes
  <2> HIDE DEF t
  <2>4. "updater" \in P!Callers /\ TaskHolds("updater", t) /\ t.at \notin Own
    BY <2>2 DEF P!Callers, TaskHolds, Own
  <2> QED BY <2>2, <2>3, <2>4, TaskEnds
<1>3. ASSUME NEW s \in Sources, P!Inspect(s) PROVE PluginsStep
  <2> DEFINE t == [at |-> "checking", source |-> s, expected |-> 0]
  <2>1. t \in Task /\ t.at = "checking"
    BY DEF Task
  <2>2. /\ tasks' = [tasks EXCEPT !["user"] = t]
        /\ UNCHANGED <<candidates, versions, plugin, issued, placed, workspaces, torn>>
    BY <1>3 DEF P!Inspect, P!Becomes
  <2> HIDE DEF t
  <2>3. "user" \in P!Callers /\ TaskHolds("user", t) /\ t.at \notin Own
    BY <2>1 DEF P!Callers, TaskHolds, Own
  <2> QED BY <2>1, <2>2, <2>3, TaskEnds
<1>4. ASSUME NEW i \in P!Ids, NEW p \in P!Policies,
             NEW e \in {plugin.active} \cup (IF candidates[i].status = "none" THEN {} ELSE {candidates[i].base}),
             P!Request(i, e, p)
      PROVE  PluginsStep
  <2> DEFINE t == [at |-> "chosen", id |-> i, expected |-> e, policy |-> p]
  <2>1. Registered(i)
    BY <1>4 DEF P!Request, Registered
  <2>2. e \in versions \cup {0}
    BY <2>1 DEF PluginsInv, RowHolds, Registered, Compared
  <2>3. e \in Nat
    BY <1>1, <2>2, Quantities DEF PluginsTyped, P!Ids
  <2>4. t \in Task /\ t.at = "chosen" /\ t.id = i
    BY <2>3 DEF Task
  <2>5. /\ tasks' = [tasks EXCEPT !["user"] = t]
        /\ UNCHANGED <<candidates, versions, plugin, issued, placed, workspaces, torn>>
    BY <1>4 DEF P!Request, P!Becomes
  <2> HIDE DEF t
  <2>6. "user" \in P!Callers /\ TaskHolds("user", t) /\ t.at \notin Own
    BY <2>1, <2>4 DEF P!Callers, TaskHolds, Own
  <2> QED BY <2>4, <2>5, <2>6, TaskEnds
<1>5. ASSUME NEW enabled \in BOOLEAN, NEW p \in P!Policies, P!Configure(enabled, p) PROVE PluginsStep
  <2>1. plugin \in Installation /\ plugin.active \in versions
    BY <1>1, <1>5 DEF P!Configure, P!Installed, PluginsInv, PluginsTyped
  <2>2. plugin' \in Installation /\ plugin'.active = plugin.active
    BY <1>5, <2>1 DEF P!Configure, Installation
  <2> QED BY <1>5, <2>1, <2>2, ConfigurePlugins DEF P!Configure
<1>6. ASSUME NEW v \in versions, P!Rollback(v) PROVE PluginsStep
  <2>1. plugin \in Installation /\ v \in P!Ids
    BY <1>1, <1>6 DEF P!Rollback, P!Installed, PluginsInv, PluginsTyped
  <2>2. plugin' \in Installation /\ plugin'.active = v
    BY <1>6, <2>1 DEF P!Rollback, Installation
  <2> QED BY <1>6, <2>2, ConfigurePlugins DEF P!Rollback
<1>7. ASSUME NEW c \in P!Callers, tasks' = [tasks EXCEPT ![c] = P!Idle],
             UNCHANGED <<candidates, versions, plugin, issued, workspaces, placed, torn>>
      PROVE  PluginsStep
  <2>1. P!Idle \in Task /\ P!Idle.at \notin Own /\ TaskHolds(c, P!Idle)
    BY DEF Task, P!Idle, TaskHolds, Own
  <2> QED BY <1>7, <2>1, TaskEnds
<1>8. ASSUME NEW c \in P!Callers, P!Proceed(c) PROVE PluginsStep
  <2>1. CASE P!FetchFails(c)
    BY <1>7, <2>1 DEF P!FetchFails, P!Becomes
  <2>2. CASE \E dependency \in BOOLEAN : P!RefuseActivation(c, dependency)
    BY <1>7, <2>2 DEF P!RefuseActivation, P!Becomes
  <2>3. CASE \E dependency \in BOOLEAN : P!ActivateCandidate(c, dependency)
    BY <2>3, ActivatePlugins
  <2>4. CASE \E commit \in Commits : P!Fetch(c, commit)
    BY <2>4, FetchPlugins
  <2>5. CASE P!ActivationFails(c)
    BY <1>7, <2>5 DEF P!ActivationFails, P!Becomes
  <2> QED BY <1>8, <2>1, <2>2, <2>3, <2>4, <2>5, ReadPlugins, LookUpPlugins, RegisterPlugins,
             ReloadPlugins, StagingPlugins, TearPlugins, PlacePlugins DEF P!Proceed
<1>9. CASE P!Requests
  BY <1>3, <1>4, <1>5, <1>6, <1>9 DEF P!Requests
<1> QED BY <1>2, <1>8, <1>9, CrashPlugins DEF P!Next

\* Nothing is installed in the beginning.
LEMMA PluginsBegin ==
  ASSUME P!Init
  PROVE  PluginsInv
BY DEF P!Init, PluginsInv, PluginsTyped, Task, P!Idle, P!NoCandidate, RowHolds, Registered, TaskHolds, Own
-----------------------------------------------------------------------------
(* Publishing.  Drafts, revisions and heads only grow, so what was recorded *)
(* of them stays true; a pin names heads that were there when it was made.  *)
RunRow == [status : {"queued", "leased", "ended"}, revision : Nat,
           pin : {None} \cup [channel : Nat, preset : Nat, tool : BOOLEAN], attempts : Nat]
PublishingTyped ==
  /\ drafts \in Seq(Documents) /\ revisions \in Seq(Documents)
  /\ channel \in Seq(U!Capability) /\ preset \in Nat
  /\ seen \in [Editors -> Nat]
  /\ answer \in [Editors -> {None} \cup [token : Nat, revision : Nat]]
  /\ runs \in [Runs -> {None} \cup RunRow]

Means(token, n) ==
  /\ token \in 1..Len(drafts) /\ n \in 1..Len(revisions)
  /\ revisions[n] = drafts[token]
ReceiptHolds(r) ==
  /\ r.scope = "apply" => Means(r.digest, r.result)
  /\ r.scope = "draft" => r.result \in 1..Len(drafts)
RunHolds(row) ==
  /\ row.revision \in 1..Len(revisions)
  /\ row.pin # None =>
       /\ row.pin.channel \in 1..Len(channel)
       /\ U!Offers(channel[row.pin.channel], revisions[row.revision])
       /\ revisions[row.revision].preset => row.pin.preset \in 1..preset
PublishingInv ==
  /\ PublishingTyped
  /\ \A e \in Editors :
       /\ seen[e] # 0 => seen[e] \in 1..Len(drafts)
       /\ answer[e] # None => Means(answer[e].token, answer[e].revision)
  /\ \A r \in receipts : ReceiptHolds(r)
  /\ \A r, q \in receipts : r.scope = q.scope /\ r.key = q.key => r = q
  /\ \A r \in Runs : runs[r] # None => RunHolds(runs[r])

PublishingStep == PublishingInv' /\ U!PinKept

\* The invariant is what the property asks for, and more.
LEMMA PublishingServed ==
  ASSUME PublishingInv
  PROVE  U!ApplyersGetWhatTheySaw /\ U!PinsServe
BY DEF PublishingInv, Means, RunHolds, U!ApplyersGetWhatTheySaw, U!PinsServe, U!Node

Grows ==
  /\ Len(drafts') >= Len(drafts) /\ \A i \in 1..Len(drafts) : drafts'[i] = drafts[i]
  /\ Len(revisions') >= Len(revisions) /\ \A i \in 1..Len(revisions) : revisions'[i] = revisions[i]
  /\ Len(channel') >= Len(channel) /\ \A i \in 1..Len(channel) : channel'[i] = channel[i]
  /\ preset' >= preset

\* What was true of drafts, revisions and heads stays true as they grow.
LEMMA RecordsStand ==
  ASSUME PublishingTyped, PublishingTyped', Grows
  PROVE  /\ \A t, n : Means(t, n) => Means(t, n)'
         /\ \A r : ReceiptHolds(r) => ReceiptHolds(r)'
         /\ \A row : RunHolds(row) => RunHolds(row)'
<1>1. /\ Len(drafts) \in Nat /\ Len(drafts') \in Nat
      /\ Len(revisions) \in Nat /\ Len(revisions') \in Nat
      /\ Len(channel) \in Nat /\ Len(channel') \in Nat
      /\ preset \in Nat /\ preset' \in Nat
  BY DEF PublishingTyped
<1>2. /\ 1..Len(drafts) \subseteq 1..Len(drafts')
      /\ 1..Len(revisions) \subseteq 1..Len(revisions')
      /\ 1..Len(channel) \subseteq 1..Len(channel')
      /\ 1..preset \subseteq 1..preset'
  BY <1>1 DEF Grows
<1>3. \A t, n : Means(t, n) => Means(t, n)'
  BY <1>2 DEF Means, Grows
<1>4. \A r : ReceiptHolds(r) => ReceiptHolds(r)'
  BY <1>2, <1>3 DEF ReceiptHolds
<1>5. ASSUME NEW row, RunHolds(row) PROVE RunHolds(row)'
  <2>1. /\ row.revision \in 1..Len(revisions')
        /\ revisions'[row.revision] = revisions[row.revision]
    BY <1>2, <1>5 DEF RunHolds, Grows
  <2>2. ASSUME row.pin # None
        PROVE  /\ row.pin.channel \in 1..Len(channel')
               /\ channel'[row.pin.channel] = channel[row.pin.channel]
    BY <1>2, <1>5, <2>2 DEF RunHolds, Grows
  <2>3. row.pin # None /\ revisions[row.revision].preset => row.pin.preset \in 1..preset'
    BY <1>2, <1>5 DEF RunHolds
  <2>4. ASSUME row.pin # None
        PROVE  U!Offers(channel[row.pin.channel], revisions[row.revision])'
    BY <1>5, <2>1, <2>2, <2>4 DEF RunHolds, U!Offers
  <2> QED BY <2>1, <2>2, <2>3, <2>4 DEF RunHolds
<1> QED BY <1>3, <1>4, <1>5

\* A head that moves, and a step of a run that keeps what it has pinned.
LEMMA HeadsAndRuns ==
  ASSUME PublishingInv, PublishingTyped', Grows,
         UNCHANGED <<receipts, seen, answer>>,
         \A r \in Runs : runs'[r] # None =>
           \/ runs[r] # None /\ runs'[r].pin = runs[r].pin /\ runs'[r].revision = runs[r].revision
           \/ (runs[r] = None \/ runs[r].pin = None) /\ RunHolds(runs[r])',
         U!PinKept
  PROVE  PublishingStep
<1>1. PublishingTyped
  BY DEF PublishingInv
<1>2. /\ \A t, n : Means(t, n) => Means(t, n)'
      /\ \A r : ReceiptHolds(r) => ReceiptHolds(r)'
      /\ \A row : RunHolds(row) => RunHolds(row)'
  BY <1>1, RecordsStand
<1>3. 1..Len(drafts) \subseteq 1..Len(drafts')
  BY <1>1 DEF PublishingTyped, Grows
<1>4. \A e \in Editors :
        /\ seen'[e] # 0 => seen'[e] \in 1..Len(drafts')
        /\ answer'[e] # None => Means(answer[e].token, answer[e].revision)'
  BY <1>2, <1>3 DEF PublishingInv
<1>5. \A r \in receipts' : ReceiptHolds(r)'
  BY <1>2 DEF PublishingInv
<1>6. ASSUME NEW r \in Runs, runs'[r] # None PROVE RunHolds(runs[r])'
  <2>1. CASE runs[r] # None /\ runs'[r].pin = runs[r].pin /\ runs'[r].revision = runs[r].revision
    <3>1. RunHolds(runs[r])
      BY <2>1 DEF PublishingInv
    <3>2. \A row : RunHolds(row) /\ row.pin = runs'[r].pin /\ row.revision = runs'[r].revision
                     => RunHolds(runs'[r])
      BY DEF RunHolds
    <3>3. RunHolds(runs'[r])
      BY <2>1, <3>1, <3>2
    <3> QED BY <1>2, <3>3
  <2> QED BY <1>6, <2>1
<1>7. PublishingInv'
  BY <1>4, <1>5, <1>6 DEF PublishingInv
<1> QED BY <1>7 DEF PublishingStep

\* A sequence that is appended to is longer and says the same before.
LEMMA Appended ==
  ASSUME NEW T, NEW s \in Seq(T), NEW x \in T
  PROVE  /\ Append(s, x) \in Seq(T) /\ Len(Append(s, x)) = Len(s) + 1
         /\ Append(s, x)[Len(s) + 1] = x
         /\ \A i \in 1..Len(s) : Append(s, x)[i] = s[i]
OBVIOUS

\* The configuration's publishers only add heads.
LEMMA PublishHeads ==
  ASSUME PublishingInv,
         \/ \E capability \in U!Capability : U!PublishChannel(capability)
         \/ U!PublishPreset
         \/ \E enabled \in BOOLEAN : U!PublishTool(enabled) \/ U!SetToolEnabled(enabled)
  PROVE  PublishingStep
<1>1. /\ PublishingTyped /\ Len(channel) \in Nat /\ preset \in Nat
      /\ Len(drafts) \in Nat /\ Len(revisions) \in Nat
  BY DEF PublishingInv, PublishingTyped
<1>2. ASSUME UNCHANGED <<drafts, revisions, receipts, seen, answer, runs>>,
             channel' \in Seq(U!Capability), preset' \in Nat, preset' >= preset,
             Len(channel') >= Len(channel), \A i \in 1..Len(channel) : channel'[i] = channel[i]
      PROVE  PublishingStep
  <2>1. PublishingTyped' /\ Grows
    BY <1>1, <1>2 DEF PublishingTyped, Grows
  <2>2. U!PinKept
    BY <1>2 DEF U!PinKept
  <2> QED BY <1>2, <2>1, <2>2, HeadsAndRuns
<1>3. ASSUME NEW capability \in U!Capability, U!PublishChannel(capability)
      PROVE  PublishingStep
  <2>1. /\ channel' = Append(channel, capability) /\ channel \in Seq(U!Capability)
        /\ UNCHANGED <<drafts, revisions, preset, receipts, seen, answer, runs>>
    BY <1>1, <1>3 DEF U!PublishChannel, PublishingTyped
  <2>2. /\ channel' \in Seq(U!Capability) /\ Len(channel') = Len(channel) + 1
        /\ \A i \in 1..Len(channel) : channel'[i] = channel[i]
    BY <2>1, Appended
  <2>3. preset' \in Nat /\ preset' >= preset /\ Len(channel') >= Len(channel)
    BY <1>1, <2>1, <2>2
  <2> QED BY <1>2, <2>1, <2>2, <2>3
<1>4. ASSUME UNCHANGED <<drafts, revisions, channel, receipts, seen, answer, runs>>,
             preset' = preset \/ preset' = preset + 1
      PROVE  PublishingStep
  <2>1. preset' \in Nat /\ preset' >= preset /\ Len(channel') >= Len(channel)
    BY <1>1, <1>4
  <2>2. channel' \in Seq(U!Capability) /\ \A i \in 1..Len(channel) : channel'[i] = channel[i]
    BY <1>1, <1>4 DEF PublishingTyped
  <2> QED BY <1>2, <1>4, <2>1, <2>2
<1>5. U!PublishPreset => PublishingStep
  BY <1>4 DEF U!PublishPreset
<1>6. \A enabled \in BOOLEAN : U!PublishTool(enabled) \/ U!SetToolEnabled(enabled) => PublishingStep
  BY <1>4 DEF U!PublishTool, U!SetToolEnabled
<1> QED BY <1>3, <1>5, <1>6

\* A run starts without a pin, and pins once, what serves its revision.
LEMMA RunsGoOn ==
  ASSUME PublishingInv, NEW r \in Runs,
         \/ \E n \in 1..Len(revisions) : U!StartRun(r, n)
         \/ U!Claim(r) \/ U!Retry(r) \/ U!End(r)
  PROVE  PublishingStep
<1>1. /\ PublishingTyped
      /\ UNCHANGED <<drafts, revisions, channel, preset, tool, receipts, seen, answer>>
  BY DEF PublishingInv, U!StartRun, U!Claim, U!Retry, U!End
<1>2. Grows
  BY <1>1 DEF PublishingTyped, Grows
<1> DEFINE PinSet == [channel : Nat, preset : Nat, tool : BOOLEAN]
<1>3. ASSUME NEW n \in 1..Len(revisions), U!StartRun(r, n) PROVE PublishingStep
  <2> DEFINE row == [status |-> "queued", revision |-> n, pin |-> None, attempts |-> 1]
  <2>1. runs[r] = None /\ runs' = [runs EXCEPT ![r] = row]
    BY <1>3 DEF U!StartRun
  <2>2. row \in RunRow /\ row.pin = None /\ row.revision = n
    BY <1>1 DEF RunRow, PublishingTyped
  <2> HIDE DEF row
  <2>3. /\ runs' \in [Runs -> {None} \cup RunRow] /\ runs'[r] = row
        /\ \A q \in Runs : q # r => runs'[q] = runs[q]
    BY <1>1, <2>1, <2>2 DEF PublishingTyped
  <2>4. PublishingTyped'
    BY <1>1, <2>3 DEF PublishingTyped
  <2>5. RunHolds(runs[r])'
    BY <1>1, <2>2, <2>3 DEF RunHolds
  <2>6. U!PinKept
    BY <2>1, <2>3 DEF U!PinKept
  <2> QED BY <1>1, <1>2, <2>1, <2>3, <2>4, <2>5, <2>6, HeadsAndRuns
<1>4. ASSUME runs[r] # None, NEW row \in RunRow, runs' = [runs EXCEPT ![r] = row],
             row.revision = runs[r].revision,
             \/ row.pin = runs[r].pin
             \/ runs[r].pin = None /\ RunHolds(row)
      PROVE  PublishingStep
  <2>1. /\ runs' \in [Runs -> {None} \cup RunRow] /\ runs'[r] = row
        /\ \A q \in Runs : q # r => runs'[q] = runs[q]
    BY <1>1, <1>4 DEF PublishingTyped
  <2>2. PublishingTyped'
    BY <1>1, <2>1 DEF PublishingTyped
  <2>3. RunHolds(row) => RunHolds(runs[r])'
    BY <1>1, <2>1 DEF RunHolds, U!Offers
  <2>4. \A q \in Runs : runs'[q] # None =>
           \/ runs[q] # None /\ runs'[q].pin = runs[q].pin /\ runs'[q].revision = runs[q].revision
           \/ (runs[q] = None \/ runs[q].pin = None) /\ RunHolds(runs[q])'
    BY <1>4, <2>1, <2>3
  <2>5. U!PinKept
    BY <1>4, <2>1 DEF U!PinKept
  <2> QED BY <1>1, <1>2, <2>2, <2>4, <2>5, HeadsAndRuns
<1>5. ASSUME U!Claim(r) PROVE PublishingStep
  <2> DEFINE pin == IF U!Pinned(r) THEN runs[r].pin ELSE U!Heads(r)
             row == [runs[r] EXCEPT !.status = "leased", !.pin = pin]
  <2>1. runs[r] # None /\ runs[r] \in RunRow /\ RunHolds(runs[r])
    BY <1>1, <1>5 DEF PublishingInv, PublishingTyped, U!Claim, U!Is
  <2>2. runs' = [runs EXCEPT ![r] = row] /\ (U!Pinned(r) \/ U!Served(r))
    BY <1>1, <1>5, <2>1 DEF U!Claim, PublishingTyped, RunRow
  <2>3. runs[r].revision \in 1..Len(revisions) /\ U!Node(r) \in Documents
    BY <1>1, <2>1 DEF RunHolds, U!Node, PublishingTyped
  <2>4. U!Heads(r) \in PinSet
    <3>0. Documents \subseteq [streams : BOOLEAN, override : BOOLEAN, preset : BOOLEAN, tool : BOOLEAN]
      BY DEF Documents
    <3>1. U!Node(r).tool \in BOOLEAN
      BY <2>3, <3>0
    <3>2. Len(channel) \in Nat /\ (IF U!Node(r).preset THEN preset ELSE 0) \in Nat
      BY <1>1 DEF PublishingTyped
    <3> QED BY <3>1, <3>2 DEF U!Heads
  <2>5. pin \in {None} \cup PinSet
    BY <2>1, <2>4 DEF RunRow
  <2> HIDE DEF pin
  <2>6. row \in RunRow /\ row.revision = runs[r].revision /\ row.pin = pin
    BY <2>1, <2>5 DEF RunRow
  <2> HIDE DEF row
  <2>7. CASE U!Pinned(r)
    BY <1>4, <2>1, <2>2, <2>6, <2>7 DEF pin
  <2>8. CASE ~U!Pinned(r)
    <3>1. U!Servable(U!Node(r)) /\ pin = U!Heads(r) /\ runs[r].pin = None
      BY <2>2, <2>8 DEF U!Served, U!Pinned, pin
    <3>2. /\ channel # <<>> /\ U!Offers(U!Last(channel), U!Node(r))
          /\ U!Node(r).preset => preset > 0
      BY <3>1 DEF U!Servable, U!Resolvable
    <3>3. Len(channel) \in 1..Len(channel) /\ U!Offers(channel[Len(channel)], U!Node(r))
      BY <1>1, <3>2 DEF PublishingTyped, U!Last
    <3>4. pin.channel = Len(channel) /\ (U!Node(r).preset => pin.preset = preset)
      BY <3>1 DEF U!Heads
    <3>5. U!Node(r).preset => pin.preset \in 1..preset
      BY <1>1, <3>2, <3>4 DEF PublishingTyped
    <3>6. RunHolds(row)
      BY <2>3, <2>6, <3>3, <3>4, <3>5 DEF RunHolds, U!Node
    <3> QED BY <1>4, <2>1, <2>2, <2>6, <3>1, <3>6
  <2> QED BY <2>7, <2>8
<1>6. ASSUME U!Retry(r) PROVE PublishingStep
  <2> DEFINE row == [runs[r] EXCEPT !.status = "queued", !.attempts = runs[r].attempts + 1]
  <2>1. runs[r] # None /\ runs[r] \in RunRow
    BY <1>1, <1>6 DEF PublishingTyped, U!Retry, U!Is
  <2>2. runs' = [runs EXCEPT ![r] = row]
    BY <1>1, <1>6, <2>1 DEF U!Retry, PublishingTyped, RunRow
  <2>3. row \in RunRow /\ row.revision = runs[r].revision /\ row.pin = runs[r].pin
    <3>1. runs[r].attempts + 1 \in Nat
      BY <2>1 DEF RunRow
    <3> QED BY <2>1, <3>1 DEF RunRow
  <2> HIDE DEF row
  <2> QED BY <1>4, <2>1, <2>2, <2>3
<1>7. ASSUME U!End(r) PROVE PublishingStep
  <2> DEFINE row == [runs[r] EXCEPT !.status = "ended"]
  <2>1. runs[r] # None /\ runs[r] \in RunRow
    BY <1>1, <1>7 DEF PublishingTyped, U!End, U!Is
  <2>2. runs' = [runs EXCEPT ![r] = row]
    BY <1>1, <1>7, <2>1 DEF U!End, PublishingTyped, RunRow
  <2>3. row \in RunRow /\ row.revision = runs[r].revision /\ row.pin = runs[r].pin
    BY <2>1 DEF RunRow
  <2> HIDE DEF row
  <2> QED BY <1>4, <2>1, <2>2, <2>3
<1> QED BY <1>3, <1>5, <1>6, <1>7

\* A stored answer is the one that was recorded under its key.
LEMMA StoredIsKept ==
  ASSUME PublishingInv, NEW scope, NEW k, NEW r \in receipts, r.scope = scope, r.key = k
  PROVE  U!Stored(scope, k) = r.result
<1>1. r \in U!Kept(scope, k)
  BY DEF U!Kept
<1>2. \A q \in U!Kept(scope, k) : q = r
  BY DEF U!Kept, PublishingInv
<1>3. (CHOOSE q \in U!Kept(scope, k) : TRUE) \in U!Kept(scope, k)
  BY <1>1
<1> QED BY <1>2, <1>3 DEF U!Stored

\* An editor's step: his token or his answer changes, drafts, revisions and
\* receipts may grow.
LEMMA EditorsGoOn ==
  ASSUME PublishingInv, NEW e \in Editors, PublishingTyped', Grows, UNCHANGED runs,
         \A d \in Editors : d # e => seen'[d] = seen[d] /\ answer'[d] = answer[d],
         seen'[e] # 0 => seen'[e] \in 1..Len(drafts'),
         answer'[e] = answer[e] \/ Means(answer[e].token, answer[e].revision)',
         \/ receipts' = receipts
         \/ \E r : /\ receipts' = receipts \cup {r} /\ ReceiptHolds(r)'
                   /\ \A q \in receipts : q.scope # r.scope \/ q.key # r.key
  PROVE  PublishingStep
<1>1. PublishingTyped
  BY DEF PublishingInv
<1>2. /\ \A t, n : Means(t, n) => Means(t, n)'
      /\ \A r : ReceiptHolds(r) => ReceiptHolds(r)'
      /\ \A row : RunHolds(row) => RunHolds(row)'
  BY <1>1, RecordsStand
<1>3. 1..Len(drafts) \subseteq 1..Len(drafts')
  BY <1>1 DEF PublishingTyped, Grows
<1>4. ASSUME NEW d \in Editors
      PROVE  /\ seen'[d] # 0 => seen'[d] \in 1..Len(drafts')
             /\ answer'[d] # None => Means(answer[d].token, answer[d].revision)'
  <2>1. answer'[d] # None /\ answer'[d] = answer[d] => Means(answer'[d].token, answer'[d].revision)
    BY DEF PublishingInv
  <2>2. answer'[d] # None /\ answer'[d] = answer[d] => Means(answer[d].token, answer[d].revision)'
    BY <1>2, <2>1 DEF Means, Grows
  <2>3. CASE d = e
    BY <2>2, <2>3
  <2>4. CASE d # e
    BY <1>3, <2>2, <2>4 DEF PublishingInv
  <2> QED BY <2>3, <2>4
<1>5. /\ \A r \in receipts' : ReceiptHolds(r)'
      /\ \A r, q \in receipts' : r.scope = q.scope /\ r.key = q.key => r = q
  <2>1. CASE receipts' = receipts
    BY <1>2, <2>1 DEF PublishingInv
  <2>2. ASSUME NEW r, receipts' = receipts \cup {r}, ReceiptHolds(r)',
               \A q \in receipts : q.scope # r.scope \/ q.key # r.key
        PROVE  /\ \A q \in receipts' : ReceiptHolds(q)'
               /\ \A p, q \in receipts' : p.scope = q.scope /\ p.key = q.key => p = q
    BY <1>2, <2>2 DEF PublishingInv
  <2> QED BY <2>1, <2>2
<1>6. \A r \in Runs : runs'[r] # None => RunHolds(runs[r])'
  BY <1>2 DEF PublishingInv
<1>7. PublishingInv'
  BY <1>4, <1>5, <1>6 DEF PublishingInv
<1> QED BY <1>7 DEF PublishingStep, U!PinKept

\* An editor reads the token of the draft.
LEMMA ReadDraft ==
  ASSUME PublishingInv, NEW e \in Editors, U!Read(e)
  PROVE  PublishingStep
<1>1. /\ PublishingTyped /\ Len(drafts) \in Nat
      /\ seen' = [seen EXCEPT ![e] = Len(drafts)]
      /\ UNCHANGED <<drafts, revisions, channel, preset, tool, receipts, answer, runs>>
  BY DEF PublishingInv, PublishingTyped, U!Read
<1>2. /\ seen' \in [Editors -> Nat] /\ seen'[e] = Len(drafts)
      /\ \A d \in Editors : d # e => seen'[d] = seen[d]
  BY <1>1 DEF PublishingTyped
<1>3. PublishingTyped' /\ Grows
  BY <1>1, <1>2 DEF PublishingTyped, Grows
<1>4. seen'[e] # 0 => seen'[e] \in 1..Len(drafts')
  BY <1>1, <1>2
<1> QED BY <1>1, <1>2, <1>3, <1>4, EditorsGoOn

\* A draft is changed under its token, once for each key.
LEMMA UpdateADraft ==
  ASSUME PublishingInv, NEW e \in Editors, NEW k \in Keys, NEW d \in Documents,
         U!UpdateDraft(e, k, d)
  PROVE  PublishingStep
<1> DEFINE digest == [token |-> seen[e], document |-> d]
<1>1. /\ PublishingTyped /\ Len(drafts) \in Nat /\ Len(revisions) \in Nat
      /\ UNCHANGED <<revisions, channel, preset, tool, answer, runs>>
  BY DEF PublishingInv, PublishingTyped, U!UpdateDraft
<1>2. ASSUME NEW n \in 1..Len(drafts'), seen' = [seen EXCEPT ![e] = n],
             drafts' \in Seq(Documents), Len(drafts') >= Len(drafts),
             \A i \in 1..Len(drafts) : drafts'[i] = drafts[i],
             \/ receipts' = receipts
             \/ \E r : /\ receipts' = receipts \cup {r} /\ ReceiptHolds(r)'
                       /\ \A q \in receipts : q.scope # r.scope \/ q.key # r.key
      PROVE  PublishingStep
  <2>1. n \in Nat
    BY <1>2
  <2>2. /\ seen' \in [Editors -> Nat] /\ seen'[e] = n
        /\ \A f \in Editors : f # e => seen'[f] = seen[f]
    BY <1>1, <1>2, <2>1 DEF PublishingTyped
  <2>3. PublishingTyped' /\ Grows
    BY <1>1, <1>2, <2>2 DEF PublishingTyped, Grows
  <2> QED BY <1>1, <1>2, <2>2, <2>3, EditorsGoOn
<1>3. CASE /\ U!Replays("draft", k, digest)
           /\ seen' = [seen EXCEPT ![e] = U!Stored("draft", k)]
           /\ UNCHANGED <<drafts, receipts>>
  <2>1. PICK r \in receipts : r.scope = "draft" /\ r.key = k
    BY <1>3 DEF U!Replays, U!Kept
  <2>2. U!Stored("draft", k) = r.result
    BY <2>1, StoredIsKept
  <2>3. r.result \in 1..Len(drafts')
    BY <1>3, <2>1 DEF PublishingInv, ReceiptHolds
  <2>4. drafts' \in Seq(Documents) /\ Len(drafts') >= Len(drafts)
    BY <1>1, <1>3 DEF PublishingTyped
  <2> QED BY <1>2, <1>3, <2>2, <2>3, <2>4
<1>4. CASE /\ U!Kept("draft", k) = {} /\ drafts' = Append(drafts, d)
           /\ seen' = [seen EXCEPT ![e] = Len(drafts')]
           /\ U!Record("draft", k, digest, Len(drafts'))
  <2>0. PICK r : r = [scope |-> "draft", key |-> k, digest |-> digest, result |-> Len(drafts')]
    OBVIOUS
  <2>1. /\ drafts' \in Seq(Documents) /\ Len(drafts') = Len(drafts) + 1
        /\ \A i \in 1..Len(drafts) : drafts'[i] = drafts[i]
    BY <1>1, <1>4, Appended DEF PublishingTyped
  <2>2. Len(drafts') \in 1..Len(drafts') /\ Len(drafts') >= Len(drafts)
    BY <1>1, <2>1
  <2>3. receipts' = receipts \cup {r}
    BY <1>4, <2>0 DEF U!Record
  <2>4. r.scope = "draft" /\ r.key = k /\ r.result = Len(drafts')
    BY <2>0
  <2>5. \A q \in receipts : q.scope # r.scope \/ q.key # r.key
    BY <1>4, <2>4 DEF U!Kept
  <2>6. ReceiptHolds(r)'
    BY <2>2, <2>4 DEF ReceiptHolds
  <2>7. \E q : /\ receipts' = receipts \cup {q} /\ ReceiptHolds(q)'
               /\ \A p \in receipts : p.scope # q.scope \/ p.key # q.key
    BY <2>3, <2>5, <2>6
  <2> QED BY <1>2, <1>4, <2>1, <2>2, <2>7
<1> QED BY <1>3, <1>4 DEF U!UpdateDraft

\* Applying names a revision that is the draft its author saw.
LEMMA ApplyADraft ==
  ASSUME PublishingInv, NEW e \in Editors, NEW k \in Keys, U!Apply(e, k)
  PROVE  PublishingStep
<1> DEFINE node == drafts[seen[e]]
           found == CHOOSE n \in 1..Len(revisions') : revisions'[n] = node
<1>1. /\ PublishingTyped /\ Len(drafts) \in Nat /\ Len(revisions) \in Nat
      /\ UNCHANGED <<drafts, channel, preset, tool, seen, runs>>
      /\ seen[e] \in 1..Len(drafts)
  BY DEF PublishingInv, PublishingTyped, U!Apply
<1>2. ASSUME NEW n, answer' = [answer EXCEPT ![e] = [token |-> seen[e], revision |-> n]],
             Means(seen[e], n)', Len(revisions') >= Len(revisions),
             revisions' \in Seq(Documents), \A i \in 1..Len(revisions) : revisions'[i] = revisions[i],
             \/ receipts' = receipts
             \/ \E r : /\ receipts' = receipts \cup {r} /\ ReceiptHolds(r)'
                       /\ \A q \in receipts : q.scope # r.scope \/ q.key # r.key
      PROVE  PublishingStep
  <2> DEFINE row == [token |-> seen[e], revision |-> n]
  <2>1. seen[e] \in Nat /\ n \in Nat
    BY <1>1, <1>2 DEF Means, PublishingTyped
  <2>2. row \in [token : Nat, revision : Nat] /\ row.token = seen[e] /\ row.revision = n
    BY <2>1
  <2>3. answer' = [answer EXCEPT ![e] = row]
    BY <1>2
  <2> HIDE DEF row
  <2>4. /\ answer' \in [Editors -> {None} \cup [token : Nat, revision : Nat]] /\ answer'[e] = row
        /\ \A f \in Editors : f # e => answer'[f] = answer[f]
    BY <1>1, <2>2, <2>3 DEF PublishingTyped
  <2>5. PublishingTyped' /\ Grows
    BY <1>1, <1>2, <2>4 DEF PublishingTyped, Grows
  <2>6. Means(answer[e].token, answer[e].revision)'
    BY <1>1, <1>2, <2>2, <2>4 DEF Means
  <2> QED BY <1>1, <1>2, <2>4, <2>5, <2>6, EditorsGoOn
<1>3. CASE /\ U!Replays("apply", k, seen[e])
           /\ answer' = [answer EXCEPT ![e] =
                           [token |-> seen[e], revision |-> U!Stored("apply", k)]]
           /\ UNCHANGED <<revisions, receipts>>
  <2>1. PICK r \in receipts : r.scope = "apply" /\ r.key = k /\ r.digest = seen[e]
    BY <1>3 DEF U!Replays, U!Kept
  <2>2. U!Stored("apply", k) = r.result
    BY <2>1, StoredIsKept
  <2>3. Means(seen[e], r.result)
    BY <2>1 DEF PublishingInv, ReceiptHolds
  <2>4. Means(seen[e], r.result)'
    BY <1>1, <1>3, <2>3 DEF Means
  <2>5. revisions' \in Seq(Documents) /\ Len(revisions') >= Len(revisions)
    BY <1>1, <1>3 DEF PublishingTyped
  <2> QED BY <1>2, <1>3, <2>2, <2>4, <2>5
<1>4. CASE /\ U!Kept("apply", k) = {}
           /\ revisions' = IF node \in U!ToSet(revisions) THEN revisions ELSE Append(revisions, node)
           /\ answer' = [answer EXCEPT ![e] = [token |-> seen[e], revision |-> found]]
           /\ U!Record("apply", k, seen[e], found)
  <2>1. node \in Documents
    BY <1>1 DEF PublishingTyped
  <2>2. \E n \in 1..Len(revisions') : revisions'[n] = node
    <3>1. CASE node \in U!ToSet(revisions)
      BY <1>1, <1>4, <3>1 DEF U!ToSet, PublishingTyped
    <3>2. CASE node \notin U!ToSet(revisions)
      <4>1. Len(revisions') = Len(revisions) + 1 /\ revisions'[Len(revisions) + 1] = node
        BY <1>1, <1>4, <2>1, <3>2, Appended DEF PublishingTyped
      <4>2. Len(revisions) + 1 \in 1..Len(revisions')
        BY <1>1, <4>1
      <4> QED BY <4>1, <4>2
    <3> QED BY <3>1, <3>2
  <2>3. PICK n \in 1..Len(revisions') : n = found /\ revisions'[n] = node
    BY <2>2
  <2>4. /\ revisions' \in Seq(Documents) /\ Len(revisions') >= Len(revisions)
        /\ \A i \in 1..Len(revisions) : revisions'[i] = revisions[i]
    <3>1. CASE revisions' = revisions
      BY <1>1, <3>1 DEF PublishingTyped
    <3>2. CASE revisions' = Append(revisions, node)
      BY <1>1, <2>1, <3>2, Appended DEF PublishingTyped
    <3> QED BY <1>4, <3>1, <3>2
  <2>5. PICK r : r = [scope |-> "apply", key |-> k, digest |-> seen[e], result |-> n]
    OBVIOUS
  <2>6. Means(seen[e], n)'
    BY <1>1, <2>3 DEF Means
  <2>7. r.scope = "apply" /\ r.key = k /\ r.digest = seen[e] /\ r.result = n
    BY <2>5
  <2>8. receipts' = receipts \cup {r}
    BY <1>4, <2>3, <2>5 DEF U!Record
  <2>9. \A q \in receipts : q.scope # r.scope \/ q.key # r.key
    BY <1>4, <2>7 DEF U!Kept
  <2>10. seen[e] = seen'[e]
    BY <1>1
  <2>11. ReceiptHolds(r)'
    BY <2>6, <2>7, <2>10 DEF ReceiptHolds
  <2>12. \E q : /\ receipts' = receipts \cup {q} /\ ReceiptHolds(q)'
                /\ \A p \in receipts : p.scope # q.scope \/ p.key # q.key
    BY <2>8, <2>9, <2>11
  <2> HIDE DEF node, found
  <2> QED BY <1>2, <1>4, <2>3, <2>4, <2>6, <2>12
<1> QED BY <1>3, <1>4 DEF U!Apply

\* Every step of publishing keeps the invariant and what is pinned.
LEMMA PublishingAdvance ==
  ASSUME PublishingInv, U!Next
  PROVE  PublishingStep
<1>1. ASSUME NEW e \in Editors, U!Read(e) PROVE PublishingStep
  BY <1>1, ReadDraft
<1>2. ASSUME NEW e \in Editors, NEW k \in Keys, U!Apply(e, k) PROVE PublishingStep
  BY <1>2, ApplyADraft
<1>3. ASSUME NEW e \in Editors, NEW k \in Keys, NEW d \in Documents, U!UpdateDraft(e, k, d)
      PROVE  PublishingStep
  BY <1>3, UpdateADraft
<1>4. ASSUME \/ \E capability \in U!Capability : U!PublishChannel(capability)
             \/ U!PublishPreset
             \/ \E enabled \in BOOLEAN : U!PublishTool(enabled) \/ U!SetToolEnabled(enabled)
      PROVE  PublishingStep
  BY <1>4, PublishHeads
<1>5. ASSUME NEW r \in Runs,
             \/ \E n \in 1..Len(revisions) : U!StartRun(r, n)
             \/ U!Claim(r) \/ U!Retry(r) \/ U!End(r)
      PROVE  PublishingStep
  BY <1>5, RunsGoOn
<1> QED BY <1>1, <1>2, <1>3, <1>4, <1>5 DEF U!Next

\* Before the first command nothing is applied and nothing is pinned.
LEMMA PublishingBegin ==
  ASSUME U!Init
  PROVE  PublishingInv
<1>1. PICK d \in Documents : drafts = <<d>>
  BY DEF U!Init
<1>2. drafts \in Seq(Documents)
  BY <1>1
<1>3. PublishingTyped
  BY <1>2 DEF U!Init, PublishingTyped
<1> QED BY <1>3 DEF U!Init, PublishingInv
-----------------------------------------------------------------------------
(* SecretStore.  The mutex carries an unlock to the waits it found: while   *)
(* there is a session, a wait is open only between the two, or after an     *)
(* unlock that ended early.                                                 *)
WaitingNode == [status : {"running", "sending", "asking", "waiting", "ready", "failed", "ended"},
                attempts : Nat, delivery : Nat]
SecretsTyped ==
  /\ clock \in Nat /\ installed \in Nat /\ missed \in BOOLEAN
  /\ session \in [id : Nat, expires : Nat]
  /\ mutex \in [op : {"free", "deliver", "open"}, arg : Nat \cup Nodes]
  /\ nodes \in [Nodes -> WaitingNode]
SecretsInv ==
  /\ SecretsTyped
  /\ session.id <= installed
  /\ mutex.op = "deliver" => mutex.arg = session.id
  /\ mutex.op = "open" => session.id = 0
  /\ session.id # 0 /\ ~missed /\ mutex.op # "deliver" => S!Waiting = {}
SecretsStep == SecretsInv' /\ S!SessionDelivers

\* The invariant is what the property asks for, and more.
LEMMA SecretsServed ==
  ASSUME SecretsInv
  PROVE  S!NoForgottenWait
<1>1. mutex = S!Free => mutex.op = "free"
  BY DEF S!Free
<1> QED BY <1>1 DEF SecretsInv, S!NoForgottenWait, S!Live

\* The rows that the steps make of a node's row.
LEMMA WaitingRows ==
  ASSUME NEW node \in WaitingNode
  PROVE  /\ \A status \in {"running", "sending", "asking", "waiting", "ready", "failed", "ended"} :
              /\ [node EXCEPT !.status = status] \in WaitingNode
              /\ [node EXCEPT !.status = status].status = status
              /\ [node EXCEPT !.status = status].delivery = node.delivery
         /\ \A id \in Nat : /\ S!Resumed(node, id) \in WaitingNode
                            /\ S!Resumed(node, id).status = "ready"
                            /\ S!Resumed(node, id).delivery = id
         /\ S!Recovered(node) \in WaitingNode
         /\ S!Recovered(node).status = "waiting" => node.status = "waiting"
         /\ S!Recovered(node).delivery = node.delivery
<1>1. \A status \in {"running", "sending", "asking", "waiting", "ready", "failed", "ended"} :
        /\ [node EXCEPT !.status = status] \in WaitingNode
        /\ [node EXCEPT !.status = status].status = status
        /\ [node EXCEPT !.status = status].delivery = node.delivery
  BY DEF WaitingNode
<1>2. node.attempts \in Nat /\ node.attempts + 1 \in Nat /\ node.delivery \in Nat
  BY DEF WaitingNode
<1>3. ASSUME NEW id \in Nat
      PROVE  /\ S!Resumed(node, id) \in WaitingNode
             /\ S!Resumed(node, id).status = "ready"
             /\ S!Resumed(node, id).delivery = id
  BY <1>2 DEF S!Resumed, WaitingNode
<1> DEFINE again == [node EXCEPT !.status = "ready", !.attempts = @ + 1]
<1>4. again \in WaitingNode /\ again.status = "ready" /\ again.delivery = node.delivery
  BY <1>2 DEF WaitingNode
<1> HIDE DEF again
<1>5. S!Recovered(node) \in {node, again, [node EXCEPT !.status = "failed"]}
  BY DEF S!Recovered, again
<1> QED BY <1>1, <1>3, <1>4, <1>5

\* A node's row changes; the session stays or goes.
LEMMA NodesMove ==
  ASSUME SecretsInv, NEW n \in Nodes, NEW row \in WaitingNode,
         nodes' = [nodes EXCEPT ![n] = row], row.delivery = nodes[n].delivery,
         UNCHANGED <<clock, installed, missed>>,
         session' \in [id : Nat, expires : Nat], session'.id \in {0, session.id},
         mutex' \in [op : {"free", "deliver", "open"}, arg : Nat \cup Nodes],
         mutex'.op = "deliver" => mutex' = mutex /\ session' = session,
         mutex'.op = "open" => session'.id = 0,
         row.status = "waiting" => session.id = 0,
         mutex.op = "deliver" => mutex' = mutex
  PROVE  SecretsStep
<1>1. /\ nodes' \in [Nodes -> WaitingNode] /\ nodes'[n] = row
      /\ \A m \in Nodes : m # n => nodes'[m] = nodes[m]
  BY DEF SecretsInv, SecretsTyped
<1>2. SecretsTyped'
  BY <1>1 DEF SecretsInv, SecretsTyped
<1>3. session'.id <= installed'
  BY DEF SecretsInv, SecretsTyped
<1>4. mutex'.op = "deliver" => mutex'.arg = session'.id
  BY DEF SecretsInv
<1>5. ASSUME session'.id # 0, ~missed', mutex'.op # "deliver" PROVE S!Waiting' = {}
  <2>1. S!Waiting = {}
    BY <1>5 DEF SecretsInv
  <2>2. \A m \in Nodes : nodes'[m].status # "waiting"
    BY <1>1, <1>5, <2>1 DEF S!Waiting
  <2> QED BY <2>2 DEF S!Waiting
<1>6. SecretsInv'
  BY <1>2, <1>3, <1>4, <1>5 DEF SecretsInv
<1>7. S!SessionDelivers
  BY <1>1 DEF S!SessionDelivers
<1> QED BY <1>6, <1>7 DEF SecretsStep

\* A command of the store: a session under a new number, the one there is, or
\* none; the nodes stay as they are.
LEMMA SecretCommands ==
  ASSUME SecretsInv,
         \/ \E k \in UnlockKeys, p \in Passwords : S!Initialize(k, p) \/ S!Unlock(k, p)
         \/ \E r \in S!Submissions, p \in Passwords : S!Replay(r, p)
         \/ \E s \in 0..installed : S!Lock(s) \/ S!PutSecret(s)
         \/ \E s \in 1..installed, old, new \in Passwords : S!ChangePassword(s, old, new)
  PROVE  SecretsStep
<1>1. /\ SecretsTyped /\ installed \in Nat /\ session.id \in Nat /\ S!Expiry \in Nat
      /\ UNCHANGED <<clock, nodes, missed>> /\ mutex = S!Free
  <2>1. SecretsTyped /\ installed \in Nat /\ session.id \in Nat /\ S!Expiry \in Nat
    BY Quantities DEF SecretsInv, SecretsTyped, S!Expiry
  <2>2. ASSUME NEW k, NEW p, S!Initialize(k, p) \/ S!Unlock(k, p) \/ S!Replay(k, p)
        PROVE  UNCHANGED <<clock, nodes, missed>> /\ mutex = S!Free
    BY <2>2 DEF S!Initialize, S!Unlock, S!Replay
  <2>3. ASSUME NEW s, NEW old, NEW new, S!Lock(s) \/ S!PutSecret(s) \/ S!ChangePassword(s, old, new)
        PROVE  UNCHANGED <<clock, nodes, missed>> /\ mutex = S!Free
    BY <2>3 DEF S!Lock, S!PutSecret, S!ChangePassword
  <2> QED BY <2>1, <2>2, <2>3
<1>2. S!Free.op = "free" /\ S!Free \in [op : {"free", "deliver", "open"}, arg : Nat \cup Nodes]
  BY DEF S!Free
<1>3. S!Waiting' = S!Waiting
  BY <1>1 DEF S!Waiting
<1>4. UNCHANGED nodes => \A n \in Nodes : nodes'[n].delivery = nodes[n].delivery
  OBVIOUS
<1>5. ASSUME installed' = installed, session' \in [id : Nat, expires : Nat],
             session'.id \in {0, session.id}, mutex' = S!Free
      PROVE  SecretsStep
  <2>1. SecretsTyped' /\ session'.id <= installed'
    BY <1>1, <1>2, <1>5 DEF SecretsInv, SecretsTyped
  <2>2. session'.id # 0 /\ ~missed' => S!Waiting' = {}
    BY <1>1, <1>2, <1>3, <1>5 DEF SecretsInv
  <2>3. SecretsInv'
    BY <1>2, <1>5, <2>1, <2>2 DEF SecretsInv
  <2> QED BY <1>1, <1>5, <2>3 DEF SecretsStep, S!SessionDelivers
<1>6. ASSUME installed' \in {installed, installed + 1}, session' \in [id : Nat, expires : Nat],
             \/ session'.id = installed' /\ installed' = installed + 1
             \/ session'.id = session.id /\ installed' = installed,
             mutex' = [op |-> "deliver", arg |-> session'.id]
      PROVE  SecretsStep
  <2>1. /\ mutex' \in [op : {"free", "deliver", "open"}, arg : Nat \cup Nodes]
        /\ mutex'.op = "deliver" /\ mutex'.arg = session'.id
    BY <1>6
  <2>2. session'.id <= installed' /\ installed' \in Nat
    BY <1>1, <1>6 DEF SecretsInv
  <2>3. SecretsTyped'
    BY <1>1, <1>6, <2>1, <2>2 DEF SecretsTyped
  <2>4. SecretsInv'
    BY <2>1, <2>2, <2>3 DEF SecretsInv
  <2>5. session'.id # session.id => session'.id > installed
    BY <1>1, <1>6
  <2> QED BY <1>1, <2>4, <2>5 DEF SecretsStep, S!SessionDelivers
<1>7. ASSUME NEW r, NEW p, S!Issue(r, p) PROVE SecretsStep
  <2>1. /\ installed' = installed + 1 /\ session' = [id |-> installed + 1, expires |-> S!Expiry]
        /\ mutex' = [op |-> "deliver", arg |-> installed + 1]
    BY <1>7 DEF S!Issue, S!Issued
  <2>2. installed + 1 \in Nat /\ session' \in [id : Nat, expires : Nat] /\ session'.id = installed + 1
    BY <1>1, <2>1
  <2> QED BY <1>6, <2>1, <2>2
<1>8. S!Used \in [id : Nat, expires : Nat] /\ S!Used.id = session.id
  BY <1>1 DEF SecretsTyped, S!Used
<1>9. S!NoSession \in [id : Nat, expires : Nat] /\ S!NoSession.id = 0
  BY DEF S!NoSession
<1>10. ASSUME NEW k, NEW p, S!Initialize(k, p) \/ S!Unlock(k, p) PROVE SecretsStep
  <2>1. CASE S!Initialize(k, p)
    BY <1>7, <2>1 DEF S!Initialize
  <2>2. CASE S!Unlock(k, p)
    <3>1. CASE p = password
      BY <1>7, <2>2, <3>1 DEF S!Unlock
    <3>2. CASE p # password
      <4>1. UNCHANGED <<session, installed, mutex>>
        BY <2>2, <3>2 DEF S!Unlock
      <4> QED BY <1>1, <1>5, <4>1 DEF SecretsTyped
    <3> QED BY <3>1, <3>2
  <2> QED BY <1>10, <2>1, <2>2
<1>11. ASSUME NEW r, NEW p, S!Replay(r, p) PROVE SecretsStep
  <2>1. session' = S!Used /\ UNCHANGED installed
    BY <1>11 DEF S!Replay
  <2>2. CASE p = unlockReceipts[r].password
    <3>1. mutex' = [op |-> "deliver", arg |-> session.id]
      BY <1>11, <2>2 DEF S!Replay, S!Replays
    <3> QED BY <1>6, <1>8, <2>1, <3>1
  <2>3. CASE p # unlockReceipts[r].password
    <3>1. mutex' = S!Free
      BY <1>11, <2>3 DEF S!Replay
    <3> QED BY <1>5, <1>8, <2>1, <3>1
  <2> QED BY <2>2, <2>3
<1>12. ASSUME NEW s, S!Lock(s) \/ S!PutSecret(s) PROVE SecretsStep
  <2>1. session' \in {S!NoSession, S!Used} /\ UNCHANGED <<installed, mutex>>
    BY <1>12 DEF S!Lock, S!PutSecret
  <2> QED BY <1>1, <1>5, <1>8, <1>9, <2>1
<1>13. ASSUME NEW s, NEW old, NEW new, S!ChangePassword(s, old, new) PROVE SecretsStep
  <2>1. session' = S!Used /\ UNCHANGED <<installed, mutex>>
    BY <1>13 DEF S!ChangePassword
  <2> QED BY <1>1, <1>5, <1>8, <2>1
<1> QED BY <1>10, <1>11, <1>12, <1>13

\* The unlock reaches the waits it found, or ends before.
LEMMA UnlocksDeliver ==
  ASSUME SecretsInv, S!Deliver \/ S!DeliverFails
  PROVE  SecretsStep
<1>1. /\ SecretsTyped /\ mutex' = S!Free /\ mutex.arg = session.id /\ session.id \in Nat
      /\ UNCHANGED <<clock, session, installed>>
  BY DEF SecretsInv, SecretsTyped, S!Deliver, S!DeliverFails
<1>2. S!Free.op = "free" /\ S!Free \in [op : {"free", "deliver", "open"}, arg : Nat \cup Nodes]
  BY DEF S!Free
<1>3. CASE S!Deliver
  <2>1. /\ missed' = FALSE
        /\ nodes' = [n \in Nodes |-> IF n \in S!Waiting THEN S!Resumed(nodes[n], session.id)
                                     ELSE nodes[n]]
    BY <1>1, <1>3 DEF S!Deliver
  <2>2. ASSUME NEW n \in Nodes
        PROVE  /\ nodes'[n] \in WaitingNode /\ nodes'[n].status # "waiting"
               /\ nodes'[n].delivery \in {nodes[n].delivery, session.id}
    <3>1. nodes[n] \in WaitingNode
      BY <1>1 DEF SecretsTyped
    <3>2. /\ S!Resumed(nodes[n], session.id) \in WaitingNode
          /\ S!Resumed(nodes[n], session.id).status = "ready"
          /\ S!Resumed(nodes[n], session.id).delivery = session.id
      BY <1>1, <3>1, WaitingRows
    <3>3. CASE n \in S!Waiting
      BY <2>1, <3>2, <3>3
    <3>4. CASE n \notin S!Waiting
      BY <2>1, <3>1, <3>4 DEF S!Waiting
    <3> QED BY <3>3, <3>4
  <2>3. SecretsTyped'
    <3>1. nodes' \in [Nodes -> WaitingNode]
      BY <2>1, <2>2
    <3> QED BY <1>1, <1>2, <2>1, <3>1 DEF SecretsTyped
  <2>4. S!Waiting' = {}
    BY <2>2 DEF S!Waiting
  <2>5. SecretsInv'
    BY <1>1, <1>2, <2>3, <2>4 DEF SecretsInv
  <2>6. S!SessionDelivers
    BY <1>1, <2>2 DEF S!SessionDelivers
  <2> QED BY <2>5, <2>6 DEF SecretsStep
<1>4. CASE S!DeliverFails
  <2>1. missed' = TRUE /\ UNCHANGED nodes
    BY <1>4 DEF S!DeliverFails
  <2>2. SecretsTyped'
    BY <1>1, <1>2, <2>1 DEF SecretsTyped
  <2>3. SecretsInv'
    BY <1>1, <1>2, <2>1, <2>2 DEF SecretsInv
  <2> QED BY <1>1, <2>1, <2>3 DEF SecretsStep, S!SessionDelivers
<1> QED BY <1>3, <1>4

\* A node's steps: a credential that is handed out, a wait that is opened under
\* the mutex while there is no session.
LEMMA NodesAsk ==
  ASSUME SecretsInv, NEW n \in Nodes,
         \/ S!ResolveRuntime(n) \/ S!FindLocked(n) \/ S!OpenWait(n)
         \/ S!StartAttempt(n) \/ S!CancelRun(n)
  PROVE  SecretsStep
<1>1. /\ SecretsTyped /\ nodes[n] \in WaitingNode /\ session.id \in Nat
      /\ session \in [id : Nat, expires : Nat] /\ S!Expiry \in Nat
      /\ nodes \in [Nodes -> WaitingNode]
      /\ mutex \in [op : {"free", "deliver", "open"}, arg : Nat \cup Nodes]
      /\ UNCHANGED <<clock, installed, missed>>
  BY Quantities DEF SecretsInv, SecretsTyped, S!Expiry, S!ResolveRuntime, S!FindLocked, S!OpenWait,
     S!StartAttempt, S!CancelRun
<1>2. /\ S!Free.op = "free" /\ S!Free \in [op : {"free", "deliver", "open"}, arg : Nat \cup Nodes]
      /\ S!MutexKept(n).op = "open"
      /\ S!MutexKept(n) \in [op : {"free", "deliver", "open"}, arg : Nat \cup Nodes]
  BY DEF S!Free, S!MutexKept
<1>3. /\ S!Used \in [id : Nat, expires : Nat] /\ S!Used.id = session.id
      /\ S!NoSession \in [id : Nat, expires : Nat] /\ S!NoSession.id = 0
  BY <1>1 DEF S!Used, S!NoSession
<1>4. ASSUME NEW status \in {"running", "sending", "asking", "waiting", "ready", "failed", "ended"},
             nodes' = [nodes EXCEPT ![n].status = status],
             session' \in {session, S!Used, S!NoSession},
             mutex' \in {mutex, S!Free, S!MutexKept(n)},
             mutex' = S!MutexKept(n) => session' = S!NoSession \/ mutex' = mutex,
             session' = session \/ mutex = S!Free,
             mutex' = mutex \/ mutex = S!Free \/ mutex = S!MutexKept(n),
             status = "waiting" => mutex = S!MutexKept(n)
      PROVE  SecretsStep
  <2>0. /\ [nodes[n] EXCEPT !.status = status] \in WaitingNode
        /\ [nodes[n] EXCEPT !.status = status].status = status
        /\ [nodes[n] EXCEPT !.status = status].delivery = nodes[n].delivery
    BY <1>1, <1>4 DEF WaitingNode
  <2>1. PICK row \in WaitingNode :
          /\ row = [nodes[n] EXCEPT !.status = status]
          /\ row.status = status /\ row.delivery = nodes[n].delivery
    BY <2>0
  <2>2. nodes' = [nodes EXCEPT ![n] = row]
    BY <1>1, <1>4, <2>1
  <2>3. session' \in [id : Nat, expires : Nat] /\ session'.id \in {0, session.id}
    BY <1>1, <1>3, <1>4
  <2>4. mutex' \in [op : {"free", "deliver", "open"}, arg : Nat \cup Nodes]
    BY <1>1, <1>2, <1>4
  <2>5. mutex'.op = "deliver" => mutex' = mutex /\ session' = session
    BY <1>2, <1>4
  <2>6. mutex'.op = "open" => session'.id = 0
    BY <1>2, <1>3, <1>4 DEF SecretsInv
  <2>7. row.status = "waiting" => session.id = 0
    BY <1>2, <1>4, <2>1 DEF SecretsInv
  <2>8. mutex.op = "deliver" => mutex' = mutex
    BY <1>2, <1>4
  <2> QED BY <1>1, <2>1, <2>2, <2>3, <2>4, <2>5, <2>6, <2>7, <2>8, NodesMove
<1>5. CASE S!ResolveRuntime(n)
  BY <1>4, <1>5 DEF S!ResolveRuntime
<1>6. CASE S!FindLocked(n)
  BY <1>4, <1>6 DEF S!FindLocked
<1>7. CASE S!OpenWait(n)
  <2>1. mutex = S!MutexKept(n) /\ mutex' = S!Free /\ UNCHANGED session
    BY <1>7 DEF S!OpenWait
  <2>2. nodes[n].status \in {"running", "sending", "asking", "waiting", "ready", "failed", "ended"}
    BY <1>1 DEF WaitingNode
  <2>3. CASE nodes[n].status # "asking"
    <3>1. nodes' = [nodes EXCEPT ![n].status = nodes[n].status]
      BY <1>7, <2>3 DEF S!OpenWait
    <3>2. nodes' = nodes
      BY <1>1, <3>1 DEF WaitingNode
    <3>3. nodes' = [nodes EXCEPT ![n] = nodes[n]]
      BY <1>1, <3>2
    <3>4. nodes[n].status = "waiting" => session.id = 0
      BY <1>2, <2>1 DEF SecretsInv
    <3>5. mutex'.op = "free" /\ mutex.op = "open"
      BY <1>2, <2>1
    <3>6. session' \in [id : Nat, expires : Nat] /\ session'.id \in {0, session.id}
      BY <1>1, <2>1
    <3>7. mutex' \in [op : {"free", "deliver", "open"}, arg : Nat \cup Nodes]
      BY <1>2, <2>1
    <3> QED BY <1>1, <3>3, <3>4, <3>5, <3>6, <3>7, NodesMove
  <2>4. CASE nodes[n].status = "asking"
    <3>1. \/ nodes' = [nodes EXCEPT ![n].status = "waiting"]
          \/ nodes' = [nodes EXCEPT ![n].status = "failed"]
      BY <1>7, <2>4 DEF S!OpenWait
    <3> QED BY <1>4, <2>1, <3>1
  <2> QED BY <2>3, <2>4
<1>8. CASE S!StartAttempt(n)
  BY <1>4, <1>8 DEF S!StartAttempt
<1>9. CASE S!CancelRun(n)
  BY <1>4, <1>9 DEF S!CancelRun
<1> QED BY <1>5, <1>6, <1>7, <1>8, <1>9

\* Every step of the store keeps the invariant and delivers lawfully.
LEMMA SecretsAdvance ==
  ASSUME SecretsInv, S!Next
  PROVE  SecretsStep
<1>1. CASE S!Restart
  <2>1. /\ SecretsTyped /\ session' = S!NoSession /\ mutex' = S!Free
        /\ UNCHANGED <<clock, installed, missed>>
        /\ nodes' = [n \in Nodes |-> S!Recovered(nodes[n])]
    BY <1>1 DEF SecretsInv, S!Restart
  <2>2. /\ S!Free.op = "free" /\ S!Free \in [op : {"free", "deliver", "open"}, arg : Nat \cup Nodes]
        /\ S!NoSession.id = 0 /\ S!NoSession \in [id : Nat, expires : Nat]
    BY DEF S!Free, S!NoSession
  <2>3. ASSUME NEW n \in Nodes
        PROVE  nodes'[n] \in WaitingNode /\ nodes'[n].delivery = nodes[n].delivery
    <3>1. nodes[n] \in WaitingNode /\ nodes'[n] = S!Recovered(nodes[n])
      BY <2>1 DEF SecretsTyped
    <3>2. PICK node \in WaitingNode : node = nodes[n]
      BY <3>1
    <3>3. S!Recovered(node) \in WaitingNode /\ S!Recovered(node).delivery = node.delivery
      BY WaitingRows
    <3> QED BY <3>1, <3>2, <3>3
  <2>4. nodes' \in [Nodes -> WaitingNode]
    BY <2>1, <2>3
  <2>5. SecretsTyped'
    BY <2>1, <2>2, <2>4 DEF SecretsTyped
  <2>6. SecretsInv'
    BY <2>1, <2>2, <2>5 DEF SecretsInv, SecretsTyped
  <2> QED BY <2>1, <2>2, <2>3, <2>6 DEF SecretsStep, S!SessionDelivers
<1>2. CASE S!Tick
  <2>1. clock' \in Nat /\ UNCHANGED <<session, installed, mutex, nodes, missed>>
    BY <1>2 DEF SecretsInv, SecretsTyped, S!Tick
  <2>2. SecretsInv'
    BY <2>1 DEF SecretsInv, SecretsTyped, S!Waiting
  <2> QED BY <2>1, <2>2 DEF SecretsStep, S!SessionDelivers
<1>3. S!Commands => SecretsStep
  BY SecretCommands, UnlocksDeliver DEF S!Commands
<1>4. S!Runtime => SecretsStep
  BY NodesAsk DEF S!Runtime
<1> QED BY <1>1, <1>2, <1>3, <1>4 DEF S!Next

\* At first there is no session and nobody waits.
LEMMA SecretsBegin ==
  ASSUME S!Init
  PROVE  SecretsInv
<1>1. nodes \in [Nodes -> WaitingNode] /\ \A n \in Nodes : nodes[n].status = "running"
  BY DEF S!Init, WaitingNode
<1>2. session \in [id : Nat, expires : Nat] /\ session.id = 0
  BY DEF S!Init, S!NoSession
<1>3. mutex \in [op : {"free", "deliver", "open"}, arg : Nat \cup Nodes] /\ mutex.op = "free"
  BY DEF S!Init, S!Free
<1>4. clock \in Nat /\ installed \in Nat /\ missed \in BOOLEAN /\ installed = 0
  BY DEF S!Init
<1>5. SecretsTyped
  BY <1>1, <1>2, <1>3, <1>4 DEF SecretsTyped
<1>6. session.id <= installed /\ S!Waiting = {}
  BY <1>1, <1>2, <1>4 DEF S!Waiting
<1> QED BY <1>2, <1>3, <1>5, <1>6 DEF SecretsInv
-----------------------------------------------------------------------------
(* Memory.  The proposals an open review waits for are there, nobody else's *)
(* and undecided.  That the proposals are a sequence is all the argument    *)
(* asks of their type.                                                      *)
Review == [status : {"none", "open", "resolved", "aborted"}, items : SUBSET Nat]
MemoryTyped ==
  /\ \E T : proposals \in Seq(T)
  /\ reviews \in [Nodes -> Review]
IsOpen(n) == reviews[n].status = "open"
MemoryInv ==
  /\ MemoryTyped
  /\ \A n \in Nodes : IsOpen(n) =>
       \A p \in reviews[n].items : p \in DOMAIN proposals /\ proposals[p].status \in M!Undecided
  /\ \A n, o \in Nodes : IsOpen(n) /\ IsOpen(o) /\ n # o => reviews[n].items \cap reviews[o].items = {}

\* The invariant is what the property asks for, and more.
LEMMA MemoryServed ==
  ASSUME MemoryInv
  PROVE  M!ReviewsStayAnswerable
BY DEF MemoryInv, IsOpen, M!ReviewsStayAnswerable

\* A step that decides nothing an open review waits for, and opens none.
LEMMA ReviewsStand ==
  ASSUME MemoryInv, MemoryTyped',
         \A n \in Nodes : IsOpen(n)' => reviews'[n] = reviews[n],
         DOMAIN proposals \subseteq DOMAIN proposals',
         \A p \in DOMAIN proposals :
           \/ proposals'[p] = proposals[p]
           \/ \A n \in Nodes : IsOpen(n)' => p \notin reviews[n].items
  PROVE  MemoryInv'
<1>1. \A n \in Nodes : IsOpen(n)' => IsOpen(n)
  BY DEF IsOpen
<1>2. ASSUME NEW n \in Nodes, IsOpen(n)', NEW p \in reviews'[n].items
      PROVE  p \in DOMAIN proposals' /\ proposals'[p].status \in M!Undecided
  <2>1. p \in reviews[n].items /\ p \in DOMAIN proposals /\ proposals[p].status \in M!Undecided
    BY <1>1, <1>2 DEF MemoryInv
  <2>2. proposals'[p] = proposals[p]
    BY <1>2, <2>1
  <2> QED BY <2>1, <2>2
<1>3. ASSUME NEW n \in Nodes, NEW o \in Nodes, IsOpen(n)', IsOpen(o)', n # o
      PROVE  reviews'[n].items \cap reviews'[o].items = {}
  BY <1>1, <1>3 DEF MemoryInv
<1>4. M!Undecided' = M!Undecided
  BY DEF M!Undecided
<1> QED BY <1>2, <1>3, <1>4 DEF MemoryInv

\* Proposing adds undecided proposals behind those there are.
LEMMA ProposalsAdded ==
  ASSUME MemoryInv, NEW cs, NEW by, NEW size \in Nat, DOMAIN cs = 1..size, M!Inserts(cs, by)
  PROVE  /\ Len(proposals) \in Nat /\ DOMAIN proposals = 1..Len(proposals)
         /\ \E T : proposals' \in Seq(T)
         /\ DOMAIN proposals' = 1..(Len(proposals) + size)
         /\ \A p \in DOMAIN proposals : proposals'[p] = proposals[p]
         /\ \A p \in (Len(proposals) + 1)..(Len(proposals) + size) :
              proposals'[p].status \in M!Undecided
<1>1. PICK T : proposals \in Seq(T)
  BY DEF MemoryInv, MemoryTyped
<1>2. PICK rows : /\ proposals' = proposals \o rows
                  /\ DOMAIN rows = 1..size
                  /\ rows = [i \in 1..size |-> rows[i]]
                  /\ \A i \in 1..size : rows[i].status \in M!Undecided
  <2> DEFINE target(i) == IF cs[i].change = "create" THEN Len(records) + M!Creates(cs, i)
                          ELSE cs[i].memory
             rows == [i \in DOMAIN cs |-> M!Row(cs[i], target(i), by)]
  <2>1. proposals' = proposals \o rows
    BY DEF M!Inserts
  <2>2. \A i \in 1..size : rows[i].status \in M!Undecided
    BY DEF M!Row, M!Undecided
  <2>3. DOMAIN rows = 1..size /\ rows = [i \in 1..size |-> rows[i]]
    OBVIOUS
  <2> HIDE DEF rows
  <2> QED BY <2>1, <2>2, <2>3
<1> DEFINE R == T \cup {rows[i] : i \in 1..size}
<1>3. rows \in Seq(R) /\ Len(rows) = size
  <2>1. \A i \in 1..size : rows[i] \in R
    OBVIOUS
  <2> HIDE DEF R
  <2>2. [i \in 1..size |-> rows[i]] \in Seq(R) /\ Len([i \in 1..size |-> rows[i]]) = size
    BY <2>1
  <2> QED BY <1>2, <2>2
<1>4. proposals \in Seq(R)
  BY <1>1
<1> HIDE DEF R
<1>5. /\ proposals \o rows \in Seq(R) /\ Len(proposals \o rows) = Len(proposals) + size
      /\ \A p \in 1..Len(proposals) : (proposals \o rows)[p] = proposals[p]
      /\ \A p \in (Len(proposals) + 1)..(Len(proposals) + size) :
           (proposals \o rows)[p] = rows[p - Len(proposals)]
  BY <1>3, <1>4
<1>6. Len(proposals) \in Nat /\ DOMAIN proposals = 1..Len(proposals)
  BY <1>4
<1>7. \A p \in (Len(proposals) + 1)..(Len(proposals) + size) : p - Len(proposals) \in 1..size
  BY <1>6
<1>8. /\ proposals' \in Seq(R) /\ Len(proposals') = Len(proposals) + size
      /\ \A p \in DOMAIN proposals : proposals'[p] = proposals[p]
  BY <1>2, <1>5, <1>6
<1>9. DOMAIN proposals' = 1..(Len(proposals) + size)
  BY <1>8
<1>10. \A p \in (Len(proposals) + 1)..(Len(proposals) + size) : proposals'[p].status \in M!Undecided
  BY <1>2, <1>5, <1>7
<1> QED BY <1>6, <1>8, <1>9, <1>10

\* A proposal of the API, or of the batch that opens a review of its own.
LEMMA MemoryProposes ==
  ASSUME MemoryInv,
         \/ \E k \in {"k"}, c \in M!Commands : M!Propose(k, c)
         \/ \E n \in Nodes, c, d \in M!Commands :
              M!PrepareReview(n, <<c>>) \/ M!PrepareReview(n, <<c, d>>)
  PROVE  MemoryInv'
<1>1. ASSUME NEW k, NEW c, M!Propose(k, c) PROVE MemoryInv'
  <2>1. M!Inserts(<<c>>, None) /\ UNCHANGED reviews
    BY <1>1 DEF M!Propose
  <2>2. DOMAIN <<c>> = 1..1 /\ 1 \in Nat
    OBVIOUS
  <2> DEFINE cs == <<c>>
  <2> HIDE DEF cs
  <2>3. /\ Len(proposals) \in Nat /\ DOMAIN proposals = 1..Len(proposals)
         /\ \E T : proposals' \in Seq(T)
         /\ DOMAIN proposals' = 1..(Len(proposals) + 1)
         /\ \A p \in DOMAIN proposals : proposals'[p] = proposals[p]
    <3>1. DOMAIN cs = 1..1 /\ M!Inserts(cs, None)
      BY <2>1, <2>2 DEF cs
    <3> QED BY <2>2, <3>1, ProposalsAdded
  <2>4. /\ \E T : proposals' \in Seq(T)
        /\ DOMAIN proposals \subseteq DOMAIN proposals'
        /\ \A p \in DOMAIN proposals : proposals'[p] = proposals[p]
    BY <2>3
  <2>5. MemoryTyped'
    BY <2>1, <2>4 DEF MemoryInv, MemoryTyped
  <2> QED BY <2>1, <2>4, <2>5, ReviewsStand
<1>2. ASSUME NEW n \in Nodes, NEW cs, NEW size \in Nat, DOMAIN cs = 1..size, Len(cs) = size,
             M!PrepareReview(n, cs)
      PROVE  MemoryInv'
  <2> DEFINE items == (Len(proposals) + 1)..(Len(proposals) + size)
  <2>1. /\ M!Inserts(cs, n) /\ reviews[n].status = "none"
        /\ reviews' = [reviews EXCEPT ![n] = [status |-> "open", items |-> items]]
    BY <1>2 DEF M!PrepareReview
  <2>2. /\ Len(proposals) \in Nat /\ DOMAIN proposals = 1..Len(proposals)
        /\ \E T : proposals' \in Seq(T)
        /\ DOMAIN proposals' = 1..(Len(proposals) + size)
        /\ \A p \in DOMAIN proposals : proposals'[p] = proposals[p]
        /\ \A p \in items : proposals'[p].status \in M!Undecided
    BY <1>2, <2>1, ProposalsAdded
  <2>3. items \subseteq DOMAIN proposals' /\ items \cap DOMAIN proposals = {} /\ items \subseteq Nat
        /\ DOMAIN proposals \subseteq DOMAIN proposals'
    BY <2>2
  <2> DEFINE row == [status |-> "open", items |-> items]
  <2>4. row \in Review /\ row.status = "open" /\ row.items = items
    BY <2>3 DEF Review
  <2>5. reviews' = [reviews EXCEPT ![n] = row]
    BY <2>1
  <2> HIDE DEF row, items
  <2>6. /\ reviews' \in [Nodes -> Review] /\ reviews'[n] = row
        /\ \A o \in Nodes : o # n => reviews'[o] = reviews[o]
    BY <2>4, <2>5 DEF MemoryInv, MemoryTyped
  <2>7. MemoryTyped'
    BY <2>2, <2>6 DEF MemoryTyped
  <2>8. M!Undecided' = M!Undecided
    BY DEF M!Undecided
  <2>9. ASSUME NEW o \in Nodes, o # n, IsOpen(o)'
        PROVE  /\ IsOpen(o) /\ reviews'[o].items \subseteq DOMAIN proposals
               /\ \A p \in reviews'[o].items : proposals'[p].status \in M!Undecided
    BY <2>2, <2>6, <2>9 DEF MemoryInv, IsOpen
  <2>10. \A o \in Nodes : IsOpen(o)' =>
           \A p \in reviews'[o].items : p \in DOMAIN proposals' /\ proposals'[p].status \in M!Undecided
    BY <2>2, <2>3, <2>4, <2>6, <2>9
  <2>11. ASSUME NEW o \in Nodes, NEW q \in Nodes, IsOpen(o)', IsOpen(q)', o # q
         PROVE  reviews'[o].items \cap reviews'[q].items = {}
    <3>1. CASE o = n
      BY <2>3, <2>4, <2>6, <2>9, <2>11, <3>1
    <3>2. CASE q = n
      BY <2>3, <2>4, <2>6, <2>9, <2>11, <3>2
    <3>3. CASE o # n /\ q # n
      BY <2>6, <2>9, <2>11, <3>3 DEF MemoryInv
    <3> QED BY <3>1, <3>2, <3>3
  <2> QED BY <2>7, <2>8, <2>10, <2>11 DEF MemoryInv
<1>3. ASSUME NEW n \in Nodes, NEW c, NEW d,
             M!PrepareReview(n, <<c>>) \/ M!PrepareReview(n, <<c, d>>)
      PROVE  MemoryInv'
  <2>1. /\ DOMAIN <<c>> = 1..1 /\ Len(<<c>>) = 1
        /\ DOMAIN <<c, d>> = 1..2 /\ Len(<<c, d>>) = 2
    OBVIOUS
  <2> QED BY <1>2, <1>3, <2>1
<1> QED BY <1>1, <1>3

\* Whatever decides a proposal leaves those alone that a review waits for.
LEMMA MemoryDecides ==
  ASSUME MemoryInv, NEW p \in DOMAIN proposals,
         \/ M!Apply(p) \/ M!Conflicted(p)
         \/ \E decision \in M!Decisions : M!Decide(p, decision)
  PROVE  MemoryInv'
<1>1. PICK T : proposals \in Seq(T)
  BY DEF MemoryInv, MemoryTyped
<1>2. UNCHANGED reviews
  BY DEF M!Apply, M!Conflicted, M!Decide
<1>3. \E x : proposals' = [proposals EXCEPT ![p] = x]
  BY DEF M!Apply, M!Conflicted, M!Decide, M!Decided
<1>4. PICK x : proposals' = [proposals EXCEPT ![p] = x]
  BY <1>3
<1>5. proposals \in Seq(T \cup {x})
  BY <1>1
<1>6. /\ proposals' \in Seq(T \cup {x}) /\ DOMAIN proposals' = DOMAIN proposals
      /\ \A q \in DOMAIN proposals : q # p => proposals'[q] = proposals[q]
  BY <1>4, <1>5
<1>7. ASSUME NEW n \in Nodes, IsOpen(n)' PROVE p \notin reviews[n].items
  <2>1. IsOpen(n)
    BY <1>2, <1>7 DEF IsOpen
  <2>2. CASE M!Apply(p) \/ M!Conflicted(p)
    <3>1. proposals[p].status = "approved"
      BY <2>2 DEF M!Apply, M!Conflicted
    <3> QED BY <2>1, <3>1 DEF MemoryInv, M!Undecided
  <2>3. CASE \E decision \in M!Decisions : M!Decide(p, decision)
    BY <2>1, <2>3 DEF M!Decide, M!Decidable, M!UnderReview, IsOpen
  <2> QED BY <2>2, <2>3
<1>8. MemoryTyped'
  BY <1>2, <1>6 DEF MemoryInv, MemoryTyped
<1> QED BY <1>2, <1>6, <1>7, <1>8, ReviewsStand

\* A review ends: answered, which decides its own proposals, or with its run.
LEMMA ReviewsEnd ==
  ASSUME MemoryInv, NEW n \in Nodes,
         \/ \E decisions \in [reviews[n].items -> M!Decisions] : M!AnswerReview(n, decisions)
         \/ M!EndRun(n)
  PROVE  MemoryInv'
<1>1. PICK T : proposals \in Seq(T)
  BY DEF MemoryInv, MemoryTyped
<1>2. PICK status \in {"resolved", "aborted"} :
        reviews[n].status = "open" /\ reviews' = [reviews EXCEPT ![n].status = status]
  BY DEF M!AnswerReview, M!EndRun
<1>3. reviews \in [Nodes -> Review] /\ reviews[n] \in Review
  BY DEF MemoryInv, MemoryTyped
<1>4. PICK row \in Review : row = [reviews[n] EXCEPT !.status = status] /\ row.status # "open"
  BY <1>2, <1>3 DEF Review
<1>5. /\ reviews' \in [Nodes -> Review] /\ reviews'[n].status # "open"
      /\ \A o \in Nodes : o # n => reviews'[o] = reviews[o]
  BY <1>2, <1>3, <1>4
<1>6. ASSUME NEW o \in Nodes, IsOpen(o)'
      PROVE  /\ reviews'[o] = reviews[o]
             /\ reviews[o].items \cap reviews[n].items = {}
  BY <1>2, <1>5, <1>6 DEF MemoryInv, IsOpen
<1>7. /\ \E U1 : proposals' \in Seq(U1)
      /\ DOMAIN proposals' = DOMAIN proposals
      /\ \A p \in DOMAIN proposals : p \notin reviews[n].items => proposals'[p] = proposals[p]
  <2>1. CASE \E decisions \in [reviews[n].items -> M!Decisions] : M!AnswerReview(n, decisions)
    <3>1. PICK decisions :
            proposals' = [p \in DOMAIN proposals |->
              IF p \in reviews[n].items THEN M!Decided(proposals, p, decisions[p])[p]
              ELSE proposals[p]]
      BY <2>1 DEF M!AnswerReview
    <3>2. DOMAIN proposals = 1..Len(proposals) /\ Len(proposals) \in Nat
      BY <1>1
    <3>3. /\ DOMAIN proposals' = 1..Len(proposals)
          /\ proposals' = [p \in 1..Len(proposals) |-> proposals'[p]]
          /\ \A p \in DOMAIN proposals : p \notin reviews[n].items => proposals'[p] = proposals[p]
      BY <3>1, <3>2
    <3>4. proposals' \in Seq({proposals'[p] : p \in 1..Len(proposals)})
      BY <3>2, <3>3
    <3> QED BY <3>2, <3>3, <3>4
  <2>2. CASE M!EndRun(n)
    BY <1>1, <2>2 DEF M!EndRun
  <2> QED BY <2>1, <2>2
<1>8. MemoryTyped'
  BY <1>5, <1>7 DEF MemoryTyped
<1> QED BY <1>6, <1>7, <1>8, ReviewsStand

\* Every step of memory keeps the invariant.
LEMMA MemoryAdvance ==
  ASSUME MemoryInv, M!Next
  PROVE  MemoryInv'
<1>1. M!Callers => MemoryInv'
  BY MemoryProposes, MemoryDecides DEF M!Callers
<1>2. ASSUME NEW n \in Nodes, NEW text, NEW status, M!Search(n, text, status) PROVE MemoryInv'
  <2>1. UNCHANGED <<proposals, reviews>>
    BY <1>2 DEF M!Search
  <2> QED BY <2>1 DEF MemoryInv, MemoryTyped, IsOpen, M!Undecided
<1>3. ASSUME M!LlmNodes PROVE MemoryInv'
  BY <1>2, <1>3, MemoryProposes, ReviewsEnd DEF M!LlmNodes
<1> QED BY <1>1, <1>3 DEF M!Next

\* At first nothing is proposed and no review is open.
LEMMA MemoryBegin ==
  ASSUME M!Init
  PROVE  MemoryInv
<1>1. proposals \in Seq({}) /\ \A n \in Nodes : reviews[n] = [status |-> "none", items |-> {}]
  BY DEF M!Init
<1>2. reviews \in [Nodes -> Review]
  BY DEF M!Init, Review
<1>3. \A n \in Nodes : ~IsOpen(n)
  BY <1>1 DEF IsOpen
<1> QED BY <1>1, <1>2, <1>3 DEF MemoryInv, MemoryTyped
-----------------------------------------------------------------------------
(* Journal.  Every number that was given is an event or the record of one   *)
(* that was compacted; the last event is never compacted, because a         *)
(* checkpoint is followed by the event that says so.  What the client has,  *)
(* what is on the wire and what the server has read, one after the other,   *)
(* leave no event out.                                                      *)
EventKinds == {"critical", "debug", "chunk", "terminal"}
JournalTyped ==
  /\ nextSeq \in Nat
  /\ events \subseteq [seq : 1..(nextSeq - 1), kind : EventKinds]
  /\ chunks \in [Chunks -> Nat]
  /\ checkpoints \subseteq 1..(nextSeq - 2)
  /\ feed \in [open : BOOLEAN, cursor : Nat, page : Seq(Nat)]
  /\ wire \in Seq(Nat)
  /\ last \in Nat

Gone == {c.seq : c \in compactions}
RecordsKept ==
  /\ J!Seqs \cap Gone = {} /\ J!Seqs \cup Gone = 1..(nextSeq - 1)
  /\ \A e, f \in events : e.seq = f.seq => e = f
  /\ nextSeq - 1 \in J!Seqs
  /\ ended => \E e \in events : e.kind = "terminal"
  /\ \A c \in compactions :
       c.kind \in {"debug", "chunk"} /\ c.seq <= c.checkpoint /\ c.checkpoint \in checkpoints
  /\ \A c \in Chunks : chunks[c] # 0 =>
       \E e \in events \cup compactions : e.seq = chunks[c] /\ e.kind = "chunk"

Rising(q) == \A i, j \in DOMAIN q : i < j => q[i] < q[j]
StreamFits ==
  /\ last < nextSeq /\ feed.cursor < nextSeq
  /\ ~feed.open => wire = <<>> /\ feed.page = <<>>
  /\ feed.open => last <= feed.cursor
  /\ Rising(wire) /\ Rising(feed.page)
  /\ \A s \in J!Seqs : s <= last => s \in received
  /\ \A i \in DOMAIN wire : last < wire[i] /\ wire[i] <= feed.cursor
  /\ feed.open =>
       \A s \in J!Seqs : last < s /\ s <= feed.cursor => \E i \in DOMAIN wire : wire[i] = s
  /\ \A i \in DOMAIN feed.page :
       /\ feed.cursor < feed.page[i] /\ feed.page[i] < nextSeq
       /\ \A s \in J!Seqs : feed.cursor < s /\ s < feed.page[i] =>
            \E j \in DOMAIN feed.page : j < i /\ feed.page[j] = s
JournalInv == JournalTyped /\ RecordsKept /\ StreamFits

\* The greatest number of a set is its maximum.
LEMMA GreatestIsMax ==
  ASSUME NEW nums, nums \subseteq Nat, NEW m \in nums, \A x \in nums : x <= m
  PROVE  J!Max(nums) = m
<1>1. m \in Nat /\ \A x \in nums : m >= x
  OBVIOUS
<1>2. PICK k : k = J!Max(nums)
  OBVIOUS
<1>3. k \in nums /\ \A x \in nums : k >= x
  BY <1>1, <1>2 DEF J!Max
<1>4. k \in Nat /\ k >= m /\ m >= k
  BY <1>1, <1>3
<1>5. k = m
  BY <1>1, <1>4
<1> QED BY <1>2, <1>5

\* Some numbers have a least one.
LEMMA LeastNumber ==
  ASSUME NEW nums, nums \subseteq Nat, nums # {}
  PROVE  \E x \in nums : \A y \in nums : x <= y
<1> DEFINE Below == {p \in Nat \X Nat : p[1] < p[2]}
<1>1. PICK x \in nums : \A y \in nums : ~(<<y, x>> \in Below)
  <2>1. IsWellFoundedOn(Below, Nat)
    BY NatLessThanWellFounded, Zenon DEF OpToRel
  <2> HIDE DEF Below
  <2> QED BY <2>1, WFMin
<1>2. ASSUME NEW y \in nums PROVE x <= y
  <2>1. y \in Nat /\ x \in Nat
    OBVIOUS
  <2>2. ~(y < x)
    BY <1>1, <2>1
  <2> HIDE DEF Below
  <2> QED BY <2>1, <2>2
<1> QED BY <1>2

\* A set of numbers below a bound has a greatest, its maximum.
LEMMA CheckpointsHaveLast ==
  ASSUME NEW n \in Nat, NEW nums \in SUBSET (1..n), nums # {}
  PROVE  J!Max(nums) \in nums
<1> DEFINE Bounds == {k \in Nat : \A x \in nums : x <= k}
<1>1. n \in Bounds
  OBVIOUS
<1>2. PICK k \in Bounds : \A j \in Bounds : k <= j
  BY <1>1, LeastNumber
<1>3. k \in nums
  <2> SUFFICES ASSUME k \notin nums PROVE FALSE
    OBVIOUS
  <2>1. \A x \in nums : x <= k /\ x \in Nat /\ x >= 1 /\ x # k
    BY <1>2
  <2>2. k >= 1 /\ k - 1 \in Nat /\ \A x \in nums : x <= k - 1
    <3>1. PICK x \in nums : TRUE
      OBVIOUS
    <3>2. k \in Nat
      BY <1>2
    <3> HIDE DEF Bounds
    <3>3. k >= 1 /\ k - 1 \in Nat
      BY <2>1, <3>1, <3>2
    <3> QED BY <2>1, <3>2, <3>3
  <2>3. k - 1 \in Bounds
    BY <2>2
  <2>4. k <= k - 1
    BY <1>2, <2>3
  <2> QED BY <1>2, <2>4
<1>4. J!Max(nums) = k
  <2>1. nums \subseteq Nat /\ \A x \in nums : x <= k
    BY <1>2
  <2> QED BY <1>3, <2>1, GreatestIsMax
<1> QED BY <1>3, <1>4

\* The numbers of the events are those given so far, and the last is there.
LEMMA EventNumbers ==
  ASSUME JournalTyped, RecordsKept
  PROVE  /\ J!Seqs \subseteq 1..(nextSeq - 1) /\ nextSeq - 1 \in Nat /\ nextSeq - 1 >= 1
         /\ J!Max(J!Seqs) = nextSeq - 1
<1>1. J!Seqs \subseteq 1..(nextSeq - 1) /\ nextSeq - 1 \in J!Seqs
  BY DEF RecordsKept
<1>2. nextSeq - 1 \in Nat /\ nextSeq - 1 >= 1
  BY <1>1 DEF JournalTyped
<1>3. J!Seqs \subseteq Nat /\ \A x \in J!Seqs : x <= nextSeq - 1
  BY <1>1, <1>2
<1> QED BY <1>1, <1>2, <1>3, GreatestIsMax

\* The invariant is what the property asks for, and more.
LEMMA JournalServed ==
  ASSUME JournalInv
  PROVE  J!JournalSurvivesCompaction /\ J!CursorsSkipNothing
<1>1. /\ J!Seqs \subseteq 1..(nextSeq - 1) /\ nextSeq - 1 \in Nat /\ nextSeq - 1 >= 1
      /\ J!Max(J!Seqs) = nextSeq - 1 /\ nextSeq \in Nat
  BY EventNumbers DEF JournalInv, JournalTyped
<1>2. ended \/ J!Consistent(nextSeq - 1)
  BY <1>1 DEF J!Consistent
<1>3. checkpoints # {} => J!Reconciles \/ ended
  <2> SUFFICES ASSUME checkpoints # {}, ~ended
               PROVE  J!Reconciles
    OBVIOUS
  <2>1. PICK latest : latest = J!Max(checkpoints)
    OBVIOUS
  <2>2. checkpoints \subseteq 1..(nextSeq - 2)
    BY DEF JournalInv, JournalTyped
  <2>3. latest \in checkpoints
    <3>1. nextSeq - 2 \in Nat
      BY <1>1
    <3> QED BY <2>1, <2>2, <3>1, CheckpointsHaveLast
  <2>4. latest \in Nat /\ latest < nextSeq - 1
    BY <1>1, <2>2, <2>3
  <2>5. PICK nums : nums = {latest} \cup {e.seq : e \in {f \in events : f.seq > latest}}
    OBVIOUS
  <2>6. nextSeq - 1 \in nums
    <3>1. PICK e \in events : e.seq = nextSeq - 1
      BY DEF JournalInv, RecordsKept, J!Seqs
    <3> QED BY <2>4, <2>5, <3>1
  <2>7. nums \subseteq {latest} \cup J!Seqs
    BY <2>5 DEF J!Seqs
  <2>8. nums \subseteq Nat /\ \A x \in nums : x <= nextSeq - 1
    BY <1>1, <2>4, <2>7
  <2>9. J!Max(nums) = nextSeq - 1
    BY <2>6, <2>8, GreatestIsMax
  <2> QED BY <1>2, <2>1, <2>5, <2>9 DEF J!Reconciles
<1>4. J!JournalSurvivesCompaction
  BY <1>1, <1>2, <1>3 DEF JournalInv, RecordsKept, Gone, J!JournalSurvivesCompaction
<1>5. J!CursorsSkipNothing
  BY DEF JournalInv, StreamFits, J!CursorsSkipNothing
<1> QED BY <1>4, <1>5

\* What was sent stays in order when numbers are added above those given, and
\* when some are taken away.
LEMMA StreamStands ==
  ASSUME JournalTyped, StreamFits, UNCHANGED J!clients,
         nextSeq' \in Nat, nextSeq <= nextSeq', \A s \in J!Seqs' : s \in J!Seqs \/ (s \in Nat /\ s >= nextSeq)
  PROVE  StreamFits'
<1>1. feed' = feed /\ wire' = wire /\ received' = received /\ last' = last
  BY DEF J!clients
<1>2. /\ nextSeq \in Nat /\ last \in Nat /\ feed.cursor \in Nat /\ feed.page \in Seq(Nat)
  BY DEF JournalTyped
<1>3. last < nextSeq /\ feed.cursor < nextSeq /\ \A i \in DOMAIN feed.page : feed.page[i] < nextSeq /\ feed.page[i] \in Nat
  BY <1>2 DEF StreamFits
<1>4. last < nextSeq' /\ feed.cursor < nextSeq' /\ \A i \in DOMAIN feed.page : feed.page[i] < nextSeq'
  BY <1>2, <1>3
<1>5. /\ \A s \in J!Seqs' : s <= last => s \in J!Seqs
      /\ \A s \in J!Seqs' : s <= feed.cursor => s \in J!Seqs
      /\ \A i \in DOMAIN feed.page : \A s \in J!Seqs' : s < feed.page[i] => s \in J!Seqs
  BY <1>2, <1>3
<1> QED BY <1>1, <1>4, <1>5 DEF StreamFits, Rising

\* Events are appended with the numbers that follow, and nothing else moves.
LEMMA AppendedEvents ==
  ASSUME JournalTyped, RecordsKept, NEW kinds \in Seq(EventKinds), kinds # <<>>, J!Appends(kinds),
         UNCHANGED compactions
  PROVE  /\ nextSeq' = nextSeq + Len(kinds) /\ nextSeq' \in Nat /\ nextSeq < nextSeq'
         /\ events \subseteq events' /\ events' \subseteq [seq : 1..(nextSeq' - 1), kind : EventKinds]
         /\ J!Seqs' = J!Seqs \cup nextSeq..(nextSeq' - 1)
         /\ Gone' = Gone /\ J!Seqs' \cap Gone' = {} /\ J!Seqs' \cup Gone' = 1..(nextSeq' - 1)
         /\ nextSeq' - 1 \in J!Seqs'
         /\ \A e, f \in events' : e.seq = f.seq => e = f
         /\ \A i \in DOMAIN kinds : \E e \in events' : e.seq = nextSeq + i - 1 /\ e.kind = kinds[i]
<1>1. /\ nextSeq \in Nat /\ nextSeq - 1 >= 1 /\ nextSeq - 1 \in Nat
      /\ events \subseteq [seq : 1..(nextSeq - 1), kind : EventKinds]
  BY EventNumbers DEF JournalTyped
<1>2. Len(kinds) \in Nat /\ Len(kinds) >= 1 /\ DOMAIN kinds = 1..Len(kinds)
  OBVIOUS
<1>3. nextSeq' = nextSeq + Len(kinds) /\ nextSeq' \in Nat /\ nextSeq < nextSeq'
  BY <1>1, <1>2 DEF J!Appends
<1>4. PICK New : New = {J!Event(nextSeq + i - 1, kinds[i]) : i \in DOMAIN kinds}
  OBVIOUS
<1>5. events' = events \cup New
  BY <1>4 DEF J!Appends
<1>6. \A e \in New : \E i \in 1..Len(kinds) : e.seq = nextSeq + i - 1 /\ e.kind = kinds[i]
                        /\ e = [seq |-> nextSeq + i - 1, kind |-> kinds[i]]
  BY <1>2, <1>4 DEF J!Event
<1>7. \A i \in 1..Len(kinds) : \E e \in New : e.seq = nextSeq + i - 1 /\ e.kind = kinds[i]
  <2> SUFFICES ASSUME NEW i \in 1..Len(kinds)
               PROVE  \E e \in New : e.seq = nextSeq + i - 1 /\ e.kind = kinds[i]
    OBVIOUS
  <2>1. PICK e : e = J!Event(nextSeq + i - 1, kinds[i])
    OBVIOUS
  <2>2. e \in New
    BY <1>2, <1>4, <2>1
  <2>3. e.seq = nextSeq + i - 1 /\ e.kind = kinds[i]
    BY <2>1 DEF J!Event
  <2> QED BY <2>2, <2>3
<1>8. \A e \in New : e \in [seq : 1..(nextSeq' - 1), kind : EventKinds] /\ e.seq >= nextSeq
  <2> SUFFICES ASSUME NEW e \in New
               PROVE  e \in [seq : 1..(nextSeq' - 1), kind : EventKinds] /\ e.seq >= nextSeq
    OBVIOUS
  <2>1. PICK i \in 1..Len(kinds) : e = [seq |-> nextSeq + i - 1, kind |-> kinds[i]]
    BY <1>6
  <2>2. kinds[i] \in EventKinds
    BY <1>2
  <2>3. nextSeq + i - 1 \in 1..(nextSeq' - 1) /\ nextSeq + i - 1 >= nextSeq
    BY <1>1, <1>2, <1>3
  <2> QED BY <2>1, <2>2, <2>3
<1>9. {e.seq : e \in New} = nextSeq..(nextSeq' - 1)
  <2>1. ASSUME NEW s \in nextSeq..(nextSeq' - 1) PROVE s \in {e.seq : e \in New}
    <3>1. s - nextSeq + 1 \in 1..Len(kinds) /\ s = nextSeq + (s - nextSeq + 1) - 1
      BY <1>1, <1>2, <1>3
    <3> QED BY <1>7, <3>1
  <2>2. ASSUME NEW e \in New PROVE e.seq \in nextSeq..(nextSeq' - 1)
    <3>1. PICK i \in 1..Len(kinds) : e.seq = nextSeq + i - 1
      BY <1>6
    <3> QED BY <1>1, <1>2, <1>3, <3>1
  <2> QED BY <2>1, <2>2
<1>10. J!Seqs' = J!Seqs \cup nextSeq..(nextSeq' - 1)
  BY <1>5, <1>9 DEF J!Seqs
<1>11. Gone' = Gone
  BY DEF Gone
<1>12. J!Seqs \cap Gone = {} /\ J!Seqs \cup Gone = 1..(nextSeq - 1)
  BY DEF RecordsKept
<1>13. 1..(nextSeq' - 1) = 1..(nextSeq - 1) \cup nextSeq..(nextSeq' - 1) /\ 1..(nextSeq - 1) \cap nextSeq..(nextSeq' - 1) = {}
  BY <1>1, <1>3
<1>14. events' \subseteq [seq : 1..(nextSeq' - 1), kind : EventKinds]
  <2>1. ASSUME NEW e \in events PROVE e \in [seq : 1..(nextSeq' - 1), kind : EventKinds]
    <3>1. 1..(nextSeq - 1) \subseteq 1..(nextSeq' - 1)
      BY <1>13
    <3>2. e \in [seq : 1..(nextSeq - 1), kind : EventKinds]
      BY <1>1
    <3> QED BY <3>1, <3>2
  <2> QED BY <2>1, <1>5, <1>8
<1>15. \A e, f \in events' : e.seq = f.seq => e = f
  <2>1. \A e, f \in events : e.seq = f.seq => e = f
    BY DEF RecordsKept
  <2>2. \A e \in events, f \in New : e.seq # f.seq
    <3> SUFFICES ASSUME NEW e \in events, NEW f \in New, e.seq = f.seq PROVE FALSE
      OBVIOUS
    <3>1. e.seq \in 1..(nextSeq - 1)
      BY <1>1
    <3>2. f.seq >= nextSeq
      BY <1>8
    <3> QED BY <1>1, <3>1, <3>2
  <2>3. \A e, f \in New : e.seq = f.seq => e = f
    <3> SUFFICES ASSUME NEW e \in New, NEW f \in New, e.seq = f.seq PROVE e = f
      OBVIOUS
    <3>1. PICK i \in 1..Len(kinds) : e.seq = nextSeq + i - 1 /\ e = [seq |-> nextSeq + i - 1, kind |-> kinds[i]]
      BY <1>6
    <3>2. PICK j \in 1..Len(kinds) : f.seq = nextSeq + j - 1 /\ f = [seq |-> nextSeq + j - 1, kind |-> kinds[j]]
      BY <1>6
    <3>3. nextSeq + i - 1 = nextSeq + j - 1
      BY <3>1, <3>2
    <3>4. i = j
      BY <1>1, <1>2, <3>3
    <3> QED BY <3>1, <3>2, <3>4
  <2> QED BY <1>5, <2>1, <2>2, <2>3
<1>16. nextSeq' - 1 \in nextSeq..(nextSeq' - 1)
  BY <1>1, <1>3
<1>17. \A i \in DOMAIN kinds : \E e \in events' : e.seq = nextSeq + i - 1 /\ e.kind = kinds[i]
  BY <1>2, <1>5, <1>7
<1> QED BY <1>3, <1>5, <1>10, <1>11, <1>12, <1>13, <1>14, <1>15, <1>16, <1>17

\* Whatever appends events keeps the invariant, if it sees to the run's end, to
\* its chunk and to its checkpoint.
LEMMA AppendKeeps ==
  ASSUME JournalInv, NEW kinds \in Seq(EventKinds), kinds # <<>>, J!Appends(kinds),
         UNCHANGED compactions, UNCHANGED J!clients,
         ended' => ended \/ \E i \in DOMAIN kinds : kinds[i] = "terminal",
         chunks' \in [Chunks -> Nat],
         \A c \in Chunks : chunks'[c] = chunks[c] \/ (chunks'[c] = nextSeq /\ kinds[1] = "chunk"),
         checkpoints \subseteq checkpoints', checkpoints' \subseteq checkpoints \cup {nextSeq - 1}
  PROVE  JournalInv'
<1>1. /\ nextSeq' = nextSeq + Len(kinds) /\ nextSeq' \in Nat /\ nextSeq < nextSeq'
      /\ events \subseteq events' /\ events' \subseteq [seq : 1..(nextSeq' - 1), kind : EventKinds]
      /\ J!Seqs' = J!Seqs \cup nextSeq..(nextSeq' - 1)
      /\ Gone' = Gone /\ J!Seqs' \cap Gone' = {} /\ J!Seqs' \cup Gone' = 1..(nextSeq' - 1)
      /\ nextSeq' - 1 \in J!Seqs'
      /\ \A e, f \in events' : e.seq = f.seq => e = f
      /\ \A i \in DOMAIN kinds : \E e \in events' : e.seq = nextSeq + i - 1 /\ e.kind = kinds[i]
  BY AppendedEvents DEF JournalInv
<1>2. /\ nextSeq \in Nat /\ checkpoints \subseteq 1..(nextSeq - 2) /\ chunks \in [Chunks -> Nat]
      /\ nextSeq - 1 >= 1 /\ J!Seqs \subseteq 1..(nextSeq - 1)
  BY EventNumbers DEF JournalInv, JournalTyped
<1>3. checkpoints' \subseteq 1..(nextSeq' - 2)
  <2>1. 1..(nextSeq - 2) \subseteq 1..(nextSeq' - 2) /\ nextSeq - 1 \in 1..(nextSeq' - 2)
    BY <1>1, <1>2
  <2> QED BY <1>2, <2>1
<1>4. feed' = feed /\ wire' = wire /\ last' = last
  BY DEF J!clients
<1>5. JournalTyped'
  BY <1>1, <1>3, <1>4 DEF JournalInv, JournalTyped
<1>6. ended' => \E e \in events' : e.kind = "terminal"
  <2>1. CASE ended
    BY <1>1, <2>1 DEF JournalInv, RecordsKept
  <2>2. CASE \E i \in DOMAIN kinds : kinds[i] = "terminal"
    BY <1>1, <2>2
  <2> QED BY <2>1, <2>2
<1>7. \A c \in Chunks : chunks'[c] # 0 =>
        \E e \in events' \cup compactions' : e.seq = chunks'[c] /\ e.kind = "chunk"
  <2> SUFFICES ASSUME NEW c \in Chunks, chunks'[c] # 0
               PROVE  \E e \in events' \cup compactions' : e.seq = chunks'[c] /\ e.kind = "chunk"
    OBVIOUS
  <2>1. CASE chunks'[c] = chunks[c]
    BY <1>1, <2>1 DEF JournalInv, RecordsKept
  <2>2. CASE chunks'[c] = nextSeq /\ kinds[1] = "chunk"
    <3>1. 1 \in DOMAIN kinds
      OBVIOUS
    <3>2. PICK e \in events' : e.seq = nextSeq + 1 - 1 /\ e.kind = "chunk"
      BY <1>1, <2>2, <3>1
    <3> QED BY <1>2, <2>2, <3>2
  <2> QED BY <2>1, <2>2
<1>8. \A c \in compactions' :
        c.kind \in {"debug", "chunk"} /\ c.seq <= c.checkpoint /\ c.checkpoint \in checkpoints'
  BY DEF JournalInv, RecordsKept
<1>9. RecordsKept'
  BY <1>1, <1>6, <1>7, <1>8 DEF RecordsKept
<1>10. \A s \in J!Seqs' : s \in J!Seqs \/ (s \in Nat /\ s >= nextSeq)
  BY <1>1, <1>2
<1>11. StreamFits'
  BY <1>1, <1>2, <1>10, StreamStands DEF JournalInv
<1> QED BY <1>5, <1>9, <1>11 DEF JournalInv

\* A transaction of the run.
LEMMA CommitKeeps ==
  ASSUME JournalInv, NEW kinds \in J!Batches, J!Commit(kinds)
  PROVE  JournalInv'
<1>1. kinds \in Seq(EventKinds) /\ kinds # <<>>
  <2>1. /\ <<"critical">> \in Seq(EventKinds) /\ <<"debug">> \in Seq(EventKinds)
        /\ <<"terminal">> \in Seq(EventKinds)
    BY DEF EventKinds
  <2>2. <<"debug", "terminal">> \in Seq(EventKinds)
    BY DEF EventKinds
  <2>3. \/ kinds = <<"critical">> \/ kinds = <<"debug">>
        \/ kinds = <<"debug", "terminal">> \/ kinds = <<"terminal">>
    BY DEF J!Batches
  <2>4. kinds \in Seq(EventKinds)
    BY <2>1, <2>2, <2>3
  <2>5. kinds # <<>>
    BY <2>3
  <2> QED BY <2>4, <2>5
<1>2. /\ J!Appends(kinds) /\ UNCHANGED <<chunks, checkpoints, compactions>> /\ UNCHANGED J!clients
      /\ ended' = (ended \/ "terminal" \in {kinds[i] : i \in DOMAIN kinds})
  BY DEF J!Commit, J!clients
<1>3. chunks' \in [Chunks -> Nat]
  BY <1>2 DEF JournalInv, JournalTyped
<1>4. ended' => ended \/ \E i \in DOMAIN kinds : kinds[i] = "terminal"
  BY <1>2
<1> QED BY <1>1, <1>2, <1>3, <1>4, AppendKeeps

\* A chunk of the stream is persisted.
LEMMA ChunkKeeps ==
  ASSUME JournalInv, NEW c \in Chunks, J!PersistChunk(c)
  PROVE  JournalInv'
<1>1. <<"chunk">> \in Seq(EventKinds) /\ <<"chunk">> # <<>> /\ <<"chunk">>[1] = "chunk"
  BY DEF EventKinds
<1>2. /\ J!Appends(<<"chunk">>) /\ UNCHANGED <<ended, checkpoints, compactions>> /\ UNCHANGED J!clients
      /\ chunks' = [chunks EXCEPT ![c] = nextSeq]
  BY DEF J!PersistChunk, J!clients
<1>3. chunks \in [Chunks -> Nat] /\ nextSeq \in Nat
  BY DEF JournalInv, JournalTyped
<1>4. chunks' \in [Chunks -> Nat] /\ \A d \in Chunks : chunks'[d] = chunks[d] \/ chunks'[d] = nextSeq
  BY <1>2, <1>3
<1> QED BY <1>1, <1>2, <1>4, AppendKeeps

\* A checkpoint covers the events there are, and is followed by one.
LEMMA CheckpointKeeps ==
  ASSUME JournalInv, J!TakeCheckpoint
  PROVE  JournalInv'
<1>1. <<"critical">> \in Seq(EventKinds) /\ <<"critical">> # <<>>
  BY DEF EventKinds
<1>2. /\ J!Appends(<<"critical">>) /\ UNCHANGED <<ended, chunks, compactions>> /\ UNCHANGED J!clients
      /\ checkpoints' = checkpoints \cup {J!Max(J!Seqs)}
  BY DEF J!TakeCheckpoint, J!clients
<1>3. J!Max(J!Seqs) = nextSeq - 1 /\ chunks \in [Chunks -> Nat]
  BY EventNumbers DEF JournalInv, JournalTyped
<1> QED BY <1>1, <1>2, <1>3, AppendKeeps

\* Events that a checkpoint covers leave a record behind.
LEMMA CompactKeeps ==
  ASSUME JournalInv, NEW through \in checkpoints, NEW limit, J!Compact(through, limit)
  PROVE  JournalInv'
<1>1. PICK nums : /\ nums \subseteq J!Compactable(through)
               /\ events' = events \ nums
               /\ compactions' = compactions \cup
                    {[seq |-> e.seq, kind |-> e.kind, checkpoint |-> through] : e \in nums}
  BY DEF J!Compact
<1>2. UNCHANGED <<nextSeq, ended, chunks, checkpoints>> /\ UNCHANGED J!clients
  BY DEF J!Compact, J!clients
<1>3. \A e \in nums : e \in events /\ e.seq <= through /\ e.kind \in {"debug", "chunk"}
  BY <1>1 DEF J!Compactable
<1>4. /\ nextSeq \in Nat /\ checkpoints \subseteq 1..(nextSeq - 2) /\ nextSeq - 1 >= 1
      /\ through \in Nat /\ through < nextSeq - 1
      /\ J!Seqs \cap Gone = {} /\ J!Seqs \cup Gone = 1..(nextSeq - 1)
      /\ \A e, f \in events : e.seq = f.seq => e = f
  <2>1. nextSeq \in Nat /\ checkpoints \subseteq 1..(nextSeq - 2) /\ nextSeq - 1 >= 1
    BY EventNumbers DEF JournalInv, JournalTyped
  <2> QED BY <2>1 DEF JournalInv, RecordsKept
<1>5. PICK T : T = {e.seq : e \in nums}
  OBVIOUS
<1>6. Gone' = Gone \cup T
  <2>1. ASSUME NEW s \in Gone' PROVE s \in Gone \cup T
    BY <1>1, <1>5, <2>1 DEF Gone
  <2>2. ASSUME NEW s \in T PROVE s \in Gone'
    <3>1. PICK e \in nums : s = e.seq
      BY <1>5
    <3>2. PICK r : r = [seq |-> e.seq, kind |-> e.kind, checkpoint |-> through]
      OBVIOUS
    <3>3. r \in compactions' /\ r.seq = s
      BY <1>1, <3>1, <3>2
    <3> QED BY <3>3 DEF Gone
  <2>3. Gone \subseteq Gone'
    BY <1>1 DEF Gone
  <2> QED BY <2>1, <2>2, <2>3
<1>7. J!Seqs' = J!Seqs \ T
  <2>1. ASSUME NEW s \in J!Seqs' PROVE s \in J!Seqs /\ s \notin T
    <3>1. PICK e \in events : e \notin nums /\ e.seq = s
      BY <1>1, <2>1 DEF J!Seqs
    <3>2. \A f \in nums : f.seq # s
      BY <1>3, <1>4, <3>1
    <3> QED BY <1>5, <3>1, <3>2 DEF J!Seqs
  <2>2. ASSUME NEW s \in J!Seqs, s \notin T PROVE s \in J!Seqs'
    BY <1>1, <1>5, <2>2 DEF J!Seqs
  <2> QED BY <2>1, <2>2
<1>8. T \subseteq J!Seqs /\ \A s \in T : s <= through
  BY <1>3, <1>5 DEF J!Seqs
<1>9. J!Seqs' \cap Gone' = {} /\ J!Seqs' \cup Gone' = 1..(nextSeq - 1) /\ nextSeq - 1 \in J!Seqs'
  <2>1. nextSeq - 1 \in J!Seqs /\ nextSeq - 1 \notin T
    <3>1. nextSeq - 1 \in J!Seqs
      BY DEF JournalInv, RecordsKept
    <3>2. ~(nextSeq - 1 <= through)
      BY <1>4
    <3> QED BY <1>8, <3>1, <3>2
  <2> QED BY <1>4, <1>6, <1>7, <1>8, <2>1
<1>10. JournalTyped'
  BY <1>1, <1>2 DEF JournalInv, JournalTyped, J!clients
<1>11. ended' => \E e \in events' : e.kind = "terminal"
  BY <1>1, <1>2, <1>3 DEF JournalInv, RecordsKept
<1>12. \A c \in compactions' :
         c.kind \in {"debug", "chunk"} /\ c.seq <= c.checkpoint /\ c.checkpoint \in checkpoints'
  <2> SUFFICES ASSUME NEW c \in compactions'
               PROVE  c.kind \in {"debug", "chunk"} /\ c.seq <= c.checkpoint /\ c.checkpoint \in checkpoints'
    OBVIOUS
  <2>1. CASE c \in compactions
    BY <1>2, <2>1 DEF JournalInv, RecordsKept
  <2>2. CASE \E e \in nums : c = [seq |-> e.seq, kind |-> e.kind, checkpoint |-> through]
    <3>1. PICK e \in nums : c = [seq |-> e.seq, kind |-> e.kind, checkpoint |-> through]
      BY <2>2
    <3>2. c.kind = e.kind /\ c.seq = e.seq /\ c.checkpoint = through
      BY <3>1
    <3> QED BY <1>2, <1>3, <3>2
  <2> QED BY <1>1, <2>1, <2>2
<1>13. \A c \in Chunks : chunks'[c] # 0 =>
         \E e \in events' \cup compactions' : e.seq = chunks'[c] /\ e.kind = "chunk"
  <2> SUFFICES ASSUME NEW c \in Chunks, chunks[c] # 0
               PROVE  \E e \in events' \cup compactions' : e.seq = chunks[c] /\ e.kind = "chunk"
    BY <1>2
  <2>1. PICK e \in events \cup compactions : e.seq = chunks[c] /\ e.kind = "chunk"
    BY DEF JournalInv, RecordsKept
  <2>2. CASE e \in nums
    <3>1. PICK r : r = [seq |-> e.seq, kind |-> e.kind, checkpoint |-> through]
      OBVIOUS
    <3>2. r \in compactions' /\ r.seq = e.seq /\ r.kind = e.kind
      BY <1>1, <2>2, <3>1
    <3> QED BY <2>1, <3>2
  <2>3. CASE e \notin nums
    BY <1>1, <2>1, <2>3
  <2> QED BY <2>2, <2>3
<1>14. RecordsKept'
  <2>1. \A e, f \in events' : e.seq = f.seq => e = f
    BY <1>1, <1>4
  <2> QED BY <1>2, <1>9, <1>11, <1>12, <1>13, <2>1 DEF RecordsKept
<1>15. StreamFits'
  <2>1. nextSeq' \in Nat /\ nextSeq <= nextSeq' /\ \A s \in J!Seqs' : s \in J!Seqs
    BY <1>2, <1>4, <1>7
  <2> QED BY <1>2, <2>1, StreamStands DEF JournalInv
<1> QED BY <1>10, <1>14, <1>15 DEF JournalInv

\* The size of a set is the same to a client of the journal.
LEMMA SizesAgree == \A nums : J!Cardinality(nums) = Cardinality(nums)
BY DEF J!Cardinality, Cardinality

\* The rank of a member is a number, and grows with it.
LEMMA RanksGrow ==
  ASSUME NEW nums, nums \subseteq Nat, IsFiniteSet(nums), NEW s \in nums, NEW t \in nums, s < t
  PROVE  /\ J!Cardinality({x \in nums : x < s}) \in Nat /\ J!Cardinality({x \in nums : x < t}) \in Nat
         /\ J!Cardinality({x \in nums : x < s}) < J!Cardinality({x \in nums : x < t})
         /\ J!Cardinality({x \in nums : x < t}) < J!Cardinality(nums)
<1> DEFINE Under(u) == {x \in nums : x < u}
<1>1. s \in Nat /\ t \in Nat
  OBVIOUS
<1>2. /\ Under(s) \subseteq nums /\ Under(t) \subseteq nums /\ s \in Under(t)
      /\ s \notin Under(s) /\ t \notin Under(t)
  BY <1>1
<1>7. Under(s) \subseteq Under(t)
  <2> SUFFICES ASSUME NEW x \in nums, x < s PROVE x < t
    OBVIOUS
  <2>1. x \in Nat
    OBVIOUS
  <2> QED BY <1>1, <2>1
<1> HIDE DEF Under
<1>3. IsFiniteSet(Under(s)) /\ IsFiniteSet(Under(t))
  BY <1>2, FS_Subset
<1>4. /\ Cardinality(Under(s)) \in Nat /\ Cardinality(Under(t)) \in Nat /\ Cardinality(nums) \in Nat
  BY <1>3, FS_CardinalityType
<1>5. Cardinality(Under(s)) < Cardinality(Under(t))
  BY <1>2, <1>3, <1>4, <1>7, FS_Subset
<1>6. Cardinality(Under(t)) < Cardinality(nums)
  BY <1>2, <1>3, <1>4, FS_Subset
<1> QED BY <1>4, <1>5, <1>6, SizesAgree DEF Under

\* Each rank below the size of a finite set of numbers is that of a member.
LEMMA RanksAreTaken ==
  ASSUME NEW nums, nums \subseteq Nat, IsFiniteSet(nums), NEW i \in 1..J!Cardinality(nums)
  PROVE  \E s \in nums : J!Cardinality({x \in nums : x < s}) = i - 1
<1> DEFINE Under(u) == {x \in nums : x < u}
           Ranked(k) == \E s \in nums : Cardinality(Under(s)) = k - 1
           Missing == {k \in 1..Cardinality(nums) : ~Ranked(k)}
<1> SUFFICES ASSUME Missing # {} PROVE FALSE
  BY SizesAgree DEF Missing
<1>1. Cardinality(nums) \in Nat /\ Missing \subseteq Nat
  BY FS_CardinalityType
<1>2. PICK k \in Missing : \A j \in Missing : k <= j
  BY <1>1, LeastNumber
<1>3. k \in 1..Cardinality(nums) /\ ~Ranked(k) /\ \A j \in 1..Cardinality(nums) : j < k => Ranked(j)
  <2>1. ASSUME NEW j \in 1..Cardinality(nums), j < k PROVE Ranked(j)
    <3> SUFFICES ASSUME ~Ranked(j) PROVE FALSE
      OBVIOUS
    <3>1. j \in Missing
      OBVIOUS
    <3> HIDE DEF Missing, Ranked
    <3>2. k <= j /\ k \in Nat /\ j \in Nat
      BY <1>1, <1>2, <3>1
    <3> QED BY <2>1, <3>2
  <2> HIDE DEF Ranked
  <2> QED BY <2>1, <1>2
<1>4. PICK D \in SUBSET nums : Cardinality(D) = k - 1 /\ D # nums /\ \A x \in D : \A y \in nums : y < x => y \in D
  <2>1. CASE k = 1
    <3>1. Cardinality({}) = 0 /\ nums # {}
      BY <1>1, <1>3, FS_EmptySet
    <3> QED BY <2>1, <3>1
  <2>2. CASE k # 1
    <3>1. k - 1 \in 1..Cardinality(nums) /\ k - 1 < k
      BY <1>1, <1>3, <2>2
    <3>2. PICK s \in nums : Cardinality(Under(s)) = (k - 1) - 1
      BY <1>3, <3>1
    <3>3. PICK D : D = Under(s) \cup {s}
      OBVIOUS
    <3>4. s \notin Under(s) /\ Under(s) \subseteq nums
      OBVIOUS
    <3>5. IsFiniteSet(Under(s))
      BY <3>4, FS_Subset
    <3> HIDE DEF Under
    <3>6. Cardinality(D) = Cardinality(Under(s)) + 1
      BY <3>3, <3>4, <3>5, FS_AddElement
    <3>7. Cardinality(D) = k - 1
      BY <1>1, <1>3, <3>2, <3>6
    <3>8. D # nums
      BY <1>1, <1>3, <3>7
    <3>9. \A x \in D : \A y \in nums : y < x => y \in D
      <4> SUFFICES ASSUME NEW x \in D, NEW y \in nums, y < x PROVE y \in D
        OBVIOUS
      <4>1. x \in Nat /\ y \in Nat /\ s \in Nat /\ x <= s
        BY <3>3 DEF Under
      <4>2. y < s
        BY <4>1
      <4> QED BY <3>3, <4>2 DEF Under
    <3> QED BY <3>3, <3>4, <3>7, <3>8, <3>9
  <2> QED BY <2>1, <2>2
<1>5. nums \ D # {} /\ nums \ D \subseteq Nat
  BY <1>4
<1>6. PICK u \in nums \ D : \A y \in nums \ D : u <= y
  BY <1>5, LeastNumber
<1>7. Under(u) = D
  <2>1. ASSUME NEW y \in D PROVE y \in Under(u)
    <3>1. y \in nums /\ y \in Nat /\ u \in Nat /\ u \notin D /\ u \in nums
      BY <1>4, <1>6
    <3>2. ~(u < y)
      BY <1>4, <3>1
    <3> QED BY <3>1, <3>2
  <2>2. ASSUME NEW y \in Under(u) PROVE y \in D
    <3>1. y \in nums /\ y < u /\ y \in Nat /\ u \in Nat
      BY <1>6
    <3> QED BY <1>6, <3>1
  <2> QED BY <2>1, <2>2
<1> QED BY <1>3, <1>4, <1>6, <1>7

\* A page is the next events after the cursor, in order, without a gap.
LEMMA PageIsNext ==
  ASSUME JournalTyped, RecordsKept, NEW cursor \in Nat
  PROVE  /\ J!Page(cursor) \in Seq(Nat) /\ Rising(J!Page(cursor))
         /\ \A i \in DOMAIN J!Page(cursor) :
              /\ J!Page(cursor)[i] \in J!Seqs /\ cursor < J!Page(cursor)[i]
              /\ \A s \in J!Seqs : cursor < s /\ s < J!Page(cursor)[i] =>
                   \E j \in DOMAIN J!Page(cursor) : j < i /\ J!Page(cursor)[j] = s
<1> DEFINE after == {s \in J!Seqs : s > cursor}
           page == {s \in after : J!Cardinality({t \in after : t < s}) < PageSize}
           rank(s) == J!Cardinality({t \in page : t < s})
<1>1. J!Seqs \subseteq Nat /\ IsFiniteSet(J!Seqs)
  <2>1. J!Seqs \subseteq 1..(nextSeq - 1) /\ nextSeq - 1 \in Nat
    BY EventNumbers
  <2>2. IsFiniteSet(1..(nextSeq - 1))
    BY <2>1, FS_Interval
  <2>3. J!Seqs \in SUBSET (1..(nextSeq - 1)) /\ J!Seqs \subseteq Nat
    BY <2>1
  <2> QED BY <2>2, <2>3, FS_Subset
<1>2. after \subseteq J!Seqs /\ IsFiniteSet(after) /\ after \subseteq Nat
  <2>1. after \subseteq J!Seqs
    OBVIOUS
  <2> HIDE DEF after
  <2> QED BY <1>1, <2>1, FS_Subset
<1>3. page \subseteq after /\ IsFiniteSet(page) /\ page \subseteq Nat
  <2>1. page \subseteq after
    OBVIOUS
  <2> HIDE DEF after, page
  <2> QED BY <1>2, <2>1, FS_Subset
<1>4. PICK read : read = J!Page(cursor)
  OBVIOUS
<1>5. read = [i \in 1..J!Cardinality(page) |-> CHOOSE s \in page : rank(s) = i - 1]
  BY <1>4, Zenon DEF J!Page
<1>6. J!Cardinality(page) \in Nat
  BY <1>3, FS_CardinalityType, SizesAgree
<1>7. /\ \A i \in 1..J!Cardinality(page) : \E s \in page : rank(s) = i - 1
      /\ \A s, t \in page : s < t => rank(s) < rank(t)
      /\ \A s \in page : rank(s) \in Nat /\ rank(s) < J!Cardinality(page)
  <2> HIDE DEF page
  <2>1. \A i \in 1..J!Cardinality(page) : \E s \in page : rank(s) = i - 1
    BY <1>3, RanksAreTaken
  <2>2. \A s, t \in page : s < t => rank(s) < rank(t)
    BY <1>3, RanksGrow
  <2>3. ASSUME NEW s \in page PROVE rank(s) \in Nat /\ rank(s) < J!Cardinality(page)
    <3>1. {t \in page : t < s} \subseteq page /\ s \in Nat
      BY <1>3
    <3>2. s \notin {t \in page : t < s}
      BY <3>1
    <3>3. IsFiniteSet({t \in page : t < s})
      BY <1>3, <3>1, FS_Subset
    <3>4. rank(s) \in Nat
      BY <3>3, FS_CardinalityType, SizesAgree
    <3>5. rank(s) <= J!Cardinality(page) /\ rank(s) # J!Cardinality(page)
      BY <1>3, <3>1, <3>2, FS_Subset, SizesAgree
    <3> QED BY <1>6, <3>4, <3>5
  <2> QED BY <2>1, <2>2, <2>3
<1>8. \A s \in after : \A t \in page : s < t => s \in page
  <2> SUFFICES ASSUME NEW s \in after, NEW t \in page, s < t PROVE s \in page
    OBVIOUS
  <2>1. PICK m, n : m = J!Cardinality({x \in after : x < s}) /\ n = J!Cardinality({x \in after : x < t})
    OBVIOUS
  <2>2. m \in Nat /\ n \in Nat /\ m < n
    <3>1. t \in after
      BY <1>3
    <3> HIDE DEF after, page
    <3> QED BY <1>2, <2>1, <3>1, RanksGrow
  <2>3. n < PageSize
    BY <2>1
  <2>4. m < PageSize
    BY <2>2, <2>3, Quantities DEF Quantities
  <2> QED BY <2>1, <2>4
<1>9. \A s \in after : s \in J!Seqs /\ cursor < s
  BY <1>1
<1> HIDE DEF after, page, rank
<1>10. DOMAIN read = 1..J!Cardinality(page) /\ \A i \in DOMAIN read : read[i] \in page /\ rank(read[i]) = i - 1
  <2>1. DOMAIN read = 1..J!Cardinality(page)
    BY <1>5
  <2>2. ASSUME NEW i \in DOMAIN read PROVE read[i] \in page /\ rank(read[i]) = i - 1
    <3>1. read[i] = CHOOSE s \in page : rank(s) = i - 1
      BY <1>5, <2>1
    <3> QED BY <1>7, <2>1, <3>1
  <2> QED BY <2>1, <2>2
<1>11. read \in Seq(Nat)
  <2>1. \A i \in 1..J!Cardinality(page) : read[i] \in Nat
    BY <1>3, <1>10
  <2>2. read \in [1..J!Cardinality(page) -> Nat]
    BY <1>5, <2>1
  <2> QED BY <1>6, <2>2
<1>12. \A s, t \in page : rank(s) < rank(t) => s < t
  <2> SUFFICES ASSUME NEW s \in page, NEW t \in page, rank(s) < rank(t), ~(s < t) PROVE FALSE
    OBVIOUS
  <2>1. s \in Nat /\ t \in Nat /\ rank(s) \in Nat /\ rank(t) \in Nat
    BY <1>3, <1>7
  <2>2. CASE s = t
    BY <2>1, <2>2
  <2>3. CASE t < s
    BY <1>7, <2>1, <2>3
  <2> QED BY <2>1, <2>2, <2>3
<1>13. Rising(read)
  <2> SUFFICES ASSUME NEW i \in DOMAIN read, NEW j \in DOMAIN read, i < j PROVE read[i] < read[j]
    BY DEF Rising
  <2>1. i - 1 < j - 1
    BY <1>6, <1>10
  <2> QED BY <1>10, <1>12, <2>1
<1>14. ASSUME NEW i \in DOMAIN read, NEW s \in J!Seqs, cursor < s, s < read[i]
       PROVE  \E j \in DOMAIN read : j < i /\ read[j] = s
  <2>1. s \in page /\ read[i] \in page
    <3>1. s \in after
      BY <1>1, <1>14 DEF after
    <3> QED BY <1>8, <1>10, <1>14, <3>1
  <2>2. rank(s) < rank(read[i]) /\ rank(s) \in Nat /\ rank(read[i]) = i - 1 /\ i \in Nat
    BY <1>6, <1>7, <1>10, <1>14, <2>1
  <2>3. PICK j : j = rank(s) + 1
    OBVIOUS
  <2>4. j \in DOMAIN read /\ j < i /\ rank(s) = j - 1
    BY <1>6, <1>10, <2>2, <2>3
  <2>5. read[j] \in page /\ rank(read[j]) = rank(s)
    BY <1>10, <2>4
  <2>6. read[j] = s
    <3>1. read[j] \in Nat /\ s \in Nat
      BY <1>3, <2>1, <2>5
    <3>2. ~(read[j] < s) /\ ~(s < read[j])
      BY <1>7, <2>1, <2>2, <2>5
    <3> QED BY <3>1, <3>2
  <2> QED BY <2>4, <2>6
<1> QED BY <1>2, <1>3, <1>4, <1>9, <1>10, <1>11, <1>13, <1>14

\* The client connects with what it has seen last, and an open stream is closed.
LEMMA ConnectKeeps ==
  ASSUME JournalInv, J!Connect
  PROVE  JournalInv'
<1>1. /\ ~feed.open /\ feed' = [open |-> TRUE, cursor |-> last, page |-> <<>>]
      /\ UNCHANGED <<events, nextSeq, ended, chunks, checkpoints, compactions, wire, received, last>>
  BY DEF J!Connect, J!ResumeAt
<1>2. /\ nextSeq \in Nat /\ last \in Nat /\ last < nextSeq /\ wire = <<>>
  BY <1>1 DEF JournalInv, JournalTyped, StreamFits
<1>3. /\ feed'.open = TRUE /\ feed'.cursor = last /\ feed'.page = <<>>
      /\ feed' \in [open : BOOLEAN, cursor : Nat, page : Seq(Nat)]
  <2>1. <<>> \in Seq(Nat)
    OBVIOUS
  <2> QED BY <1>1, <1>2, <2>1
<1>4. J!Seqs' = J!Seqs /\ Gone' = Gone
  BY <1>1 DEF J!Seqs, Gone
<1>5. JournalTyped'
  BY <1>1, <1>3 DEF JournalInv, JournalTyped
<1>6. RecordsKept'
  BY <1>1, <1>4 DEF JournalInv, RecordsKept
<1>7. \A s \in J!Seqs : ~(last < s /\ s <= last)
  BY <1>2, EventNumbers DEF JournalInv
<1>8. StreamFits'
  BY <1>1, <1>2, <1>3, <1>4, <1>7 DEF JournalInv, StreamFits, Rising
<1> QED BY <1>5, <1>6, <1>8 DEF JournalInv

\* A stream that is cut leaves what the client has.
LEMMA ClosedKeeps ==
  ASSUME JournalInv, feed' = J!Closed, wire' = <<>>,
         UNCHANGED <<events, nextSeq, ended, chunks, checkpoints, compactions, received, last>>
  PROVE  JournalInv'
<1>1. /\ feed'.open = FALSE /\ feed'.cursor = 0 /\ feed'.page = <<>>
      /\ feed' \in [open : BOOLEAN, cursor : Nat, page : Seq(Nat)] /\ wire' \in Seq(Nat)
  <2>1. <<>> \in Seq(Nat)
    OBVIOUS
  <2> QED BY <2>1 DEF J!Closed
<1>2. nextSeq \in Nat /\ nextSeq > 0 /\ last < nextSeq
  BY EventNumbers DEF JournalInv, JournalTyped, StreamFits
<1>3. J!Seqs' = J!Seqs /\ Gone' = Gone
  BY DEF J!Seqs, Gone
<1>4. JournalTyped'
  BY <1>1 DEF JournalInv, JournalTyped
<1>5. RecordsKept'
  BY <1>3 DEF JournalInv, RecordsKept
<1>6. StreamFits'
  BY <1>1, <1>2, <1>3 DEF JournalInv, StreamFits, Rising
<1> QED BY <1>4, <1>5, <1>6 DEF JournalInv

\* The server reads the next events.
LEMMA DrainKeeps ==
  ASSUME JournalInv, J!Drain
  PROVE  JournalInv'
<1>1. /\ feed.open /\ feed' = [feed EXCEPT !.page = J!Page(feed.cursor)]
      /\ UNCHANGED <<events, nextSeq, ended, chunks, checkpoints, compactions, wire, received, last>>
  BY DEF J!Drain
<1>2. PICK read : read = J!Page(feed.cursor)
  OBVIOUS
<1>3. feed.cursor \in Nat /\ feed \in [open : BOOLEAN, cursor : Nat, page : Seq(Nat)]
  BY DEF JournalInv, JournalTyped
<1>4. /\ read \in Seq(Nat) /\ Rising(read)
      /\ \A i \in DOMAIN read :
           /\ read[i] \in J!Seqs /\ feed.cursor < read[i]
           /\ \A s \in J!Seqs : feed.cursor < s /\ s < read[i] => \E j \in DOMAIN read : j < i /\ read[j] = s
  BY <1>2, <1>3, PageIsNext DEF JournalInv
<1>5. /\ feed'.open = feed.open /\ feed'.cursor = feed.cursor /\ feed'.page = read
      /\ feed' \in [open : BOOLEAN, cursor : Nat, page : Seq(Nat)]
  BY <1>1, <1>2, <1>3, <1>4
<1>6. J!Seqs' = J!Seqs /\ Gone' = Gone
  BY <1>1 DEF J!Seqs, Gone
<1>7. \A i \in DOMAIN read : read[i] < nextSeq
  <2>1. J!Seqs \subseteq 1..(nextSeq - 1) /\ nextSeq \in Nat
    BY EventNumbers DEF JournalInv, JournalTyped
  <2>2. \A s \in J!Seqs : s < nextSeq
    BY <2>1
  <2> QED BY <1>4, <2>2
<1>8. JournalTyped'
  BY <1>1, <1>5 DEF JournalInv, JournalTyped
<1>9. RecordsKept'
  BY <1>1, <1>6 DEF JournalInv, RecordsKept
<1>10. StreamFits'
  BY <1>1, <1>4, <1>5, <1>6, <1>7 DEF JournalInv, StreamFits
<1> QED BY <1>8, <1>9, <1>10 DEF JournalInv

\* The next event goes on the wire.
LEMMA SendKeeps ==
  ASSUME JournalInv, J!Send
  PROVE  JournalInv'
<1>1. /\ feed.open /\ feed.page # <<>>
      /\ feed' = [feed EXCEPT !.cursor = Head(feed.page), !.page = Tail(feed.page)]
      /\ wire' = Append(wire, Head(feed.page))
      /\ UNCHANGED <<events, nextSeq, ended, chunks, checkpoints, compactions, received, last>>
  BY DEF J!Send
<1>2. /\ feed \in [open : BOOLEAN, cursor : Nat, page : Seq(Nat)] /\ wire \in Seq(Nat) /\ last \in Nat
      /\ feed.cursor \in Nat /\ nextSeq \in Nat
  BY DEF JournalInv, JournalTyped
<1>3. PICK p, h, t : p = feed.page /\ h = Head(p) /\ t = Tail(p)
  OBVIOUS
<1>4. /\ p \in Seq(Nat) /\ h = p[1] /\ h \in Nat /\ t \in Seq(Nat) /\ Len(p) \in Nat /\ Len(p) >= 1
      /\ DOMAIN p = 1..Len(p) /\ DOMAIN t = 1..(Len(p) - 1) /\ 1 \in DOMAIN p
      /\ \A i \in DOMAIN t : i + 1 \in DOMAIN p /\ t[i] = p[i + 1]
  BY <1>1, <1>2, <1>3
<1>5. /\ feed'.open = feed.open /\ feed'.cursor = h /\ feed'.page = t
      /\ feed' \in [open : BOOLEAN, cursor : Nat, page : Seq(Nat)]
  BY <1>1, <1>2, <1>3, <1>4
<1>6. PICK w, n : w = wire' /\ n = Len(wire)
  OBVIOUS
<1>7. /\ n \in Nat /\ DOMAIN wire = 1..n /\ w \in Seq(Nat) /\ DOMAIN w = 1..(n + 1) /\ w[n + 1] = h
      /\ \A i \in DOMAIN wire : i \in DOMAIN w /\ w[i] = wire[i] /\ wire[i] \in Nat
  BY <1>1, <1>2, <1>3, <1>4, <1>6
<1>8. J!Seqs' = J!Seqs /\ Gone' = Gone
  BY <1>1 DEF J!Seqs, Gone
<1>9. JournalTyped'
  BY <1>1, <1>5, <1>6, <1>7 DEF JournalInv, JournalTyped
<1>10. RecordsKept'
  BY <1>1, <1>8 DEF JournalInv, RecordsKept
<1>11. /\ Rising(p) /\ Rising(wire) /\ last <= feed.cursor
       /\ \A i \in DOMAIN wire : last < wire[i] /\ wire[i] <= feed.cursor
       /\ \A s \in J!Seqs : last < s /\ s <= feed.cursor => \E i \in DOMAIN wire : wire[i] = s
       /\ \A i \in DOMAIN p :
            /\ feed.cursor < p[i] /\ p[i] < nextSeq
            /\ \A s \in J!Seqs : feed.cursor < s /\ s < p[i] => \E j \in DOMAIN p : j < i /\ p[j] = s
  BY <1>1, <1>3 DEF JournalInv, StreamFits
<1>12. feed.cursor < h /\ h < nextSeq /\ last < h /\ last <= h
  <2>1. feed.cursor < h /\ h < nextSeq
    BY <1>4, <1>11
  <2> QED BY <1>2, <1>4, <1>11, <2>1
<1>13. \A s \in J!Seqs : feed.cursor < s => ~(s < h)
  <2> SUFFICES ASSUME NEW s \in J!Seqs, feed.cursor < s, s < h PROVE FALSE
    OBVIOUS
  <2>1. PICK j \in DOMAIN p : j < 1 /\ p[j] = s
    BY <1>4, <1>11
  <2> QED BY <1>4, <2>1
<1>14. J!Seqs \subseteq Nat
  BY EventNumbers DEF JournalInv
<1>15. Rising(w)
  <2> SUFFICES ASSUME NEW i \in DOMAIN w, NEW j \in DOMAIN w, i < j PROVE w[i] < w[j]
    BY DEF Rising
  <2>1. i \in DOMAIN wire
    BY <1>7
  <2>2. CASE j \in DOMAIN wire
    BY <1>7, <1>11, <2>1, <2>2 DEF Rising
  <2>3. CASE j = n + 1
    <3>1. wire[i] <= feed.cursor /\ wire[i] \in Nat
      BY <1>7, <1>11, <2>1
    <3>2. wire[i] < h
      BY <1>2, <1>4, <1>12, <3>1
    <3> QED BY <1>7, <2>1, <2>3, <3>2
  <2> QED BY <1>7, <2>2, <2>3
<1>16. Rising(t)
  <2> SUFFICES ASSUME NEW i \in DOMAIN t, NEW j \in DOMAIN t, i < j PROVE t[i] < t[j]
    BY DEF Rising
  <2>1. i + 1 \in DOMAIN p /\ j + 1 \in DOMAIN p /\ i + 1 < j + 1
    BY <1>4
  <2> QED BY <1>4, <1>11, <2>1 DEF Rising
<1>17. \A i \in DOMAIN w : last < w[i] /\ w[i] <= h
  <2> SUFFICES ASSUME NEW i \in DOMAIN w PROVE last < w[i] /\ w[i] <= h
    OBVIOUS
  <2>1. CASE i \in DOMAIN wire
    <3>1. last < wire[i] /\ wire[i] <= feed.cursor /\ wire[i] \in Nat /\ w[i] = wire[i]
      BY <1>7, <1>11, <2>1
    <3> QED BY <1>2, <1>4, <1>12, <3>1
  <2>2. CASE i = n + 1
    BY <1>4, <1>7, <1>12, <2>2
  <2> QED BY <1>7, <2>1, <2>2
<1>18. \A s \in J!Seqs : last < s /\ s <= h => \E i \in DOMAIN w : w[i] = s
  <2> SUFFICES ASSUME NEW s \in J!Seqs, last < s, s <= h PROVE \E i \in DOMAIN w : w[i] = s
    OBVIOUS
  <2>1. s \in Nat
    BY <1>14
  <2>2. CASE s <= feed.cursor
    BY <1>7, <1>11, <2>2
  <2>3. CASE ~(s <= feed.cursor)
    <3>1. feed.cursor < s
      BY <1>2, <2>1, <2>3
    <3>2. s = h
      BY <1>4, <1>13, <2>1, <3>1
    <3>3. n + 1 \in DOMAIN w
      BY <1>7
    <3> QED BY <1>7, <3>2, <3>3
  <2> QED BY <2>2, <2>3
<1>19. \A i \in DOMAIN t :
         /\ h < t[i] /\ t[i] < nextSeq
         /\ \A s \in J!Seqs : h < s /\ s < t[i] => \E j \in DOMAIN t : j < i /\ t[j] = s
  <2> SUFFICES ASSUME NEW i \in DOMAIN t
               PROVE  /\ h < t[i] /\ t[i] < nextSeq
                      /\ \A s \in J!Seqs : h < s /\ s < t[i] => \E j \in DOMAIN t : j < i /\ t[j] = s
    OBVIOUS
  <2>1. i \in Nat /\ i + 1 \in DOMAIN p /\ 1 < i + 1 /\ t[i] = p[i + 1]
    BY <1>4
  <2>2. h < t[i] /\ t[i] < nextSeq
    BY <1>4, <1>11, <2>1 DEF Rising
  <2>3. ASSUME NEW s \in J!Seqs, h < s, s < t[i] PROVE \E j \in DOMAIN t : j < i /\ t[j] = s
    <3>1. feed.cursor < s /\ s \in Nat
      BY <1>2, <1>4, <1>12, <1>14, <2>3
    <3>2. PICK k \in DOMAIN p : k < i + 1 /\ p[k] = s
      BY <1>11, <2>1, <2>3, <3>1
    <3>3. k # 1
      BY <1>4, <2>3, <3>1, <3>2
    <3>4. k \in 1..Len(p) /\ k # 1 /\ k < i + 1 /\ i \in Nat /\ Len(p) \in Nat
      BY <1>4, <2>1, <3>2, <3>3
    <3>5. k - 1 \in 1..(Len(p) - 1) /\ k - 1 < i /\ (k - 1) + 1 = k
      BY <3>4
    <3>6. k - 1 \in DOMAIN t
      BY <1>4, <3>5
    <3> QED BY <1>4, <3>2, <3>5, <3>6
  <2> QED BY <2>2, <2>3
<1>20. /\ last' = last /\ nextSeq' = nextSeq /\ received' = received /\ feed'.open /\ wire' = w
  BY <1>1, <1>5, <1>6
<1>21. \A s \in J!Seqs : s <= last => s \in received
  BY DEF JournalInv, StreamFits
<1>22. last < nextSeq
  BY DEF JournalInv, StreamFits
<1>23. StreamFits'
  BY <1>5, <1>8, <1>12, <1>15, <1>16, <1>17, <1>18, <1>19, <1>20, <1>21, <1>22 DEF StreamFits
<1> QED BY <1>9, <1>10, <1>23 DEF JournalInv

\* The client takes the first event off the wire.
LEMMA ReceiveKeeps ==
  ASSUME JournalInv, J!Receive
  PROVE  JournalInv'
<1>1. /\ wire # <<>> /\ received' = received \cup {Head(wire)} /\ last' = Head(wire) /\ wire' = Tail(wire)
      /\ UNCHANGED <<events, nextSeq, ended, chunks, checkpoints, compactions, feed>>
  BY DEF J!Receive
<1>2. /\ wire \in Seq(Nat) /\ last \in Nat /\ feed.cursor \in Nat /\ nextSeq \in Nat
      /\ feed.open \in BOOLEAN
  BY DEF JournalInv, JournalTyped
<1>3. PICK h, t : h = Head(wire) /\ t = Tail(wire)
  OBVIOUS
<1>4. /\ h = wire[1] /\ h \in Nat /\ t \in Seq(Nat) /\ Len(wire) \in Nat /\ Len(wire) >= 1
      /\ DOMAIN wire = 1..Len(wire) /\ DOMAIN t = 1..(Len(wire) - 1) /\ 1 \in DOMAIN wire
      /\ \A i \in DOMAIN t : i + 1 \in DOMAIN wire /\ t[i] = wire[i + 1] /\ t[i] \in Nat
  BY <1>1, <1>2, <1>3
<1>5. J!Seqs' = J!Seqs /\ Gone' = Gone
  BY <1>1 DEF J!Seqs, Gone
<1>6. JournalTyped'
  BY <1>1, <1>3, <1>4 DEF JournalInv, JournalTyped
<1>7. RecordsKept'
  BY <1>1, <1>5 DEF JournalInv, RecordsKept
<1>8. /\ feed.open /\ Rising(wire) /\ feed.cursor < nextSeq
      /\ \A i \in DOMAIN wire : last < wire[i] /\ wire[i] <= feed.cursor
      /\ \A s \in J!Seqs : last < s /\ s <= feed.cursor => \E i \in DOMAIN wire : wire[i] = s
      /\ \A s \in J!Seqs : s <= last => s \in received
  BY <1>1 DEF JournalInv, StreamFits
<1>9. last < h /\ h <= feed.cursor /\ h < nextSeq
  <2>1. last < h /\ h <= feed.cursor
    BY <1>4, <1>8
  <2> QED BY <1>2, <1>4, <1>8, <2>1
<1>10. J!Seqs \subseteq Nat
  BY EventNumbers DEF JournalInv
<1>11. Rising(t) /\ \A i \in DOMAIN t : h < t[i] /\ t[i] <= feed.cursor
  <2>1. ASSUME NEW i \in DOMAIN t, NEW j \in DOMAIN t, i < j PROVE t[i] < t[j]
    <3>1. i + 1 \in DOMAIN wire /\ j + 1 \in DOMAIN wire /\ i + 1 < j + 1
      BY <1>4, <2>1
    <3> QED BY <1>4, <1>8, <3>1 DEF Rising
  <2>2. ASSUME NEW i \in DOMAIN t PROVE h < t[i] /\ t[i] <= feed.cursor
    <3>1. i + 1 \in DOMAIN wire /\ 1 < i + 1
      BY <1>4
    <3> QED BY <1>4, <1>8, <3>1 DEF Rising
  <2> QED BY <2>1, <2>2 DEF Rising
<1>12. \A s \in J!Seqs : h < s /\ s <= feed.cursor => \E i \in DOMAIN t : t[i] = s
  <2> SUFFICES ASSUME NEW s \in J!Seqs, h < s, s <= feed.cursor PROVE \E i \in DOMAIN t : t[i] = s
    OBVIOUS
  <2>1. last < s /\ s \in Nat
    BY <1>2, <1>4, <1>9, <1>10
  <2>2. PICK i \in DOMAIN wire : wire[i] = s
    BY <1>8, <2>1
  <2>3. i # 1
    BY <1>4, <2>1, <2>2
  <2>4. i \in 1..Len(wire) /\ Len(wire) \in Nat
    BY <1>4
  <2>5. i - 1 \in 1..(Len(wire) - 1) /\ (i - 1) + 1 = i
    BY <2>3, <2>4
  <2>6. i - 1 \in DOMAIN t
    BY <1>4, <2>5
  <2> QED BY <1>4, <2>2, <2>5, <2>6
<1>13. \A s \in J!Seqs : s <= h => s \in received \cup {h}
  <2> SUFFICES ASSUME NEW s \in J!Seqs, s <= h, s # h PROVE s \in received
    OBVIOUS
  <2>1. s \in Nat /\ s < h
    BY <1>4, <1>10
  <2>2. CASE s <= last
    BY <1>8, <2>2
  <2>3. CASE ~(s <= last)
    <3>1. last < s /\ s <= feed.cursor
      BY <1>2, <1>4, <1>9, <2>1, <2>3
    <3>2. PICK i \in DOMAIN wire : wire[i] = s
      BY <1>8, <3>1
    <3>3. i = 1 \/ 1 < i
      BY <1>4
    <3>4. CASE 1 < i
      <4>1. wire[1] < wire[i]
        BY <1>4, <1>8, <3>4 DEF Rising
      <4> QED BY <1>4, <2>1, <3>2, <4>1
    <3> QED BY <1>4, <2>1, <3>2, <3>3, <3>4
  <2> QED BY <2>2, <2>3
<1>14. /\ last' = h /\ nextSeq' = nextSeq /\ received' = received \cup {h} /\ feed' = feed /\ wire' = t
  BY <1>1, <1>3
<1>15. StreamFits'
  BY <1>5, <1>8, <1>9, <1>11, <1>12, <1>13, <1>14 DEF JournalInv, StreamFits
<1> QED BY <1>6, <1>7, <1>15 DEF JournalInv

\* Where nothing happens to the journal and the client, the invariant stays.
LEMMA JournalRests ==
  ASSUME JournalInv,
         UNCHANGED <<events, nextSeq, ended, chunks, checkpoints, compactions, feed, wire, received, last>>
  PROVE  JournalInv'
<1>1. J!Seqs' = J!Seqs /\ Gone' = Gone
  BY DEF J!Seqs, Gone
<1>2. JournalTyped' /\ RecordsKept' /\ StreamFits'
  BY <1>1 DEF JournalInv, JournalTyped, RecordsKept, StreamFits, Rising
<1> QED BY <1>2 DEF JournalInv

\* Every step of the journal keeps its invariant.
LEMMA JournalAdvance ==
  ASSUME JournalInv, J!Next
  PROVE  JournalInv'
<1>1. ASSUME NEW kinds \in J!Batches, J!Commit(kinds) PROVE JournalInv'
  BY <1>1, CommitKeeps
<1>2. ASSUME NEW c \in Chunks, J!PersistChunk(c) PROVE JournalInv'
  BY <1>2, ChunkKeeps
<1>3. CASE J!CreateCheckpoint
  BY <1>3, CheckpointKeeps DEF J!CreateCheckpoint
<1>4. ASSUME NEW through \in checkpoints, NEW limit \in 1..2, J!Compact(through, limit) PROVE JournalInv'
  BY <1>4, CompactKeeps
<1>5. CASE J!Crash
  BY <1>5, ClosedKeeps DEF J!Crash
<1>6. CASE J!Recover
  <2>1. CASE J!TakeCheckpoint
    BY <2>1, CheckpointKeeps
  <2>2. CASE UNCHANGED <<events, nextSeq, ended, chunks, checkpoints, compactions, feed, wire, received, last>>
    BY <2>2, JournalRests
  <2> QED BY <1>6, <2>1, <2>2 DEF J!Recover, J!clients
<1>7. CASE J!Client
  <2>1. CASE J!Disconnect
    BY <2>1, ClosedKeeps DEF J!Disconnect
  <2> QED BY <1>7, <2>1, ConnectKeeps, DrainKeeps, SendKeeps, ReceiveKeeps DEF J!Client
<1> QED BY <1>1, <1>2, <1>3, <1>4, <1>5, <1>6, <1>7 DEF J!Next, J!Runtime

\* A run begins with its first event.
LEMMA JournalBegin ==
  ASSUME J!Init
  PROVE  JournalInv
<1>1. /\ events = {[seq |-> 1, kind |-> "critical"]} /\ nextSeq = 2 /\ ended = FALSE
      /\ chunks = [c \in Chunks |-> 0] /\ checkpoints = {} /\ compactions = {}
      /\ feed = [open |-> FALSE, cursor |-> 0, page |-> <<>>]
      /\ wire = <<>> /\ received = {} /\ last = 0
  BY DEF J!Init, J!Event, J!Closed
<1>2. J!Seqs = {1} /\ Gone = {}
  BY <1>1 DEF J!Seqs, Gone
<1>3. /\ feed.open = FALSE /\ feed.cursor = 0 /\ feed.page = <<>> /\ <<>> \in Seq(Nat)
      /\ 1 \in 1..(nextSeq - 1) /\ 1..(nextSeq - 1) = {1} /\ nextSeq - 1 = 1
  BY <1>1
<1>4. JournalTyped
  BY <1>1, <1>3 DEF JournalTyped, EventKinds
<1>5. RecordsKept
  BY <1>1, <1>2, <1>3 DEF RecordsKept
<1>6. StreamFits
  BY <1>1, <1>2, <1>3 DEF StreamFits, Rising
<1> QED BY <1>4, <1>5, <1>6 DEF JournalInv
-----------------------------------------------------------------------------
\* Memory.  What a record says is what its commits made of it, and a token
\* that is still the scope's names what a search would select now.
RecordStatus == {"reserved", "discarded", "active", "obsolete", "deleted"}
ProposalStatus == {"awaiting_review", "approved", "rejected", "applied", "conflicted"}
Maybe == Contents \cup {None}
RecordRow == [status : RecordStatus, head : Nat, content : Maybe]
ProposalRow == [memory : Nat, expected : Nat, change : M!Changes, content : Maybe,
                status : ProposalStatus, by : Nodes \cup {None}]
CommitRow == [memory : Nat, parent : Nat, proposal : Nat]
ReadRow == [token : Nat, text : Maybe, status : M!Readable, selected : SUBSET (Nat \X Nat \X Maybe)]
HistoryTyped ==
  /\ records \in Seq(RecordRow)
  /\ proposals \in Seq(ProposalRow)
  /\ commits \in Seq(CommitRow)
  /\ revision \in Nat
  /\ index \in Seq(Maybe) /\ Len(index) = Len(records)
  /\ reads \subseteq ReadRow

ProposalsFit ==
  \A p \in DOMAIN proposals :
    /\ proposals[p].memory \in DOMAIN records
    /\ proposals[p].change = "create" <=> proposals[p].expected = 0
CommitsFit ==
  \A i \in DOMAIN commits :
    /\ commits[i].memory \in DOMAIN records
    /\ commits[i].proposal \in DOMAIN proposals
ReadsFit ==
  /\ \A r \in reads :
       /\ r.token <= revision
       /\ r.token = revision => r.selected = M!Selected(r.text, r.status)
  /\ \A r, q \in reads :
       r.token = q.token /\ r.text = q.text /\ r.status = q.status => r.selected = q.selected
HistoryInv ==
  /\ HistoryTyped /\ ProposalsFit /\ CommitsFit /\ ReadsFit
  /\ M!RecordsFollowProposals

\* What is said of one record: its chain of commits, and its create.
ChainFits(m) ==
  /\ \A i \in M!Made(m) :
       /\ commits[i].parent = M!Latest({j \in M!Made(m) : j < i})
       /\ commits[i].parent = proposals[commits[i].proposal].expected
  /\ records[m].head = M!Latest(M!Made(m))
  /\ M!Made(m) # {} =>
       records[m].status = M!NextStatus(proposals[commits[M!Latest(M!Made(m))].proposal].change)
CreateFits(m) ==
  \E p \in M!CreatesOf(m) :
    /\ M!CreatesOf(m) = {p}
    /\ records[m].status = "reserved" <=> proposals[p].status \in {"awaiting_review", "approved"}
    /\ records[m].status = "discarded" <=> proposals[p].status = "rejected"
AppliedFits ==
  \A p \in DOMAIN proposals :
    proposals[p].status = "applied" <=> \E i \in DOMAIN commits : commits[i].proposal = p

\* The property, record by record.
LEMMA RecordsOneByOne ==
  M!RecordsFollowProposals <=>
    /\ \A m \in DOMAIN records : ChainFits(m) /\ CreateFits(m)
    /\ AppliedFits
BY DEF M!RecordsFollowProposals, ChainFits, CreateFits, AppliedFits

\* Rows are rows.
LEMMA HistoryRows ==
  ASSUME HistoryTyped
  PROVE  /\ \A m \in DOMAIN records : records[m] \in RecordRow /\ m \in Nat \ {0}
         /\ \A p \in DOMAIN proposals : proposals[p] \in ProposalRow /\ p \in Nat \ {0}
         /\ \A i \in DOMAIN commits : commits[i] \in CommitRow /\ i \in 1..Len(commits)
         /\ Len(records) \in Nat /\ DOMAIN records = 1..Len(records)
         /\ Len(proposals) \in Nat /\ DOMAIN proposals = 1..Len(proposals)
         /\ Len(commits) \in Nat /\ DOMAIN commits = 1..Len(commits)
<1>1. /\ \A m \in DOMAIN records : records[m] \in RecordRow /\ m \in Nat \ {0}
      /\ Len(records) \in Nat /\ DOMAIN records = 1..Len(records)
  BY DEF HistoryTyped
<1>2. /\ \A p \in DOMAIN proposals : proposals[p] \in ProposalRow /\ p \in Nat \ {0}
      /\ Len(proposals) \in Nat /\ DOMAIN proposals = 1..Len(proposals)
  BY DEF HistoryTyped
<1>3. /\ \A i \in DOMAIN commits : commits[i] \in CommitRow /\ i \in 1..Len(commits)
      /\ Len(commits) \in Nat /\ DOMAIN commits = 1..Len(commits)
  BY DEF HistoryTyped
<1> QED BY <1>1, <1>2, <1>3

\* The latest of some commits is one of them.
LEMMA LatestCommit ==
  ASSUME NEW n \in Nat, NEW made \in SUBSET (1..n)
  PROVE  /\ made = {} => M!Latest(made) = 0
         /\ made # {} => M!Latest(made) \in made /\ \A i \in made : i <= M!Latest(made)
<1>1. ASSUME made # {} PROVE M!Latest(made) \in made /\ \A i \in made : i <= M!Latest(made)
  <2> DEFINE Bounds == {k \in Nat : \A x \in made : x <= k}
  <2>1. M!Max(made) = J!Max(made)
    BY DEF M!Max, J!Max
  <2>2. J!Max(made) \in made
    BY <1>1, CheckpointsHaveLast
  <2>3. n \in Bounds
    OBVIOUS
  <2>4. PICK k \in Bounds : \A j \in Bounds : k <= j
    BY <2>3, LeastNumber
  <2>5. \A i \in made : i <= J!Max(made)
    <3>1. \E x \in made : \A y \in made : x >= y
      <4>1. k \in made
        <5> SUFFICES ASSUME k \notin made PROVE FALSE
          OBVIOUS
        <5>1. \A x \in made : x <= k /\ x \in Nat /\ x >= 1 /\ x # k
          BY <2>4
        <5>2. PICK x \in made : TRUE
          BY <1>1
        <5>3. k \in Nat /\ k >= 1
          BY <2>4, <5>1, <5>2
        <5>4. k - 1 \in Nat /\ \A y \in made : y <= k - 1
          BY <5>1, <5>3
        <5>5. k <= k - 1
          BY <2>4, <5>4
        <5> QED BY <5>3, <5>5
      <4> QED BY <2>4, <4>1
    <3>2. \A y \in made : J!Max(made) >= y
      BY <3>1 DEF J!Max
    <3> QED BY <2>2, <3>2
  <2> QED BY <1>1, <2>1, <2>2, <2>5 DEF M!Latest
<1>2. made = {} => M!Latest(made) = 0
  BY DEF M!Latest
<1> QED BY <1>1, <1>2

\* The commits of a record are commits.
LEMMA MadeCommits ==
  ASSUME HistoryTyped, NEW m
  PROVE  /\ M!Made(m) \in SUBSET (1..Len(commits)) /\ Len(commits) \in Nat
         /\ M!Made(m) = {} <=> M!Latest(M!Made(m)) = 0
         /\ M!Made(m) # {} => M!Latest(M!Made(m)) \in M!Made(m)
<1>1. M!Made(m) \in SUBSET (1..Len(commits)) /\ Len(commits) \in Nat
  BY HistoryRows DEF M!Made
<1>2. 0 \notin M!Made(m)
  BY <1>1
<1> QED BY <1>1, <1>2, LatestCommit

\* A record that is reserved or given up has no commit.
LEMMA ReservedIsEmpty ==
  ASSUME HistoryInv, NEW m \in DOMAIN records, records[m].status \in {"reserved", "discarded"}
  PROVE  M!Made(m) = {} /\ records[m].head = 0
<1>1. ChainFits(m)
  BY RecordsOneByOne DEF HistoryInv
<1>2. ASSUME M!Made(m) # {} PROVE FALSE
  <2> DEFINE p == commits[M!Latest(M!Made(m))].proposal
  <2>1. M!Latest(M!Made(m)) \in DOMAIN commits
    BY <1>2, MadeCommits DEF HistoryInv, M!Made
  <2>2. p \in DOMAIN proposals
    BY <2>1 DEF HistoryInv, CommitsFit
  <2>3. proposals[p].change \in M!Changes
    BY <2>2, HistoryRows DEF HistoryInv, ProposalRow
  <2>4. records[m].status = M!NextStatus(proposals[p].change)
    BY <1>1, <1>2 DEF ChainFits
  <2> HIDE DEF p
  <2> QED BY <2>3, <2>4 DEF M!NextStatus, M!Changes
<1>3. M!Made(m) = {}
  BY <1>2
<1> QED BY <1>1, <1>3, MadeCommits DEF HistoryInv, ChainFits

\* A search would select what it did as long as readable records stay.
LEMMA ReadsStand ==
  ASSUME HistoryInv, UNCHANGED <<revision, reads>>, DOMAIN records \subseteq DOMAIN records',
         \A m \in DOMAIN records :
           \/ records'[m] = records[m]
           \/ records[m].status \notin M!Readable /\ records'[m].status \notin M!Readable,
         \A m \in DOMAIN records' \ DOMAIN records : records'[m].status \notin M!Readable,
         \A m \in DOMAIN records : index'[m] = index[m]
  PROVE  ReadsFit'
<1>1. ASSUME NEW text, NEW status \in M!Readable
      PROVE  M!Selected(text, status)' = M!Selected(text, status)
  <2> DEFINE Now == {x \in M!Candidates(text) : records[x].status = status /\ records[x].content # None}
             Then == {x \in M!Candidates(text)' : records'[x].status = status /\ records'[x].content # None}
  <2>1. \A m \in M!Candidates(text) : m \in DOMAIN records /\ records[m].status \in M!Readable
    BY DEF M!Candidates
  <2>2. \A m \in M!Candidates(text)' : m \in DOMAIN records' /\ records'[m].status \in M!Readable
    BY DEF M!Candidates, M!Readable
  <2>3. ASSUME NEW m \in DOMAIN records, records'[m] = records[m], records[m].status \in M!Readable
        PROVE  m \in M!Candidates(text)' <=> m \in M!Candidates(text)
    <3>1. m \in DOMAIN records' /\ index'[m] = index[m]
      OBVIOUS
    <3> QED BY <2>3, <3>1 DEF M!Candidates, M!Readable
  <2>4. \A m \in M!Candidates(text)' : m \in DOMAIN records /\ records'[m] = records[m]
    BY <2>2
  <2>5. \A m \in M!Candidates(text) : records'[m].status = status => records'[m] = records[m]
    BY <2>1
  <2>6. Then = Now /\ \A m \in Now : records'[m] = records[m]
    <3>1. \A m \in Now : records'[m] = records[m]
      BY <2>1
    <3>2. \A m \in Now : m \in M!Candidates(text)'
      BY <2>1, <2>3, <3>1
    <3>3. \A m \in Then : m \in M!Candidates(text)
      BY <2>2, <2>3, <2>4
    <3> QED BY <3>1, <3>2, <3>3, <2>4
  <2>7. /\ M!Selected(text, status) = {<<m, records[m].head, records[m].content>> : m \in Now}
        /\ M!Selected(text, status)' = {<<m, records'[m].head, records'[m].content>> : m \in Then}
    BY DEF M!Selected
  <2> HIDE DEF Now, Then
  <2> QED BY <2>6, <2>7
<1>2. ASSUME NEW r \in reads' PROVE r.token <= revision' /\ (r.token = revision' => r.selected = M!Selected(r.text, r.status)')
  <2>1. r \in reads /\ r.status \in M!Readable
    BY DEF HistoryInv, HistoryTyped, ReadRow
  <2>2. r.token <= revision /\ (r.token = revision => r.selected = M!Selected(r.text, r.status))
    BY <2>1 DEF HistoryInv, ReadsFit
  <2>3. M!Selected(r.text, r.status)' = M!Selected(r.text, r.status)
    BY <1>1, <2>1
  <2> QED BY <2>2, <2>3
<1>3. \A r, q \in reads' :
       r.token = q.token /\ r.text = q.text /\ r.status = q.status => r.selected = q.selected
  BY DEF HistoryInv, ReadsFit
<1> QED BY <1>2, <1>3 DEF ReadsFit

\* What a step keeps of the proposals: what they propose, and what is applied.
ProposalsStand ==
  /\ DOMAIN proposals \subseteq DOMAIN proposals'
  /\ \A p \in DOMAIN proposals :
       /\ proposals'[p].memory = proposals[p].memory
       /\ proposals'[p].expected = proposals[p].expected
       /\ proposals'[p].change = proposals[p].change
       /\ proposals'[p].status = "applied" <=> proposals[p].status = "applied"
  /\ \A p \in DOMAIN proposals' \ DOMAIN proposals : proposals'[p].status # "applied"

\* Without a commit a record keeps its chain, and proposals that are applied are those that were.
LEMMA ChainStands ==
  ASSUME HistoryInv, UNCHANGED commits, ProposalsStand, NEW m \in DOMAIN records,
         records'[m].head = records[m].head,
         M!Made(m) # {} => records'[m].status = records[m].status
  PROVE  ChainFits(m)'
<1>1. M!Made(m)' = M!Made(m)
  BY DEF M!Made
<1>2. ChainFits(m)
  BY RecordsOneByOne DEF HistoryInv
<1>3. \A i \in DOMAIN commits :
        /\ commits[i].proposal \in DOMAIN proposals
        /\ proposals'[commits[i].proposal].expected = proposals[commits[i].proposal].expected
        /\ proposals'[commits[i].proposal].change = proposals[commits[i].proposal].change
  BY DEF HistoryInv, CommitsFit, ProposalsStand
<1>4. \A i \in M!Made(m) : i \in DOMAIN commits
  BY DEF M!Made
<1>5. M!Made(m) # {} => M!Latest(M!Made(m)) \in M!Made(m)
  BY MadeCommits DEF HistoryInv
<1>6. ASSUME NEW i \in M!Made(m)'
      PROVE  /\ commits'[i].parent = M!Latest({j \in M!Made(m)' : j < i})
             /\ commits'[i].parent = proposals'[commits'[i].proposal].expected
  BY <1>1, <1>2, <1>3, <1>4 DEF ChainFits
<1>7. records'[m].head = M!Latest(M!Made(m)')
  BY <1>1, <1>2 DEF ChainFits
<1>8. M!Made(m)' # {} =>
         records'[m].status = M!NextStatus(proposals'[commits'[M!Latest(M!Made(m)')].proposal].change)
  BY <1>1, <1>2, <1>3, <1>4, <1>5 DEF ChainFits
<1> QED BY <1>6, <1>7, <1>8 DEF ChainFits, M!Latest, M!NextStatus, M!Max

\* Without a commit proposals that are applied are those that were.
LEMMA AppliedStands ==
  ASSUME HistoryInv, UNCHANGED commits, ProposalsStand
  PROVE  AppliedFits'
<1>1. AppliedFits
  BY RecordsOneByOne DEF HistoryInv
<1>2. \A i \in DOMAIN commits : commits[i].proposal \in DOMAIN proposals
  BY DEF HistoryInv, CommitsFit
<1>3. ASSUME NEW p \in DOMAIN proposals' 
      PROVE  proposals'[p].status = "applied" <=> \E i \in DOMAIN commits' : commits'[i].proposal = p
  <2>1. CASE p \in DOMAIN proposals
    BY <1>1, <2>1 DEF AppliedFits, ProposalsStand
  <2>2. CASE p \notin DOMAIN proposals
    BY <1>2, <1>3, <2>2 DEF ProposalsStand
  <2> QED BY <2>1, <2>2
<1> QED BY <1>3 DEF AppliedFits

\* Proposals and commits still name records and proposals.
LEMMA NamesStand ==
  ASSUME HistoryInv, UNCHANGED commits, ProposalsStand, DOMAIN records \subseteq DOMAIN records',
         \A p \in DOMAIN proposals' \ DOMAIN proposals :
           /\ proposals'[p].memory \in DOMAIN records'
           /\ proposals'[p].change = "create" <=> proposals'[p].expected = 0
  PROVE  ProposalsFit' /\ CommitsFit'
<1>1. ASSUME NEW p \in DOMAIN proposals'
      PROVE  /\ proposals'[p].memory \in DOMAIN records'
             /\ proposals'[p].change = "create" <=> proposals'[p].expected = 0
  <2>1. CASE p \in DOMAIN proposals
    BY <2>1 DEF HistoryInv, ProposalsFit, ProposalsStand
  <2>2. CASE p \notin DOMAIN proposals
    BY <1>1, <2>2
  <2> QED BY <2>1, <2>2
<1>2. CommitsFit'
  BY DEF HistoryInv, CommitsFit, ProposalsStand
<1> QED BY <1>1, <1>2 DEF ProposalsFit

\* The property after a step, record by record.
LEMMA HistoryStands ==
  ASSUME HistoryTyped', ProposalsFit', CommitsFit', ReadsFit', AppliedFits',
         \A m \in DOMAIN records' : ChainFits(m)' /\ CreateFits(m)'
  PROVE  HistoryInv'
<1>1. M!RecordsFollowProposals'
  BY DEF M!RecordsFollowProposals, ChainFits, CreateFits, AppliedFits
<1> QED BY <1>1 DEF HistoryInv

\* Rows put behind those there are.
LEMMA RowsBehind ==
  ASSUME NEW T, NEW q \in Seq(T), NEW k \in Nat, NEW f \in [1..k -> T]
  PROVE  /\ q \o f \in Seq(T) /\ Len(q \o f) = Len(q) + k /\ DOMAIN (q \o f) = 1..(Len(q) + k)
         /\ \A i \in 1..Len(q) : (q \o f)[i] = q[i]
         /\ \A j \in 1..k : (q \o f)[Len(q) + j] = f[j]
         /\ Len(q) \in Nat /\ DOMAIN q = 1..Len(q)
<1>1. f \in Seq(T) /\ Len(f) = k
  OBVIOUS
<1> QED BY <1>1

\* How the commands that create are numbered: from one, without a gap.
Makes(cs) == {i \in DOMAIN cs : cs[i].change = "create"}
NumbersCreates(cs) ==
  /\ M!Creates(cs, Len(cs)) \in Nat
  /\ \A i \in Makes(cs) : M!Creates(cs, i) \in 1..M!Creates(cs, Len(cs))
  /\ \A i, j \in Makes(cs) : M!Creates(cs, i) = M!Creates(cs, j) => i = j
  /\ \A k \in 1..M!Creates(cs, Len(cs)) : \E i \in Makes(cs) : M!Creates(cs, i) = k

\* Memory counts as everybody does.
LEMMA MemoryCounts == \A nums : M!Cardinality(nums) = Cardinality(nums)
BY DEF M!Cardinality, Cardinality

\* How many of the first commands create is a number of places.
LEMMA CreatesAreCounted ==
  \A cs, i : M!Creates(cs, i) = Cardinality({j \in 1..i : cs[j].change = "create"})
BY MemoryCounts DEF M!Creates

\* One and two things are counted.
LEMMA FewAreCounted ==
  Cardinality({}) = 0 /\ Cardinality({1}) = 1 /\ Cardinality({2}) = 1 /\ Cardinality({1, 2}) = 2
<1>1. /\ IsFiniteSet({1}) /\ Cardinality({1}) = 1 /\ Cardinality({2}) = 1
  BY FS_Singleton
<1>2. 2 \notin {1} /\ {1} \cup {2} = {1, 2}
  OBVIOUS
<1>3. Cardinality({1} \cup {2}) = Cardinality({1}) + 1
  BY <1>1, <1>2, FS_AddElement
<1> QED BY <1>1, <1>2, <1>3, FS_EmptySet

\* A batch of one command is numbered so.
LEMMA OneIsNumbered ==
  ASSUME NEW cs, Len(cs) = 1, DOMAIN cs = 1..1
  PROVE  NumbersCreates(cs)
<1>1. Len(cs) = 1 /\ DOMAIN cs = {1} /\ \A j : j \in 1..1 <=> j = 1
  OBVIOUS
<1>2. Cardinality({}) = 0
  BY FewAreCounted
<1>3. Cardinality({1}) = 1
  BY FewAreCounted
<1>4. CASE cs[1].change = "create"
  <2>1. {j \in 1..1 : cs[j].change = "create"} = {1}
    BY <1>1, <1>4
  <2>2. M!Creates(cs, 1) = 1
    BY <1>2, <1>3, <2>1, CreatesAreCounted
  <2>3. Makes(cs) = {1}
    BY <1>1, <1>4 DEF Makes
  <2>4. M!Creates(cs, Len(cs)) = 1
    BY <1>1, <2>2
  <2> QED BY <2>2, <2>3, <2>4 DEF NumbersCreates
<1>5. CASE cs[1].change # "create"
  <2>1. {j \in 1..1 : cs[j].change = "create"} = {}
    BY <1>1, <1>5
  <2>2. M!Creates(cs, 1) = 0
    BY <1>2, <1>3, <2>1, CreatesAreCounted
  <2>3. Makes(cs) = {}
    BY <1>1, <1>5 DEF Makes
  <2>4. M!Creates(cs, Len(cs)) = 0
    BY <1>1, <2>2
  <2> QED BY <2>2, <2>3, <2>4 DEF NumbersCreates
<1> QED BY <1>4, <1>5

\* A batch of two commands is numbered so.
LEMMA TwoAreNumbered ==
  ASSUME NEW cs, Len(cs) = 2, DOMAIN cs = 1..2
  PROVE  NumbersCreates(cs)
<1>1. /\ Len(cs) = 2 /\ DOMAIN cs = {1, 2}
      /\ \A j : j \in 1..1 <=> j = 1
      /\ \A j : j \in 1..2 <=> j \in {1, 2}
  OBVIOUS
<1>2. Cardinality({}) = 0 /\ Cardinality({1, 2}) = 2
  BY FewAreCounted
<1>3. Cardinality({1}) = 1 /\ Cardinality({2}) = 1
  BY FewAreCounted
<1>4. CASE cs[1].change = "create" /\ cs[2].change = "create"
  <2>1. {j \in 1..1 : cs[j].change = "create"} = {1}
    BY <1>1, <1>4
  <2>2. {j \in 1..2 : cs[j].change = "create"} = {1, 2}
    BY <1>1, <1>4
  <2>3. M!Creates(cs, 1) = 1
    BY <1>2, <1>3, <2>1, CreatesAreCounted
  <2>4. M!Creates(cs, 2) = 2
    BY <1>2, <1>3, <2>2, CreatesAreCounted
  <2>5. Makes(cs) = {1, 2}
    BY <1>1, <1>4 DEF Makes
  <2>6. M!Creates(cs, Len(cs)) = 2
    BY <1>1, <2>4
  <2> QED BY <2>3, <2>4, <2>5, <2>6 DEF NumbersCreates
<1>5. CASE cs[1].change = "create" /\ cs[2].change # "create"
  <2>1. {j \in 1..1 : cs[j].change = "create"} = {1}
    BY <1>1, <1>5
  <2>2. {j \in 1..2 : cs[j].change = "create"} = {1}
    BY <1>1, <1>5
  <2>3. M!Creates(cs, 1) = 1
    BY <1>2, <1>3, <2>1, CreatesAreCounted
  <2>4. M!Creates(cs, 2) = 1
    BY <1>2, <1>3, <2>2, CreatesAreCounted
  <2>5. Makes(cs) = {1}
    BY <1>1, <1>5 DEF Makes
  <2>6. M!Creates(cs, Len(cs)) = 1
    BY <1>1, <2>4
  <2> QED BY <2>3, <2>4, <2>5, <2>6 DEF NumbersCreates
<1>6. CASE cs[1].change # "create" /\ cs[2].change = "create"
  <2>1. {j \in 1..1 : cs[j].change = "create"} = {}
    BY <1>1, <1>6
  <2>2. {j \in 1..2 : cs[j].change = "create"} = {2}
    BY <1>1, <1>6
  <2>3. M!Creates(cs, 1) = 0
    BY <1>2, <1>3, <2>1, CreatesAreCounted
  <2>4. M!Creates(cs, 2) = 1
    BY <1>2, <1>3, <2>2, CreatesAreCounted
  <2>5. Makes(cs) = {2}
    BY <1>1, <1>6 DEF Makes
  <2>6. M!Creates(cs, Len(cs)) = 1
    BY <1>1, <2>4
  <2> QED BY <2>3, <2>4, <2>5, <2>6 DEF NumbersCreates
<1>7. CASE cs[1].change # "create" /\ cs[2].change # "create"
  <2>1. {j \in 1..1 : cs[j].change = "create"} = {}
    BY <1>1, <1>7
  <2>2. {j \in 1..2 : cs[j].change = "create"} = {}
    BY <1>1, <1>7
  <2>3. M!Creates(cs, 1) = 0
    BY <1>2, <1>3, <2>1, CreatesAreCounted
  <2>4. M!Creates(cs, 2) = 0
    BY <1>2, <1>3, <2>2, CreatesAreCounted
  <2>5. Makes(cs) = {}
    BY <1>1, <1>7 DEF Makes
  <2>6. M!Creates(cs, Len(cs)) = 0
    BY <1>1, <2>4
  <2> QED BY <2>3, <2>4, <2>5, <2>6 DEF NumbersCreates
<1> QED BY <1>4, <1>5, <1>6, <1>7

\* A command names a record and its head, unless it creates one.
LEMMA CommandRows ==
  ASSUME HistoryTyped, NEW c \in M!Commands
  PROVE  /\ c.change \in M!Changes /\ c.content \in Maybe
         /\ c.memory \in Nat /\ c.expected \in Nat
         /\ c.change = "create" => c.expected = 0
         /\ c.change # "create" => c.memory \in DOMAIN records /\ c.expected # 0
<1>1. CASE c \in [change : {"create"}, memory : {0}, expected : {0}, content : Contents]
  BY <1>1 DEF M!Changes, Maybe
<1>2. CASE c \in [change : {"replace_content"}, memory : DOMAIN records,
                  expected : DOMAIN commits, content : Contents]
  BY <1>2, HistoryRows DEF M!Changes, Maybe
<1>3. CASE c \in [change : {"mark_obsolete", "delete_tombstone"}, memory : DOMAIN records,
                  expected : DOMAIN commits, content : {None}]
  BY <1>3, HistoryRows DEF M!Changes, Maybe
<1> QED BY <1>1, <1>2, <1>3 DEF M!Commands

\* Proposing reserves a record for each create, and changes nothing else.
LEMMA HistoryProposes ==
  ASSUME HistoryInv, UNCHANGED <<commits, revision, reads>>, NEW cs, NEW size \in Nat,
         DOMAIN cs = 1..size, Len(cs) = size, \A i \in 1..size : cs[i] \in M!Commands,
         NumbersCreates(cs), NEW by \in Nodes \cup {None}, M!Inserts(cs, by)
  PROVE  HistoryInv'
<1> DEFINE made == M!Creates(cs, Len(cs))
           target(i) == IF cs[i].change = "create" THEN Len(records) + M!Creates(cs, i) ELSE cs[i].memory
           rows == [i \in 1..size |-> M!Row(cs[i], target(i), by)]
           empty == [i \in 1..made |-> M!Reserved]
           none == [i \in 1..made |-> None]
<1>1. /\ Len(records) \in Nat /\ DOMAIN records = 1..Len(records)
      /\ Len(proposals) \in Nat /\ DOMAIN proposals = 1..Len(proposals)
  BY HistoryRows DEF HistoryInv
<1>2. made \in Nat /\ \A i \in Makes(cs) : M!Creates(cs, i) \in 1..made
  BY DEF NumbersCreates
<1>3. \A i \in 1..size : /\ cs[i].change \in M!Changes /\ cs[i].content \in Maybe
                         /\ cs[i].expected \in Nat
                         /\ cs[i].change = "create" <=> cs[i].expected = 0
                         /\ cs[i].change # "create" => cs[i].memory \in DOMAIN records
  BY CommandRows DEF HistoryInv
<1>4. ASSUME NEW i \in 1..size
      PROVE  /\ target(i) \in 1..(Len(records) + made)
             /\ cs[i].change = "create" => target(i) = Len(records) + M!Creates(cs, i) /\ M!Creates(cs, i) \in 1..made
             /\ cs[i].change # "create" => target(i) \in DOMAIN records
  <2>1. CASE cs[i].change = "create"
    <3>1. i \in Makes(cs)
      BY <2>1 DEF Makes
    <3>2. M!Creates(cs, i) \in 1..made
      BY <1>2, <3>1
    <3> HIDE DEF made
    <3> QED BY <1>1, <1>2, <2>1, <3>2
  <2>2. CASE cs[i].change # "create"
    <3>1. target(i) = cs[i].memory /\ cs[i].memory \in 1..Len(records)
      BY <1>1, <1>3, <2>2
    <3> HIDE DEF made, target
    <3> QED BY <1>1, <1>2, <2>2, <3>1
  <2> QED BY <2>1, <2>2
<1>5. \A i \in 1..size :
        /\ rows[i] \in ProposalRow
        /\ rows[i].memory = target(i) /\ rows[i].change = cs[i].change
        /\ rows[i].expected = cs[i].expected /\ rows[i].status = "awaiting_review"
  <2> TAKE i \in 1..size
  <2>1. target(i) \in Nat
    <3> HIDE DEF made, target
    <3> QED BY <1>1, <1>2, <1>4
  <2>2. rows[i] = M!Row(cs[i], target(i), by)
    OBVIOUS
  <2> HIDE DEF rows, target
  <2> QED BY <1>3, <2>1, <2>2 DEF M!Row, ProposalRow, ProposalStatus
<1>6. M!Reserved \in RecordRow /\ M!Reserved.status = "reserved" /\ M!Reserved.head = 0
  BY DEF M!Reserved, RecordRow, RecordStatus, Maybe
<1>7. /\ records' = records \o empty /\ proposals' = proposals \o rows /\ index' = index \o none
  BY DEF M!Inserts
<1>8. rows \in [1..size -> ProposalRow] /\ empty \in [1..made -> RecordRow] /\ none \in [1..made -> Maybe]
      /\ \A k \in 1..made : empty[k] = M!Reserved
  BY <1>5, <1>6 DEF Maybe
<1> HIDE DEF made, target, rows, empty, none
<1>9. /\ records' \in Seq(RecordRow) /\ Len(records') = Len(records) + made
      /\ DOMAIN records' = 1..(Len(records) + made)
      /\ \A m \in DOMAIN records : records'[m] = records[m]
      /\ \A k \in 1..made : records'[Len(records) + k] = M!Reserved
  <2>1. records \in Seq(RecordRow)
    BY DEF HistoryInv, HistoryTyped
  <2>2. /\ records \o empty \in Seq(RecordRow) /\ Len(records \o empty) = Len(records) + made
        /\ DOMAIN (records \o empty) = 1..(Len(records) + made)
        /\ \A m \in 1..Len(records) : (records \o empty)[m] = records[m]
        /\ \A k \in 1..made : (records \o empty)[Len(records) + k] = empty[k]
    BY <1>2, <1>8, <2>1, RowsBehind
  <2> QED BY <1>1, <1>7, <1>8, <2>2
<1>10. /\ proposals' \in Seq(ProposalRow) /\ DOMAIN proposals' = 1..(Len(proposals) + size)
       /\ \A p \in DOMAIN proposals : proposals'[p] = proposals[p]
       /\ \A i \in 1..size : proposals'[Len(proposals) + i] = rows[i]
  <2>1. proposals \in Seq(ProposalRow)
    BY DEF HistoryInv, HistoryTyped
  <2>2. /\ proposals \o rows \in Seq(ProposalRow)
        /\ DOMAIN (proposals \o rows) = 1..(Len(proposals) + size)
        /\ \A p \in 1..Len(proposals) : (proposals \o rows)[p] = proposals[p]
        /\ \A i \in 1..size : (proposals \o rows)[Len(proposals) + i] = rows[i]
    BY <1>8, <2>1, RowsBehind
  <2> QED BY <1>1, <1>7, <2>2
<1>11. /\ index' \in Seq(Maybe) /\ Len(index') = Len(records')
       /\ \A m \in DOMAIN records : index'[m] = index[m]
  <2>1. index \in Seq(Maybe) /\ Len(index) = Len(records)
    BY DEF HistoryInv, HistoryTyped
  <2>2. /\ index \o none \in Seq(Maybe) /\ Len(index \o none) = Len(index) + made
        /\ \A m \in 1..Len(index) : (index \o none)[m] = index[m]
    <3>1. none \in [1..made -> Maybe] /\ made \in Nat
      BY <1>2, <1>8
    <3>2. index \in Seq(Maybe)
      BY <2>1
    <3> QED BY <3>1, <3>2, RowsBehind
  <2>3. index' \in Seq(Maybe) /\ Len(index') = Len(records) + made
    BY <1>7, <2>1, <2>2
  <2>4. \A m \in DOMAIN records : index'[m] = index[m]
    BY <1>1, <1>7, <2>1, <2>2
  <2> QED BY <1>9, <2>3, <2>4
<1>12. HistoryTyped'
  BY <1>9, <1>10, <1>11 DEF HistoryInv, HistoryTyped, ReadRow, M!Readable
<1>13. ASSUME NEW m \in DOMAIN records' \ DOMAIN records
       PROVE  m - Len(records) \in 1..made /\ m = Len(records) + (m - Len(records)) /\ records'[m] = M!Reserved
  <2>1. m \in 1..(Len(records) + made) /\ m \notin 1..Len(records)
    BY <1>1, <1>9, <1>13
  <2>2. m - Len(records) \in 1..made /\ m = Len(records) + (m - Len(records))
    BY <1>1, <1>2, <2>1
  <2>3. records'[Len(records) + (m - Len(records))] = M!Reserved
    BY <1>9, <2>2
  <2> QED BY <2>2, <2>3
<1>14. ASSUME NEW p \in DOMAIN proposals' \ DOMAIN proposals
       PROVE  /\ p - Len(proposals) \in 1..size /\ p = Len(proposals) + (p - Len(proposals))
              /\ proposals'[p] = rows[p - Len(proposals)]
  <2>1. p - Len(proposals) \in 1..size /\ p = Len(proposals) + (p - Len(proposals))
    BY <1>1, <1>10, <1>14
  <2> QED BY <1>10, <2>1
<1>15. ProposalsStand
  <2>1. \A p \in DOMAIN proposals' \ DOMAIN proposals : proposals'[p].status # "applied"
    BY <1>5, <1>14
  <2>2. DOMAIN proposals \subseteq DOMAIN proposals'
    BY <1>1, <1>10
  <2> QED BY <1>10, <2>1, <2>2 DEF ProposalsStand
<1>16. DOMAIN records \subseteq DOMAIN records'
  BY <1>1, <1>2, <1>9
<1>17. ProposalsFit' /\ CommitsFit'
  <2>1. ASSUME NEW p \in DOMAIN proposals' \ DOMAIN proposals
        PROVE  /\ proposals'[p].memory \in DOMAIN records'
               /\ proposals'[p].change = "create" <=> proposals'[p].expected = 0
    <3>1. PICK i \in 1..size : proposals'[p] = rows[i]
      BY <1>14
    <3>2. rows[i].memory \in DOMAIN records'
      BY <1>4, <1>5, <1>9
    <3> QED BY <1>3, <1>5, <3>1, <3>2
  <2> QED BY <1>15, <1>16, <2>1, NamesStand
<1>18. ReadsFit'
  <2>1. \A m \in DOMAIN records' \ DOMAIN records : records'[m].status \notin M!Readable
    BY <1>6, <1>13 DEF M!Readable
  <2> QED BY <1>9, <1>11, <1>16, <2>1, ReadsStand
<1>19. AppliedFits'
  BY <1>15, AppliedStands
<1>20. ASSUME NEW m \in DOMAIN records PROVE ChainFits(m)' /\ CreateFits(m)'
  <2>1. ChainFits(m)'
    BY <1>9, <1>15, ChainStands
  <2>2. CreateFits(m)
    BY RecordsOneByOne DEF HistoryInv
  <2>3. M!CreatesOf(m)' = M!CreatesOf(m)
    <3>1. ASSUME NEW p \in DOMAIN proposals' \ DOMAIN proposals, proposals'[p].change = "create"
          PROVE  proposals'[p].memory # m
      <4>1. PICK i \in 1..size : proposals'[p] = rows[i]
        BY <1>14, <3>1
      <4>2. proposals'[p].memory = Len(records) + M!Creates(cs, i) /\ M!Creates(cs, i) \in 1..made
        BY <1>4, <1>5, <3>1, <4>1
      <4>3. m \in 1..Len(records)
        BY <1>1
      <4> QED BY <1>1, <1>2, <4>2, <4>3
    <3>2. \A p : p \in DOMAIN proposals => p \in DOMAIN proposals' /\ proposals'[p] = proposals[p]
      BY <1>10, <1>15 DEF ProposalsStand
    <3> QED BY <3>1, <3>2 DEF M!CreatesOf
  <2>4. \A p \in M!CreatesOf(m) : proposals'[p] = proposals[p]
    BY <1>10 DEF M!CreatesOf
  <2>5. records'[m] = records[m]
    BY <1>9
  <2>6. CreateFits(m)'
    BY <2>2, <2>3, <2>4, <2>5 DEF CreateFits
  <2> QED BY <2>1, <2>6
<1>21. ASSUME NEW m \in DOMAIN records' \ DOMAIN records PROVE ChainFits(m)' /\ CreateFits(m)'
  <2>1. records'[m].head = 0 /\ records'[m].status = "reserved"
    BY <1>6, <1>13
  <2>2. M!Made(m)' = {}
    BY DEF M!Made, HistoryInv, CommitsFit
  <2>3. ChainFits(m)'
    BY <2>1, <2>2 DEF ChainFits, M!Latest
  <2> DEFINE k == m - Len(records)
  <2>4. PICK i \in Makes(cs) : M!Creates(cs, i) = k
    BY <1>13 DEF NumbersCreates, made
  <2> DEFINE p == Len(proposals) + i
  <2>5. i \in 1..size /\ cs[i].change = "create"
    BY DEF Makes
  <2>6. p \in DOMAIN proposals' /\ proposals'[p] = rows[i]
    BY <1>1, <1>10, <2>5
  <2>7. rows[i].memory = m /\ rows[i].change = "create" /\ rows[i].status = "awaiting_review"
    BY <1>4, <1>5, <1>13, <2>4, <2>5
  <2>8. ASSUME NEW q \in DOMAIN proposals', proposals'[q].memory = m, proposals'[q].change = "create"
        PROVE  q = p
    <3>1. q \notin DOMAIN proposals
      BY <1>10, <2>8, <1>21 DEF HistoryInv, ProposalsFit
    <3>2. PICK j \in 1..size : q = Len(proposals) + j /\ proposals'[q] = rows[j]
      BY <1>14, <3>1
    <3>3. cs[j].change = "create" /\ m = Len(records) + M!Creates(cs, j) /\ M!Creates(cs, j) \in 1..made
      BY <1>4, <1>5, <2>8, <3>2
    <3>4. j \in Makes(cs)
      BY <3>3 DEF Makes
    <3>5. M!Creates(cs, j) = k
      BY <1>1, <1>2, <3>3
    <3>6. j = i
      BY <2>4, <3>4, <3>5 DEF NumbersCreates
    <3> QED BY <3>2, <3>6
  <2> HIDE DEF p, k
  <2>9. M!CreatesOf(m)' = {p}
    BY <2>6, <2>7, <2>8 DEF M!CreatesOf
  <2>10. CreateFits(m)'
    BY <2>1, <2>6, <2>7, <2>9 DEF CreateFits
  <2> QED BY <2>3, <2>10
<1>22. \A m \in DOMAIN records' : ChainFits(m)' /\ CreateFits(m)'
  BY <1>20, <1>21
<1> QED BY <1>12, <1>17, <1>18, <1>19, <1>22, HistoryStands

\* What a decision does: some undecided proposals are approved or rejected,
\* and the records that rejected creates had reserved are given up.
Decides(D) ==
  LET rejected == {p \in D : proposals'[p].status = "rejected" /\ proposals[p].change = "create"} IN
  /\ D \subseteq DOMAIN proposals
  /\ proposals' \in Seq(ProposalRow) /\ DOMAIN proposals' = DOMAIN proposals
  /\ \A p \in DOMAIN proposals \ D : proposals'[p] = proposals[p]
  /\ \A p \in D :
       /\ proposals[p].status = "awaiting_review" /\ proposals'[p].status \in {"approved", "rejected"}
       /\ proposals'[p].memory = proposals[p].memory
       /\ proposals'[p].expected = proposals[p].expected
       /\ proposals'[p].change = proposals[p].change
  /\ records' = M!Released(rejected)
  /\ UNCHANGED <<commits, revision, index, reads>>

\* Deciding keeps what records say.
LEMMA HistoryDecides ==
  ASSUME HistoryInv, NEW D, Decides(D)
  PROVE  HistoryInv'
<1> DEFINE rejected == {p \in D : proposals'[p].status = "rejected" /\ proposals[p].change = "create"}
           Given(m) == \E p \in rejected : proposals[p].memory = m
<1>1. /\ Len(records) \in Nat /\ DOMAIN records = 1..Len(records)
      /\ \A m \in DOMAIN records : records[m] \in RecordRow
      /\ \A p \in DOMAIN proposals : proposals[p] \in ProposalRow
  BY HistoryRows DEF HistoryInv
<1>2. records' = [m \in DOMAIN records |->
                    IF Given(m) THEN [records[m] EXCEPT !.status = "discarded"] ELSE records[m]]
  BY DEF Decides, M!Released
<1>3. /\ D \subseteq DOMAIN proposals
      /\ \A p \in DOMAIN proposals \ D : proposals'[p] = proposals[p]
      /\ \A p \in D : /\ proposals[p].status = "awaiting_review"
                      /\ proposals'[p].status \in {"approved", "rejected"}
                      /\ proposals'[p].memory = proposals[p].memory
                      /\ proposals'[p].expected = proposals[p].expected
                      /\ proposals'[p].change = proposals[p].change
  BY DEF Decides
<1>4. \A m \in DOMAIN records : M!CreatesOf(m)' = M!CreatesOf(m)
  BY <1>3 DEF M!CreatesOf, Decides
<1>5. ASSUME NEW m \in DOMAIN records, Given(m)
      PROVE  /\ records[m].status = "reserved" /\ records'[m].status = "discarded"
             /\ records'[m].head = records[m].head /\ records'[m] \in RecordRow
             /\ \E p \in rejected : M!CreatesOf(m) = {p}
  <2>1. PICK p \in rejected : proposals[p].memory = m
    BY <1>5
  <2>2. p \in M!CreatesOf(m) /\ proposals[p].status = "awaiting_review"
    BY <1>3, <2>1 DEF M!CreatesOf
  <2>3. CreateFits(m)
    BY RecordsOneByOne DEF HistoryInv
  <2>4. M!CreatesOf(m) = {p} /\ records[m].status = "reserved"
    BY <2>2, <2>3 DEF CreateFits
  <2>5. records'[m] = [records[m] EXCEPT !.status = "discarded"]
    BY <1>2, <1>5
  <2>6. records[m] \in RecordRow
    BY <1>1
  <2> HIDE DEF rejected
  <2>7. /\ records'[m].status = "discarded" /\ records'[m].head = records[m].head
        /\ records'[m] \in RecordRow
    BY <2>5, <2>6 DEF RecordRow, RecordStatus
  <2> QED BY <2>1, <2>4, <2>7
<1>6. \A m \in DOMAIN records : ~Given(m) => records'[m] = records[m]
  BY <1>2
<1>7. DOMAIN records' = DOMAIN records
  BY <1>2
<1> HIDE DEF Given, rejected
<1>8. HistoryTyped'
  <2>1. \A m \in 1..Len(records) : records'[m] \in RecordRow
    BY <1>1, <1>5, <1>6
  <2>2. records' = [m \in 1..Len(records) |-> records'[m]]
    BY <1>1, <1>2
  <2>3. records' \in Seq(RecordRow) /\ Len(records') = Len(records)
    BY <1>1, <2>1, <2>2
  <2> QED BY <2>3 DEF HistoryInv, HistoryTyped, Decides, ReadRow, M!Readable
<1>9. ProposalsStand
  BY <1>3 DEF ProposalsStand, Decides
<1>10. ProposalsFit' /\ CommitsFit'
  <2>1. UNCHANGED commits /\ DOMAIN proposals' = DOMAIN proposals
    BY DEF Decides
  <2> QED BY <1>7, <1>9, <2>1, NamesStand
<1>11. ReadsFit'
  <2>1. \A m \in DOMAIN records :
           \/ records'[m] = records[m]
           \/ records[m].status \notin M!Readable /\ records'[m].status \notin M!Readable
    BY <1>5, <1>6 DEF M!Readable
  <2>2. UNCHANGED <<revision, reads>> /\ \A m \in DOMAIN records : index'[m] = index[m]
    BY DEF Decides
  <2> QED BY <1>7, <2>1, <2>2, ReadsStand
<1>12. AppliedFits'
  BY <1>9, AppliedStands DEF Decides
<1>13. ASSUME NEW m \in DOMAIN records PROVE ChainFits(m)' /\ CreateFits(m)'
  <2>1. ChainFits(m)'
    <3>1. records'[m].head = records[m].head
      BY <1>5, <1>6
    <3>2. M!Made(m) # {} => records'[m].status = records[m].status
      BY <1>5, <1>6, ReservedIsEmpty
    <3>3. UNCHANGED commits
      BY DEF Decides
    <3> QED BY <1>9, <3>1, <3>2, <3>3, ChainStands
  <2>2. CreateFits(m)
    BY RecordsOneByOne DEF HistoryInv
  <2>3. PICK p \in M!CreatesOf(m) :
          /\ M!CreatesOf(m) = {p}
          /\ records[m].status = "reserved" <=> proposals[p].status \in {"awaiting_review", "approved"}
          /\ records[m].status = "discarded" <=> proposals[p].status = "rejected"
    BY <2>2 DEF CreateFits
  <2>4. p \in DOMAIN proposals /\ proposals[p].memory = m /\ proposals[p].change = "create"
    BY DEF M!CreatesOf
  <2>5. CASE Given(m)
    <3>1. p \in rejected
      BY <1>5, <2>3, <2>5
    <3>2. proposals'[p].status = "rejected"
      BY <3>1 DEF rejected
    <3>3. records'[m].status = "discarded"
      BY <1>5, <2>5
    <3>4. CreateFits(m)'
      BY <1>4, <2>3, <3>2, <3>3 DEF CreateFits
    <3> QED BY <2>1, <3>4
  <2>6. CASE ~Given(m)
    <3>1. p \notin rejected
      BY <2>4, <2>6 DEF Given
    <3>2. records'[m] = records[m]
      BY <1>6, <2>6
    <3>3. \/ proposals'[p].status = proposals[p].status
          \/ proposals[p].status = "awaiting_review" /\ proposals'[p].status = "approved"
      <4>1. CASE p \in D
        BY <1>3, <2>4, <3>1, <4>1 DEF rejected
      <4>2. CASE p \notin D
        BY <1>3, <2>4, <4>2
      <4> QED BY <4>1, <4>2
    <3>4. CreateFits(m)'
      BY <1>4, <2>3, <3>2, <3>3 DEF CreateFits
    <3> QED BY <2>1, <3>4
  <2> QED BY <2>5, <2>6
<1>14. \A m \in DOMAIN records' : ChainFits(m)' /\ CreateFits(m)'
  BY <1>7, <1>13
<1> QED BY <1>8, <1>10, <1>11, <1>12, <1>14, HistoryStands

\* A decision of the API, and the answer to a review.
LEMMA HistoryIsDecided ==
  ASSUME HistoryInv, MemoryInv,
         \/ \E p \in DOMAIN proposals, decision \in M!Decisions : M!Decide(p, decision)
         \/ \E n \in Nodes : \E decisions \in [reviews[n].items -> M!Decisions] : M!AnswerReview(n, decisions)
  PROVE  HistoryInv'
<1>1. /\ proposals \in Seq(ProposalRow) /\ \A p \in DOMAIN proposals : proposals[p] \in ProposalRow
      /\ Len(proposals) \in Nat /\ DOMAIN proposals = 1..Len(proposals)
  BY HistoryRows DEF HistoryInv, HistoryTyped
<1>2. ASSUME NEW p \in DOMAIN proposals, NEW status \in {"approved", "rejected"}, NEW row,
             row = [proposals[p] EXCEPT !.status = status]
      PROVE  /\ row \in ProposalRow /\ row.status = status
             /\ row.memory = proposals[p].memory /\ row.expected = proposals[p].expected
             /\ row.change = proposals[p].change
  <2>1. proposals[p] \in ProposalRow
    BY <1>1
  <2> QED BY <1>2, <2>1 DEF ProposalRow, ProposalStatus
<1>3. ASSUME NEW p \in DOMAIN proposals, NEW decision \in M!Decisions, M!Decide(p, decision)
      PROVE  HistoryInv'
  <2> DEFINE status == IF decision = "approve" THEN "approved" ELSE "rejected"
             row == [proposals[p] EXCEPT !.status = status]
  <2>1. /\ row \in ProposalRow /\ row.status = status
        /\ row.memory = proposals[p].memory /\ row.expected = proposals[p].expected
        /\ row.change = proposals[p].change
    BY <1>2
  <2>2. /\ proposals' = [proposals EXCEPT ![p].status = status]
        /\ proposals[p].status = "awaiting_review"
        /\ records' = IF M!Discards(p, decision) THEN M!Released({p}) ELSE records
        /\ UNCHANGED <<commits, revision, index, reads>>
    BY <1>3 DEF M!Decide, M!Decided, M!Decidable, M!Undecided
  <2>3. proposals' = [proposals EXCEPT ![p] = row]
    BY <2>2
  <2>4. status \in {"approved", "rejected"} /\ (status = "rejected" <=> decision = "reject")
    BY DEF M!Decisions
  <2> HIDE DEF row, status
  <2>5. /\ proposals' \in Seq(ProposalRow) /\ DOMAIN proposals' = DOMAIN proposals
        /\ proposals'[p] = row
        /\ \A q \in DOMAIN proposals \ {p} : proposals'[q] = proposals[q]
    BY <1>1, <2>1, <2>3
  <2> DEFINE rejected == {q \in {p} : proposals'[q].status = "rejected" /\ proposals[q].change = "create"}
  <2>6. records' = M!Released(rejected)
    <3>1. CASE M!Discards(p, decision)
      <4>1. rejected = {p}
        BY <2>1, <2>4, <2>5, <3>1 DEF M!Discards
      <4> QED BY <2>2, <3>1, <4>1
    <3>2. CASE ~M!Discards(p, decision)
      <4>1. rejected = {}
        BY <2>1, <2>4, <2>5, <3>2 DEF M!Discards
      <4>2. M!Released({}) = [m \in DOMAIN records |-> records[m]]
        BY DEF M!Released
      <4>3. records = [m \in DOMAIN records |-> records[m]]
        <5>1. records \in Seq(RecordRow)
          BY DEF HistoryInv, HistoryTyped
        <5> QED BY <5>1
      <4> HIDE DEF rejected
      <4> QED BY <2>2, <3>2, <4>1, <4>2, <4>3
    <3> QED BY <3>1, <3>2
  <2>7. Decides({p})
    BY <2>1, <2>2, <2>4, <2>5, <2>6 DEF Decides
  <2> QED BY <2>7, HistoryDecides
<1>4. ASSUME NEW n \in Nodes, NEW decisions \in [reviews[n].items -> M!Decisions],
             M!AnswerReview(n, decisions)
      PROVE  HistoryInv'
  <2> DEFINE D == reviews[n].items
             status(p) == IF decisions[p] = "approve" THEN "approved" ELSE "rejected"
             row(p) == [proposals[p] EXCEPT !.status = status(p)]
  <2>1. /\ reviews[n].status = "open" /\ UNCHANGED <<commits, revision, index, reads>>
        /\ \A p \in D : proposals[p].status = "awaiting_review"
        /\ proposals' = [p \in DOMAIN proposals |->
             IF p \in D THEN M!Decided(proposals, p, decisions[p])[p] ELSE proposals[p]]
        /\ records' = M!Released({p \in D : M!Discards(p, decisions[p])})
    BY <1>4 DEF M!AnswerReview, M!Undecided
  <2>2. D \subseteq DOMAIN proposals
    BY <2>1 DEF MemoryInv, IsOpen
  <2>3. \A p \in D : proposals'[p] = row(p)
    BY <2>1, <2>2 DEF M!Decided
  <2>4. \A p \in D : status(p) \in {"approved", "rejected"} /\ (status(p) = "rejected" <=> decisions[p] = "reject")
    BY DEF M!Decisions
  <2>5. ASSUME NEW p \in D
        PROVE  /\ proposals'[p] \in ProposalRow /\ proposals'[p].status = status(p)
               /\ proposals'[p].memory = proposals[p].memory
               /\ proposals'[p].expected = proposals[p].expected
               /\ proposals'[p].change = proposals[p].change
    <3>1. proposals'[p] = [proposals[p] EXCEPT !.status = status(p)] /\ p \in DOMAIN proposals
      BY <2>2, <2>3
    <3>2. status(p) \in {"approved", "rejected"}
      BY <2>4
    <3> HIDE DEF status, row
    <3> QED BY <1>2, <3>1, <3>2
  <2> HIDE DEF status, row
  <2>6. \A p \in DOMAIN proposals \ D : proposals'[p] = proposals[p]
    BY <2>1
  <2>7. proposals' \in Seq(ProposalRow) /\ DOMAIN proposals' = DOMAIN proposals
    <3>1. \A p \in 1..Len(proposals) : proposals'[p] \in ProposalRow
      BY <1>1, <2>5, <2>6
    <3>2. proposals' = [p \in 1..Len(proposals) |-> proposals'[p]]
      BY <1>1, <2>1
    <3> QED BY <1>1, <3>1, <3>2
  <2>8. {p \in D : M!Discards(p, decisions[p])}
          = {p \in D : proposals'[p].status = "rejected" /\ proposals[p].change = "create"}
    BY <2>4, <2>5 DEF M!Discards
  <2> HIDE DEF D
  <2>9. Decides(D)
    BY <2>1, <2>2, <2>4, <2>5, <2>6, <2>7, <2>8 DEF Decides
  <2> QED BY <2>9, HistoryDecides
<1> QED BY <1>3, <1>4

\* A conflict is found only of a proposal that changes a record.
LEMMA HistoryConflicts ==
  ASSUME HistoryInv, NEW p \in DOMAIN proposals, M!Conflicted(p)
  PROVE  HistoryInv'
<1> DEFINE row == [proposals[p] EXCEPT !.status = "conflicted"]
           m0 == proposals[p].memory
<1>1. /\ proposals[p].status = "approved" /\ records[m0].head # proposals[p].expected
      /\ proposals' = [proposals EXCEPT ![p] = row]
      /\ UNCHANGED <<records, commits, revision, index, reads>>
  BY DEF M!Conflicted, M!HeadMoved
<1>2. proposals \in Seq(ProposalRow) /\ proposals[p] \in ProposalRow
  BY HistoryRows DEF HistoryInv, HistoryTyped
<1>3. /\ row \in ProposalRow /\ row.status = "conflicted"
      /\ row.memory = m0 /\ row.expected = proposals[p].expected /\ row.change = proposals[p].change
  BY <1>2 DEF ProposalRow, ProposalStatus
<1>4. m0 \in DOMAIN records
  BY DEF HistoryInv, ProposalsFit
<1> HIDE DEF row
<1>5. proposals[p].change # "create"
  <2> SUFFICES ASSUME proposals[p].change = "create" PROVE FALSE
    OBVIOUS
  <2>1. proposals[p].expected = 0
    BY DEF HistoryInv, ProposalsFit
  <2>2. CreateFits(m0) /\ p \in M!CreatesOf(m0)
    BY <1>4, RecordsOneByOne DEF HistoryInv, M!CreatesOf
  <2>3. records[m0].status = "reserved"
    BY <1>1, <2>2 DEF CreateFits
  <2>4. records[m0].head = 0
    BY <1>4, <2>3, ReservedIsEmpty
  <2> QED BY <1>1, <2>1, <2>4
<1>6. /\ proposals' \in Seq(ProposalRow) /\ DOMAIN proposals' = DOMAIN proposals
      /\ proposals'[p] = row /\ \A q \in DOMAIN proposals \ {p} : proposals'[q] = proposals[q]
  BY <1>1, <1>2, <1>3
<1>7. HistoryTyped'
  BY <1>1, <1>6 DEF HistoryInv, HistoryTyped, ReadRow, M!Readable
<1>8. ProposalsStand
  BY <1>1, <1>3, <1>6 DEF ProposalsStand
<1>9. ProposalsFit' /\ CommitsFit'
  BY <1>1, <1>6, <1>8, NamesStand
<1>10. ReadsFit'
  BY <1>1, ReadsStand
<1>11. AppliedFits'
  BY <1>1, <1>8, AppliedStands
<1>12. ASSUME NEW m \in DOMAIN records PROVE ChainFits(m)' /\ CreateFits(m)'
  <2>1. ChainFits(m)'
    BY <1>1, <1>8, ChainStands
  <2>2. CreateFits(m)
    BY RecordsOneByOne DEF HistoryInv
  <2>3. M!CreatesOf(m)' = M!CreatesOf(m) /\ p \notin M!CreatesOf(m)
    BY <1>3, <1>5, <1>6 DEF M!CreatesOf
  <2>4. \A q \in M!CreatesOf(m) : proposals'[q] = proposals[q]
    BY <1>6, <2>3 DEF M!CreatesOf
  <2>5. CreateFits(m)'
    BY <1>1, <2>2, <2>3, <2>4 DEF CreateFits
  <2> QED BY <2>1, <2>5
<1> QED BY <1>1, <1>7, <1>9, <1>10, <1>11, <1>12, HistoryStands

\* A proposal is applied on the head it names: the chain of its record grows by one.
LEMMA HistoryApplies ==
  ASSUME HistoryInv, NEW p \in DOMAIN proposals, M!Apply(p)
  PROVE  HistoryInv'
<1>0. PICK m0 : m0 = proposals[p].memory
  OBVIOUS
<1> DEFINE status == M!NextStatus(proposals[p].change)
           content == M!NextContent(proposals[p], records[m0])
           record == [status |-> status, head |-> Len(commits) + 1, content |-> content]
           commit == [memory |-> m0, parent |-> records[m0].head, proposal |-> p]
           row == [proposals[p] EXCEPT !.status = "applied"]
           new == Len(commits) + 1
<1>1. /\ proposals[p].status = "approved" /\ records[m0].head = proposals[p].expected
      /\ M!Permitted(proposals[p].change, records[m0].status)
      /\ commits' = Append(commits, commit)
      /\ records' = [records EXCEPT ![m0] = record]
      /\ proposals' = [proposals EXCEPT ![p] = row]
      /\ revision' = revision + 1 /\ UNCHANGED reads
      /\ \E x \in {content, None} : index' = [index EXCEPT ![m0] = x]
  BY <1>0 DEF M!Apply, M!HeadMoved, M!Bumped
<1>2. /\ proposals \in Seq(ProposalRow) /\ proposals[p] \in ProposalRow
      /\ records \in Seq(RecordRow) /\ commits \in Seq(CommitRow)
      /\ index \in Seq(Maybe) /\ Len(index) = Len(records)
      /\ Len(commits) \in Nat /\ DOMAIN commits = 1..Len(commits)
      /\ Len(records) \in Nat /\ DOMAIN records = 1..Len(records)
      /\ p \in Nat
  BY HistoryRows DEF HistoryInv, HistoryTyped
<1>3. m0 \in DOMAIN records /\ records[m0] \in RecordRow /\ m0 \in Nat
  <2>1. m0 \in DOMAIN records
    BY <1>0 DEF HistoryInv, ProposalsFit
  <2> QED BY <1>2, <2>1
<1>4. proposals[p].change \in M!Changes /\ proposals[p].content \in Maybe
  BY <1>2 DEF ProposalRow
<1>5. status \in {"active", "obsolete", "deleted"}
  BY <1>4 DEF M!NextStatus, M!Changes
<1>6. content \in Maybe
  BY <1>3, <1>4 DEF M!NextContent, M!Changes, RecordRow, Maybe
<1>7. /\ row \in ProposalRow /\ row.status = "applied"
      /\ row.memory = m0 /\ row.expected = proposals[p].expected /\ row.change = proposals[p].change
  BY <1>0, <1>2 DEF ProposalRow, ProposalStatus
<1>8. record \in RecordRow /\ record.status = status /\ record.head = new
  <2> HIDE DEF status, content
  <2> QED BY <1>2, <1>5, <1>6 DEF RecordRow, RecordStatus
<1>9. commit \in CommitRow /\ commit.memory = m0 /\ commit.parent = records[m0].head /\ commit.proposal = p
  BY <1>2, <1>3 DEF RecordRow, CommitRow
<1>10. status = M!NextStatus(proposals[p].change)
  OBVIOUS
<1>11. new = Len(commits) + 1 /\ new \in Nat
  BY <1>2
<1> HIDE DEF row, record, commit, status, content, new
<1>12. /\ proposals' \in Seq(ProposalRow) /\ DOMAIN proposals' = DOMAIN proposals
       /\ proposals'[p] = row /\ \A q \in DOMAIN proposals \ {p} : proposals'[q] = proposals[q]
  BY <1>1, <1>2, <1>7
<1>13. /\ records' \in Seq(RecordRow) /\ DOMAIN records' = DOMAIN records /\ Len(records') = Len(records)
       /\ records'[m0] = record /\ \A m \in DOMAIN records \ {m0} : records'[m] = records[m]
  BY <1>1, <1>2, <1>3, <1>8
<1>14. /\ commits' \in Seq(CommitRow) /\ Len(commits') = new /\ DOMAIN commits' = 1..new
       /\ commits'[new] = commit /\ \A i \in DOMAIN commits : commits'[i] = commits[i]
       /\ new \notin DOMAIN commits /\ DOMAIN commits' = DOMAIN commits \cup {new}
  BY <1>1, <1>2, <1>9, <1>11
<1>15. index' \in Seq(Maybe) /\ Len(index') = Len(index)
  BY <1>1, <1>2, <1>3, <1>6 DEF Maybe
<1>16. HistoryTyped'
  <2>1. revision' \in Nat /\ reads' \subseteq ReadRow'
    BY <1>1 DEF HistoryInv, HistoryTyped, ReadRow, M!Readable
  <2> QED BY <1>2, <1>12, <1>13, <1>14, <1>15, <2>1 DEF HistoryTyped
<1>17. ASSUME NEW q \in DOMAIN proposals
       PROVE  /\ proposals'[q].memory = proposals[q].memory
              /\ proposals'[q].expected = proposals[q].expected
              /\ proposals'[q].change = proposals[q].change
  <2>1. CASE q = p
    BY <1>0, <1>7, <1>12, <2>1
  <2>2. CASE q # p
    BY <1>12, <2>2
  <2> QED BY <2>1, <2>2
<1>18. ProposalsFit'
  <2>1. ASSUME NEW q \in DOMAIN proposals'
        PROVE  /\ proposals'[q].memory \in DOMAIN records'
               /\ proposals'[q].change = "create" <=> proposals'[q].expected = 0
    BY <1>12, <1>13, <1>17 DEF HistoryInv, ProposalsFit
  <2> QED BY <2>1 DEF ProposalsFit
<1>19. CommitsFit'
  <2>1. ASSUME NEW i \in DOMAIN commits'
        PROVE  /\ commits'[i].memory \in DOMAIN records'
               /\ commits'[i].proposal \in DOMAIN proposals'
    <3>1. CASE i = new
      BY <1>3, <1>9, <1>12, <1>13, <1>14, <3>1
    <3>2. CASE i # new
      <4>1. i \in DOMAIN commits /\ commits'[i] = commits[i]
        BY <1>14, <2>1, <3>2
      <4> QED BY <1>12, <1>13, <4>1 DEF HistoryInv, CommitsFit
    <3> QED BY <3>1, <3>2
  <2> QED BY <2>1 DEF CommitsFit
<1>20. ReadsFit'
  <2>1. \A r \in reads : r.token \in Nat /\ r.token <= revision /\ revision \in Nat
    BY DEF HistoryInv, ReadsFit, HistoryTyped, ReadRow
  <2>2. \A r \in reads' : r.token <= revision' /\ r.token # revision'
    BY <1>1, <2>1
  <2> QED BY <1>1, <2>2 DEF HistoryInv, ReadsFit
<1>21. AppliedFits'
  <2>1. AppliedFits
    BY RecordsOneByOne DEF HistoryInv
  <2>2. ASSUME NEW q \in DOMAIN proposals'
        PROVE  proposals'[q].status = "applied" <=> \E i \in DOMAIN commits' : commits'[i].proposal = q
    <3>1. CASE q = p
      <4>1. proposals'[q].status = "applied"
        BY <1>7, <1>12, <3>1
      <4>2. new \in DOMAIN commits' /\ commits'[new].proposal = q
        BY <1>9, <1>14, <3>1
      <4> QED BY <4>1, <4>2
    <3>2. CASE q # p
      <4>1. proposals'[q] = proposals[q] /\ q \in DOMAIN proposals
        BY <1>12, <2>2, <3>2
      <4>2. (\E i \in DOMAIN commits' : commits'[i].proposal = q) <=> \E i \in DOMAIN commits : commits[i].proposal = q
        BY <1>9, <1>14, <3>2
      <4> QED BY <2>1, <4>1, <4>2 DEF AppliedFits
    <3> QED BY <3>1, <3>2
  <2> QED BY <2>2 DEF AppliedFits
<1>22. \A m \in DOMAIN records : M!CreatesOf(m)' = M!CreatesOf(m)
  BY <1>12, <1>17 DEF M!CreatesOf
<1>23. \A i \in DOMAIN commits :
         /\ commits[i].proposal \in DOMAIN proposals
         /\ proposals'[commits[i].proposal].expected = proposals[commits[i].proposal].expected
         /\ proposals'[commits[i].proposal].change = proposals[commits[i].proposal].change
  BY <1>17 DEF HistoryInv, CommitsFit
<1>24. ASSUME NEW m \in DOMAIN records, m # m0 PROVE ChainFits(m)' /\ CreateFits(m)'
  <2>1. M!Made(m)' = M!Made(m)
    BY <1>9, <1>14, <1>24 DEF M!Made
  <2>2. ChainFits(m) /\ CreateFits(m)
    BY RecordsOneByOne DEF HistoryInv
  <2>3. records'[m] = records[m]
    BY <1>13, <1>24
  <2>4. \A i \in M!Made(m) : i \in DOMAIN commits /\ commits'[i] = commits[i]
    BY <1>14 DEF M!Made
  <2>5. M!Made(m) # {} => M!Latest(M!Made(m)) \in M!Made(m)
    BY MadeCommits DEF HistoryInv
  <2>6. ASSUME NEW i \in M!Made(m)'
        PROVE  /\ commits'[i].parent = M!Latest({j \in M!Made(m)' : j < i})
               /\ commits'[i].parent = proposals'[commits'[i].proposal].expected
    BY <1>23, <2>1, <2>2, <2>4 DEF ChainFits
  <2>7. records'[m].head = M!Latest(M!Made(m)')
    BY <2>1, <2>2, <2>3 DEF ChainFits
  <2>8. M!Made(m)' # {} =>
           records'[m].status = M!NextStatus(proposals'[commits'[M!Latest(M!Made(m)')].proposal].change)
    BY <1>23, <2>1, <2>2, <2>3, <2>4, <2>5 DEF ChainFits
  <2>9. ChainFits(m)'
    BY <2>6, <2>7, <2>8 DEF ChainFits, M!Latest, M!NextStatus, M!Max
  <2>10. p \notin M!CreatesOf(m)
    BY <1>0, <1>24 DEF M!CreatesOf
  <2>11. \A q \in M!CreatesOf(m) : proposals'[q] = proposals[q]
    BY <1>12, <2>10 DEF M!CreatesOf
  <2>12. CreateFits(m)'
    BY <1>22, <2>2, <2>3, <2>11 DEF CreateFits
  <2> QED BY <2>9, <2>12
<1>25. ChainFits(m0)'
  <2>1. ChainFits(m0)
    BY <1>3, RecordsOneByOne DEF HistoryInv
  <2>2. M!Made(m0)' = M!Made(m0) \cup {new} /\ M!Made(m0) \subseteq DOMAIN commits
    BY <1>9, <1>14 DEF M!Made
  <2>3. M!Latest(M!Made(m0)') = new
    <3>1. M!Made(m0)' \in SUBSET (1..new) /\ new \in M!Made(m0)'
      BY <1>2, <1>11, <2>2
    <3>2. M!Latest(M!Made(m0)') \in M!Made(m0)' /\ new <= M!Latest(M!Made(m0)')
      BY <1>11, <3>1, LatestCommit
    <3> QED BY <1>11, <3>1, <3>2
  <2>4. ASSUME NEW i \in M!Made(m0)
        PROVE  {j \in M!Made(m0)' : j < i} = {j \in M!Made(m0) : j < i}
    BY <1>2, <1>11, <2>2
  <2>5. {j \in M!Made(m0)' : j < new} = M!Made(m0)
    BY <1>2, <1>11, <2>2
  <2>6. ASSUME NEW i \in M!Made(m0)'
        PROVE  /\ commits'[i].parent = M!Latest({j \in M!Made(m0)' : j < i})
               /\ commits'[i].parent = proposals'[commits'[i].proposal].expected
    <3>1. CASE i = new
      <4>1. commits'[i].parent = records[m0].head /\ commits'[i].proposal = p
        BY <1>9, <1>14, <3>1
      <4>2. records[m0].head = M!Latest(M!Made(m0))
        BY <2>1 DEF ChainFits
      <4>3. proposals'[p].expected = records[m0].head
        BY <1>1, <1>17
      <4> QED BY <2>5, <3>1, <4>1, <4>2, <4>3
    <3>2. CASE i # new
      <4>1. i \in M!Made(m0) /\ i \in DOMAIN commits /\ commits'[i] = commits[i]
        BY <1>14, <2>2, <2>6, <3>2
      <4>2. /\ commits[i].parent = M!Latest({j \in M!Made(m0) : j < i})
            /\ commits[i].parent = proposals[commits[i].proposal].expected
        BY <2>1, <4>1 DEF ChainFits
      <4> QED BY <1>23, <2>4, <4>1, <4>2
    <3> QED BY <3>1, <3>2
  <2>7. records'[m0].head = M!Latest(M!Made(m0)')
    BY <1>8, <1>13, <2>3
  <2>8. records'[m0].status = M!NextStatus(proposals'[commits'[M!Latest(M!Made(m0)')].proposal].change)
    <3>1. commits'[new].proposal = p /\ proposals'[p].change = proposals[p].change
      BY <1>9, <1>14, <1>17
    <3>2. records'[m0].status = status
      BY <1>8, <1>13
    <3> QED BY <1>10, <2>3, <3>1, <3>2
  <2>9. /\ \A i \in M!Made(m0)' :
             /\ commits'[i].parent = M!Latest({j \in M!Made(m0)' : j < i})
             /\ commits'[i].parent = proposals'[commits'[i].proposal].expected
        /\ records'[m0].head = M!Latest(M!Made(m0)')
        /\ records'[m0].status = M!NextStatus(proposals'[commits'[M!Latest(M!Made(m0)')].proposal].change)
    BY <2>6, <2>7, <2>8
  <2> QED BY <2>9 DEF ChainFits, M!Latest, M!NextStatus, M!Max
<1>26. CreateFits(m0)'
  <2>1. CreateFits(m0)
    BY <1>3, RecordsOneByOne DEF HistoryInv
  <2>2. PICK q \in M!CreatesOf(m0) :
          /\ M!CreatesOf(m0) = {q}
          /\ records[m0].status = "reserved" <=> proposals[q].status \in {"awaiting_review", "approved"}
          /\ records[m0].status = "discarded" <=> proposals[q].status = "rejected"
    BY <2>1 DEF CreateFits
  <2>3. records'[m0].status \notin {"reserved", "discarded"}
    BY <1>5, <1>8, <1>13
  <2>4. proposals'[q].status \notin {"awaiting_review", "approved", "rejected"}
    <3>1. CASE q = p
      BY <1>7, <1>12, <3>1
    <3>2. CASE q # p
      <4>1. proposals[p].change # "create"
        BY <1>0, <2>2, <3>2 DEF M!CreatesOf
      <4>2. records[m0].status \in {"active", "obsolete"}
        BY <1>1, <1>4, <4>1 DEF M!Permitted, M!Changes, M!Readable
      <4>3. q \in DOMAIN proposals /\ proposals'[q] = proposals[q]
        BY <1>12, <3>2 DEF M!CreatesOf
      <4> QED BY <2>2, <4>2, <4>3
    <3> QED BY <3>1, <3>2
  <2>5. M!CreatesOf(m0)' = {q}
    BY <1>3, <1>22, <2>2
  <2> QED BY <2>3, <2>4, <2>5 DEF CreateFits
<1>27. \A m \in DOMAIN records' : ChainFits(m)' /\ CreateFits(m)'
  BY <1>13, <1>24, <1>25, <1>26
<1> QED BY <1>16, <1>18, <1>19, <1>20, <1>21, <1>27, HistoryStands

\* Records, commits and proposals that stay are served as they were.
LEMMA RecordsSleep ==
  ASSUME HistoryInv, UNCHANGED <<records, commits, proposals>>
  PROVE  M!RecordsFollowProposals' /\ ProposalsFit' /\ CommitsFit'
<1>1. ProposalsStand
  BY DEF ProposalsStand
<1>2. ASSUME NEW m \in DOMAIN records PROVE ChainFits(m)' /\ CreateFits(m)'
  <2>1. ChainFits(m)'
    BY <1>1, ChainStands
  <2>2. CreateFits(m)
    BY RecordsOneByOne DEF HistoryInv
  <2>3. M!CreatesOf(m)' = M!CreatesOf(m)
    BY DEF M!CreatesOf
  <2>4. CreateFits(m)'
    BY <2>2, <2>3 DEF CreateFits
  <2> QED BY <2>1, <2>4
<1>3. AppliedFits'
  BY <1>1, AppliedStands
<1>4. \A m \in DOMAIN records' : ChainFits(m)' /\ CreateFits(m)'
  BY <1>2
<1>5. M!RecordsFollowProposals'
  BY <1>3, <1>4 DEF M!RecordsFollowProposals, ChainFits, CreateFits, AppliedFits
<1>6. ProposalsFit' /\ CommitsFit'
  BY DEF HistoryInv, ProposalsFit, CommitsFit
<1> QED BY <1>5, <1>6

\* A search stores what it selects under the token the scope has now.
LEMMA HistorySearches ==
  ASSUME HistoryInv, NEW n, NEW text \in Maybe, NEW status \in M!Readable, M!Search(n, text, status)
  PROVE  HistoryInv'
<1> DEFINE read == [token |-> revision, text |-> text, status |-> status,
                    selected |-> M!Selected(text, status)]
<1>1. reads' = reads \cup {read} /\ UNCHANGED <<records, commits, proposals, revision, index>>
  BY DEF M!Search
<1>2. M!Selected(text, status) \subseteq Nat \X Nat \X Maybe
  <2>1. \A m \in M!Candidates(text) : m \in DOMAIN records
    BY DEF M!Candidates
  <2>2. \A m \in DOMAIN records : m \in Nat /\ records[m].head \in Nat /\ records[m].content \in Maybe
    BY HistoryRows DEF HistoryInv, RecordRow
  <2> QED BY <2>1, <2>2 DEF M!Selected
<1>3. /\ read \in ReadRow /\ read.token = revision /\ read.text = text /\ read.status = status
      /\ read.selected = M!Selected(text, status)
  <2>1. revision \in Nat
    BY DEF HistoryInv, HistoryTyped
  <2> QED BY <1>2, <2>1 DEF ReadRow
<1> HIDE DEF read
<1>4. HistoryTyped'
  BY <1>1, <1>3 DEF HistoryInv, HistoryTyped, ReadRow, M!Readable
<1>5. \A x, y : M!Selected(x, y)' = M!Selected(x, y)
  BY <1>1 DEF M!Selected, M!Candidates, M!Readable
<1>6. ASSUME NEW r \in reads' PROVE r.token <= revision' /\ (r.token = revision' => r.selected = M!Selected(r.text, r.status)')
  <2>1. CASE r = read
    <3>1. revision <= revision
      BY DEF HistoryInv, HistoryTyped
    <3> QED BY <1>1, <1>3, <1>5, <2>1, <3>1
  <2>2. CASE r # read
    <3>1. r \in reads
      BY <1>1, <1>6, <2>2
    <3> QED BY <1>1, <1>5, <3>1 DEF HistoryInv, ReadsFit
  <2> QED BY <2>1, <2>2
<1>7. ASSUME NEW r \in reads', NEW q \in reads', r.token = q.token, r.text = q.text, r.status = q.status
      PROVE  r.selected = q.selected
  <2>1. CASE r \in reads /\ q \in reads
    BY <1>7, <2>1 DEF HistoryInv, ReadsFit
  <2>2. CASE r.token = revision
    BY <1>1, <1>5, <1>6, <1>7, <2>2
  <2>3. CASE r.token # revision
    BY <1>1, <1>3, <1>7, <2>1, <2>3
  <2> QED BY <2>2, <2>3
<1>8. ReadsFit'
  BY <1>6, <1>7 DEF ReadsFit
<1>9. M!RecordsFollowProposals' /\ ProposalsFit' /\ CommitsFit'
  BY <1>1, RecordsSleep
<1> QED BY <1>4, <1>8, <1>9 DEF HistoryInv

\* A step that touches none of the rows keeps what they say.
LEMMA HistorySleeps ==
  ASSUME HistoryInv, UNCHANGED <<records, commits, proposals, revision, index, reads>>
  PROVE  HistoryInv'
<1>1. HistoryTyped'
  BY DEF HistoryInv, HistoryTyped, ReadRow, M!Readable
<1>2. \A x, y : M!Selected(x, y)' = M!Selected(x, y)
  BY DEF M!Selected, M!Candidates, M!Readable
<1>3. ReadsFit'
  BY <1>2 DEF HistoryInv, ReadsFit
<1>4. M!RecordsFollowProposals' /\ ProposalsFit' /\ CommitsFit'
  BY RecordsSleep
<1> QED BY <1>1, <1>3, <1>4 DEF HistoryInv

\* Every step of memory keeps it.
LEMMA HistoryAdvance ==
  ASSUME HistoryInv, MemoryInv, M!Next
  PROVE  HistoryInv'
<1>1. ASSUME NEW k, NEW c \in M!Commands, M!Propose(k, c) PROVE HistoryInv'
  <2> DEFINE cs == <<c>>
  <2>1. M!Inserts(cs, None) /\ UNCHANGED <<commits, revision, reads>>
    BY <1>1 DEF M!Propose
  <2>2. DOMAIN cs = 1..1 /\ Len(cs) = 1 /\ \A i \in 1..1 : cs[i] \in M!Commands
    OBVIOUS
  <2> HIDE DEF cs
  <2>3. NumbersCreates(cs)
    BY <2>2, OneIsNumbered
  <2> QED BY <2>1, <2>2, <2>3, HistoryProposes
<1>2. ASSUME NEW n \in Nodes, NEW c \in M!Commands, M!PrepareReview(n, <<c>>) PROVE HistoryInv'
  <2> DEFINE cs == <<c>>
  <2>1. M!Inserts(cs, n) /\ UNCHANGED <<commits, revision, reads>>
    BY <1>2 DEF M!PrepareReview
  <2>2. DOMAIN cs = 1..1 /\ Len(cs) = 1 /\ \A i \in 1..1 : cs[i] \in M!Commands
    OBVIOUS
  <2> HIDE DEF cs
  <2>3. NumbersCreates(cs)
    BY <2>2, OneIsNumbered
  <2> QED BY <2>1, <2>2, <2>3, HistoryProposes
<1>3. ASSUME NEW n \in Nodes, NEW c \in M!Commands, NEW d \in M!Commands, M!PrepareReview(n, <<c, d>>)
      PROVE  HistoryInv'
  <2> DEFINE cs == <<c, d>>
  <2>1. M!Inserts(cs, n) /\ UNCHANGED <<commits, revision, reads>>
    BY <1>3 DEF M!PrepareReview
  <2>2. DOMAIN cs = 1..2 /\ Len(cs) = 2 /\ \A i \in 1..2 : cs[i] \in M!Commands
    OBVIOUS
  <2> HIDE DEF cs
  <2>3. NumbersCreates(cs)
    BY <2>2, TwoAreNumbered
  <2> QED BY <2>1, <2>2, <2>3, HistoryProposes
<1>4. ASSUME NEW n \in Nodes, M!EndRun(n) PROVE HistoryInv'
  BY <1>4, HistorySleeps DEF M!EndRun
<1>5. M!Callers => HistoryInv'
  BY <1>1, HistoryApplies, HistoryConflicts, HistoryIsDecided DEF M!Callers
<1>6. M!LlmNodes => HistoryInv'
  BY <1>2, <1>3, <1>4, HistorySearches, HistoryIsDecided DEF M!LlmNodes, Maybe
<1> QED BY <1>5, <1>6 DEF M!Next

\* At first there is nothing.
LEMMA HistoryBegins ==
  ASSUME M!Init
  PROVE  HistoryInv
<1>1. records = <<>> /\ commits = <<>> /\ proposals = <<>> /\ revision = 0 /\ index = <<>> /\ reads = {}
  BY DEF M!Init
<1>2. HistoryTyped
  BY <1>1 DEF HistoryTyped
<1>3. DOMAIN records = {} /\ DOMAIN proposals = {} /\ DOMAIN commits = {}
  BY <1>1
<1> QED BY <1>1, <1>2, <1>3 DEF HistoryInv, ProposalsFit, CommitsFit, ReadsFit, M!RecordsFollowProposals

\* The invariant is what the property asks for, and more.
LEMMA HistoryServed ==
  ASSUME HistoryInv
  PROVE  M!RecordsFollowProposals /\ M!TokensNameWhatWasRead
<1>1. ASSUME NEW r \in reads, NEW q \in reads, [r EXCEPT !.selected = {}] = [q EXCEPT !.selected = {}]
      PROVE  r.selected = q.selected
  <2> DEFINE blank(x) == [x EXCEPT !.selected = {}]
  <2>1. ASSUME NEW x \in reads
        PROVE  blank(x).token = x.token /\ blank(x).text = x.text /\ blank(x).status = x.status
    <3>1. x \in ReadRow
      BY DEF HistoryInv, HistoryTyped
    <3> QED BY <3>1 DEF ReadRow
  <2>2. blank(r) = blank(q)
    BY <1>1
  <2> HIDE DEF blank
  <2>3. r.token = q.token /\ r.text = q.text /\ r.status = q.status
    BY <2>1, <2>2
  <2> QED BY <2>3 DEF HistoryInv, ReadsFit
<1> QED BY <1>1 DEF HistoryInv, M!TokensNameWhatWasRead
-----------------------------------------------------------------------------
(* The composition: the invariant of the service that is awake.             *)
StoresInv ==
  /\ which = "files" => FilesInv
  /\ which = "plugins" => PluginsInv
  /\ which = "publishing" => PublishingInv
  /\ which = "secrets" => SecretsInv
  /\ which = "memory" => MemoryInv /\ HistoryInv
  /\ which = "journal" => JournalInv
Lawful ==
  /\ which = "secrets" => S!SessionDelivers
  /\ which = "files" => A!Advances
  /\ which = "plugins" => P!UpdateAsksNothing
  /\ which = "publishing" => U!PinKept

\* Every service starts within its invariant.
LEMMA StoresBegin ==
  ASSUME Init
  PROVE  StoresInv
BY FilesBegin, PluginsBegin, PublishingBegin, SecretsBegin, MemoryBegin, HistoryBegins, JournalBegin
   DEF Init, StoresInv

\* The service that is awake keeps its invariant and steps lawfully; the others
\* stay asleep.
LEMMA StoresAdvance ==
  ASSUME StoresInv, Next
  PROVE  StoresInv' /\ Lawful
<1>1. CASE which = "files" /\ A!Next /\ UNCHANGED which
  BY <1>1, FilesAdvance DEF StoresInv, Lawful, FilesStep
<1>2. CASE which = "plugins" /\ P!Next /\ UNCHANGED which
  BY <1>2, PluginsAdvance DEF StoresInv, Lawful, PluginsStep
<1>3. CASE which = "publishing" /\ U!Next /\ UNCHANGED which
  BY <1>3, PublishingAdvance DEF StoresInv, Lawful, PublishingStep
<1>4. CASE which = "secrets" /\ S!Next /\ UNCHANGED which
  BY <1>4, SecretsAdvance DEF StoresInv, Lawful, SecretsStep
<1>5. CASE which = "memory" /\ M!Next /\ UNCHANGED which
  BY <1>5, MemoryAdvance, HistoryAdvance DEF StoresInv, Lawful
<1>6. CASE which = "journal" /\ J!Next /\ UNCHANGED which
  BY <1>6, JournalAdvance DEF StoresInv, Lawful
<1>7. CASE which = "model" /\ UNCHANGED which
  BY <1>7 DEF StoresInv, Lawful
<1> QED BY <1>1, <1>2, <1>3, <1>4, <1>5, <1>6, <1>7 DEF Next

\* Where nothing happens the invariants stay.
LEMMA StoresRest ==
  ASSUME StoresInv, UNCHANGED vars
  PROVE  StoresInv'
<1>1. /\ which' = which
      /\ UNCHANGED memory /\ UNCHANGED secrets /\ UNCHANGED files
      /\ UNCHANGED plugins /\ UNCHANGED publishing /\ UNCHANGED journal
  BY DEF vars
<1>2. FilesInv => FilesInv'
  BY <1>1 DEF files, FilesInv, FilesTyped, UploadServed, ArtifactServed, IsLive
<1>3. PluginsInv => PluginsInv'
  BY <1>1 DEF plugins, PluginsInv, PluginsTyped, RowHolds, TaskHolds, Registered, Compared,
     P!Grants
<1>4. PublishingInv => PublishingInv'
  BY <1>1 DEF publishing, PublishingInv, PublishingTyped, ReceiptHolds, RunHolds, Means
<1>5. SecretsInv => SecretsInv'
  BY <1>1 DEF secrets, SecretsInv, SecretsTyped, S!Waiting
<1>6. MemoryInv => MemoryInv'
  BY <1>1 DEF memory, MemoryInv, MemoryTyped, IsOpen
<1>7. JournalInv => JournalInv'
  BY <1>1, JournalRests DEF journal
<1>8. HistoryInv => HistoryInv'
  BY <1>1, HistorySleeps DEF memory
<1> QED BY <1>1, <1>2, <1>3, <1>4, <1>5, <1>6, <1>7, <1>8 DEF StoresInv

\* In every reachable state the service that is awake is within its invariant.
LEMMA StoresHold == Spec => []StoresInv
<1>1. StoresInv /\ [Next]_vars => StoresInv'
  BY StoresAdvance, StoresRest
<1> QED BY <1>1, StoresBegin, PTL DEF Spec

\* An object that an artifact, a staged upload, a draft or a graph refers to is
\* there: the collector and the maintenance of uploads never take one that
\* somebody still needs, however uploads, commits, rejections, leases that run
\* out and collections interleave (artifact/commit.rs, artifact/maintenance.rs,
\* object_gc.rs).
THEOREM ObjectsServe == Spec => []OwnersFindTheirObjects
<1>1. StoresInv => OwnersFindTheirObjects
  BY FilesServed DEF StoresInv, OwnersFindTheirObjects
<1> QED BY <1>1, StoresHold, PTL

\* A registered candidate or version has its files, whatever a crash, an error,
\* a discarded download or a second registration of the same package did in
\* between (plugin-host staging.rs:40-126, manager.rs:39-72), unless staging
\* reported an error after the row was written (registry.rs:58-68); and what is
\* installed has its files without that exception.
THEOREM PackagesServe == Spec => []PackagesAreWhole
<1>1. StoresInv => PackagesAreWhole
  BY PluginsServed DEF StoresInv, PackagesAreWhole
<1> QED BY <1>1, StoresHold, PTL

\* Whoever applies a draft gets a revision that is the document he saw, and what
\* an attempt has pinned serves its node, whatever was published, replayed or
\* disabled between (graph apply.rs, draft.rs, llm_snapshot.rs).
THEOREM RevisionsAreServed == Spec => []RevisionsServe
<1>1. StoresInv => RevisionsServe
  BY PublishingServed DEF StoresInv, RevisionsServe
<1> QED BY <1>1, StoresHold, PTL

\* No node waits for an unlock that was given, and no open review is blocked on
\* a proposal that somebody else has decided (secret unlock.rs and
\* runtime_wait.rs, memory decide.rs).
THEOREM WaitsHold == Spec => []WaitsAreServed
<1>1. StoresInv => WaitsAreServed
  BY SecretsServed, MemoryServed DEF StoresInv, WaitsAreServed
<1> QED BY <1>1, StoresHold, PTL

\* No decided change to memory is lost or applied to a head its author had not
\* read, and a stored search keeps the token of the memory it was read from,
\* however proposals, reviews, decisions and applications interleave (apply.rs,
\* decide.rs and search.rs of memory).
THEOREM MemoryServes == Spec => []MemoryFollowsProposals
<1>1. StoresInv => MemoryFollowsProposals
  BY HistoryServed DEF StoresInv, MemoryFollowsProposals
<1> QED BY <1>1, StoresHold, PTL

\* Neither the recovery of the runs at startup nor a client that resumes its event
\* stream misses an event, whatever was compacted and however often the stream was
\* cut (checkpoint.rs, event_compaction.rs, run_events of api/runtime.rs).
THEOREM ReadersAreServed == Spec => []JournalServesItsReaders
<1>1. StoresInv => JournalServesItsReaders
  BY JournalServed DEF StoresInv, JournalServesItsReaders
<1> QED BY <1>1, StoresHold, PTL

\* No step resolves a wait in the name of another session, moves an upload
\* backwards, adds a permission by an automatic update or changes what an
\* attempt has pinned.
THEOREM LawfulSteps == Spec => StepsAreLawful
<1>1. StoresInv /\ [Next]_vars => [Lawful]_vars
  BY StoresAdvance
<1>2. [][Lawful]_vars => StepsAreLawful
  BY PTL DEF Lawful, StepsAreLawful
<1> QED BY <1>1, <1>2, StoresHold, PTL DEF Spec
=============================================================================
