------------------------ MODULE DocumentUploadProofs ------------------------
(***************************************************************************)
(* The safety of document uploads, proved for every set of requests,       *)
(* projects, documents and object ids.                                     *)
(*                                                                         *)
(* The bytes: the staging directories of the uploads that write to them    *)
(* are distinct and hold what their upload wrote (StagingOwned), and from  *)
(* the rename on the object of an upload never changes (ObjectsKept).      *)
(* The project: an upload that drafts a version has a document of its own  *)
(* project, or one that it creates and that no other upload drafts for     *)
(* (FiledInProject).  The numbers: a maximum that was read is never above  *)
(* the number of committed versions, an inserted version has the next      *)
(* number, and two open transactions never insert into one document        *)
(* (Numbered).                                                             *)
(***************************************************************************)
EXTENDS DocumentUpload, FiniteSetTheorems, TLAPS

\* The steps that work in the staging directory, and those of create_draft that
\* have a document.
Staging == {"payload", "metadata", "rename"}
Drafting == {"number", "insert", "commit"}

\* What a request has been given by the time it reaches a step.
FieldsSet ==
    \A u \in Uploads :
        /\ upload[u].at \notin {"idle", "failed"} => upload[u].project \in Projects
        /\ upload[u].at \notin {"idle", "check", "failed"} => upload[u].object \in ObjectIds
        /\ upload[u].at \in Drafting \cup {"done"} => upload[u].document \in Documents
        /\ upload[u].at # "commit" => upload[u].row = {}

\* An upload that writes has a staging directory to itself, with its own bytes.
StagingOwned ==
    /\ \A u \in Uploads :
          /\ upload[u].at \in Staging => staging[upload[u].object].made
          /\ upload[u].at \in {"metadata", "rename"} => staging[upload[u].object].payload = u
          /\ upload[u].at = "rename" => staging[upload[u].object].digest = u
    /\ \A u, b \in Uploads :
          upload[u].at \in Staging /\ upload[b].at \in Staging /\ u # b
             => upload[u].object # upload[b].object

\* The object of an upload that drafts a version, and of every version, is complete.
Holds(k, u) == stored[k] = [made |-> TRUE, payload |-> u, digest |-> u]
ObjectsKept ==
    /\ \A u \in Uploads :
          upload[u].at \in Drafting \cup {"document"} => Holds(KeyOf(u), u)
    /\ \A r \in versions : Holds(r.source, r.hash)

\* A draft's document is of its project, or is created by it alone; a version is
\* of a completed upload and of the project of its document.
FiledInProject ==
    /\ \A u \in Uploads : upload[u].at \in Drafting =>
          \/ project[upload[u].document] = upload[u].project
          \/ /\ project[upload[u].document] = None
             /\ \A b \in Uploads \ {u} :
                   upload[b].at \in Drafting => upload[b].document # upload[u].document
    /\ \A r \in versions :
          /\ upload[r.hash].at = "done"
          /\ project[r.document] = upload[r.hash].project
          /\ r.source[1] = upload[r.hash].project

\* The numbers are dense, and every draft has the next number of its document.
VersionsOf(d) == {r \in versions : r.document = d}
NextNumber(d) == Cardinality(VersionsOf(d)) + 1
Draft(u) == [document |-> upload[u].document, no |-> NextNumber(upload[u].document),
             source |-> KeyOf(u), hash |-> u]
Numbered ==
    /\ IsFiniteSet(versions)
    /\ VersionNumbersAreDense
    /\ \A u \in Uploads :
          /\ upload[u].at = "insert" => upload[u].max < NextNumber(upload[u].document)
          /\ upload[u].at = "commit" => upload[u].row = {Draft(u)}
    /\ \A u, b \in Uploads :
          upload[u].at = "commit" /\ upload[b].at = "commit" /\ u # b
             => upload[u].document # upload[b].document

UploadInv == TypeOK /\ FieldsSet /\ StagingOwned /\ ObjectsKept /\ FiledInProject /\ Numbered

-----------------------------------------------------------------------------
\* A step of upload u leaves the other uploads alone.
OnlyChanges(u) ==
    /\ upload' \in [Uploads -> Upload]
    /\ \A b \in Uploads \ {u} : upload'[b] = upload[b]

\* What Fails and Goto do to the record of an upload.
LEMMA FailsEffect ==
    ASSUME TypeOK, NEW u \in Uploads, Fails(u)
    PROVE  /\ OnlyChanges(u)
           /\ upload'[u].at = "failed" /\ upload'[u].row = {}
<1>1. [NewUpload EXCEPT !.at = "failed"] \in Upload
  BY DEF NewUpload, Upload, Steps
<1>2. QED
  BY <1>1 DEF Fails, TypeOK, OnlyChanges, NewUpload

LEMMA GotoEffect ==
    ASSUME TypeOK, NEW u \in Uploads, NEW a \in Steps, Goto(u, a)
    PROVE  /\ OnlyChanges(u)
           /\ upload'[u] = [upload[u] EXCEPT !.at = a]
           /\ upload'[u].at = a /\ upload'[u].project = upload[u].project
           /\ upload'[u].document = upload[u].document /\ upload'[u].object = upload[u].object
           /\ upload'[u].max = upload[u].max /\ upload'[u].row = upload[u].row
<1>1. upload[u] \in Upload
  BY DEF TypeOK
<1>2. [upload[u] EXCEPT !.at = a] \in Upload
  BY <1>1 DEF Upload
<1>3. upload' = [upload EXCEPT ![u] = [upload[u] EXCEPT !.at = a]]
  BY DEF Goto
<1>4. QED
  BY <1>1, <1>2, <1>3 DEF TypeOK, OnlyChanges, Upload

\* A step outside the staging directories and not into a staging step.
LEMMA StagingKept ==
    ASSUME StagingOwned, NEW u \in Uploads, OnlyChanges(u), upload'[u].at \notin Staging,
           UNCHANGED staging
    PROVE  StagingOwned'
  BY DEF StagingOwned, OnlyChanges, Staging

\* The directory of u is removed while the others' stay.
LEMMA StagingRemoved ==
    ASSUME TypeOK, FieldsSet, StagingOwned, NEW u \in Uploads, OnlyChanges(u),
           upload[u].at \in Staging, upload'[u].at \notin Staging,
           staging' = [staging EXCEPT ![upload[u].object] = NoDirectory]
    PROVE  staging' \in [ObjectIds -> Directory] /\ StagingOwned'
<1>1. NoDirectory \in Directory
  BY DEF NoDirectory, Directory
<1>2. \A b \in Uploads \ {u} : upload[b].at \in Staging =>
          /\ upload[b].object \in ObjectIds /\ upload[b].object # upload[u].object
          /\ staging'[upload[b].object] = staging[upload[b].object]
  BY DEF StagingOwned, FieldsSet, Staging, TypeOK
<1>3. staging' \in [ObjectIds -> Directory]
  BY <1>1 DEF TypeOK
<1>4. QED
  BY <1>2, <1>3 DEF StagingOwned, OnlyChanges, Staging

\* The objects stay where they are, and u comes to name none but its own.
LEMMA ObjectsStay ==
    ASSUME ObjectsKept, NEW u \in Uploads, OnlyChanges(u), UNCHANGED <<stored, versions>>,
           upload'[u].at \in Drafting \cup {"document"} =>
              /\ upload[u].at \in Drafting \cup {"document"}
              /\ upload'[u].project = upload[u].project
              /\ upload'[u].object = upload[u].object
    PROVE  ObjectsKept'
<1>1. ASSUME NEW b \in Uploads, upload'[b].at \in Drafting \cup {"document"}
      PROVE  Holds(KeyOf(b), b)'
  <2>1. CASE b = u
    BY <1>1, <2>1 DEF ObjectsKept, Holds, KeyOf
  <2>2. CASE b # u
    BY <1>1, <2>2 DEF ObjectsKept, Holds, KeyOf, OnlyChanges
  <2>3. QED
    BY <2>1, <2>2
<1>2. \A r \in versions : Holds(r.source, r.hash)'
  BY DEF ObjectsKept, Holds
<1>3. QED
  BY <1>1, <1>2 DEF ObjectsKept

\* The rows stay as they are, and u, which is not done, is not drafting next.
LEMMA RowsStay ==
    ASSUME TypeOK, FiledInProject, Numbered, NEW u \in Uploads, OnlyChanges(u),
           UNCHANGED dbVars, upload[u].at # "done", upload'[u].at \notin Drafting
    PROVE  FiledInProject' /\ Numbered'
<1>1. FiledInProject'
  <2>1. \A r \in versions : r.hash \in Uploads /\ upload'[r.hash] = upload[r.hash]
    BY DEF FiledInProject, TypeOK, Row, OnlyChanges
  <2>2. QED
    BY <2>1 DEF FiledInProject, OnlyChanges, dbVars, Drafting
<1>2. \A d : NextNumber(d)' = NextNumber(d)
  BY DEF NextNumber, VersionsOf, dbVars
<1>3. VersionNumbersAreDense'
  BY DEF Numbered, VersionNumbersAreDense, NumbersOf, dbVars
<1>4. ASSUME NEW b \in Uploads, upload'[b].at \in {"insert", "commit"}
      PROVE  b # u /\ upload'[b] = upload[b] /\ Draft(b)' = Draft(b)
  BY <1>2, <1>4 DEF OnlyChanges, Drafting, Draft, KeyOf
<1>5. QED
  BY <1>1, <1>2, <1>3, <1>4 DEF Numbered, dbVars

-----------------------------------------------------------------------------
LEMMA UploadInitInv == UploadInit => UploadInv
<1> SUFFICES ASSUME UploadInit PROVE UploadInv
  OBVIOUS
<1>1. NewUpload \in Upload /\ NoDirectory \in Directory
  BY DEF NewUpload, Upload, Steps, NoDirectory, Directory
<1>2. TypeOK
  BY <1>1, UploadAssumption DEF UploadInit, TypeOK
<1>3. \A u \in Uploads : upload[u].at = "idle" /\ upload[u].row = {}
  BY DEF UploadInit, NewUpload
<1>4. FieldsSet /\ StagingOwned /\ ObjectsKept /\ FiledInProject
  BY <1>3 DEF UploadInit, FieldsSet, StagingOwned, ObjectsKept, FiledInProject, Staging, Drafting
<1>5. VersionNumbersAreDense
  <2>1. \A d \in Documents : {r \in versions : r.document = d} = {} /\ NumbersOf(d) = {}
    BY DEF UploadInit, NumbersOf
  <2>2. 1..Cardinality({}) = {}
    BY FS_EmptySet
  <2>3. QED
    BY <2>1, <2>2 DEF VersionNumbersAreDense
<1>6. Numbered
  BY <1>3, <1>5, FS_EmptySet DEF UploadInit, Numbered
<1>7. QED
  BY <1>2, <1>4, <1>6 DEF UploadInv

\* A request that fails drops its record; at most its staging directory goes with it.
LEMMA FailKeeps ==
    ASSUME UploadInv, NEW u \in Uploads, Fails(u), upload[u].at # "done",
           UNCHANGED <<dbVars, stored>>, faults' \in 0..MaxFaults,
           \/ UNCHANGED staging
           \/ /\ upload[u].at \in Staging
              /\ staging' = [staging EXCEPT ![upload[u].object] = NoDirectory]
    PROVE  UploadInv'
<1> USE DEF UploadInv
<1>1. OnlyChanges(u) /\ upload'[u].at = "failed" /\ upload'[u].row = {}
  BY FailsEffect
<1>2. staging' \in [ObjectIds -> Directory] /\ StagingOwned'
  <2>1. CASE UNCHANGED staging
    BY <1>1, <2>1, StagingKept DEF TypeOK, Staging
  <2>2. CASE ~UNCHANGED staging
    BY <1>1, <2>2, StagingRemoved DEF Staging
  <2>3. QED
    BY <2>1, <2>2
<1>3. TypeOK'
  BY <1>1, <1>2 DEF TypeOK, OnlyChanges, dbVars
<1>4. FieldsSet'
  BY <1>1 DEF FieldsSet, OnlyChanges, Drafting
<1>5. ObjectsKept'
  BY <1>1, ObjectsStay DEF Drafting, dbVars
<1>6. FiledInProject' /\ Numbered'
  BY <1>1, RowsStay DEF Drafting
<1>7. QED
  BY <1>2, <1>3, <1>4, <1>5, <1>6

LEMMA RequestKeeps ==
    ASSUME UploadInv, NEW u \in Uploads, NEW p \in Projects, NEW d \in Documents \cup {None},
           Request(u, p, d)
    PROVE  UploadInv'
<1> USE DEF UploadInv
<1>1. CASE Fails(u)
  BY <1>1, FailKeeps DEF Request, fileVars, TypeOK
<1>2. CASE ~Fails(u)
  <2> DEFINE x == [upload[u] EXCEPT !.at = "check", !.project = p, !.document = d]
  <2>1. upload' = [upload EXCEPT ![u] = x]
    BY <1>2 DEF Request
  <2>2. upload[u] \in Upload /\ x \in Upload
    BY DEF TypeOK, Upload, Steps
  <2>3. x.at = "check" /\ x.project = p /\ x.row = upload[u].row
    BY <2>2 DEF Upload
  <2>4. upload[u].at = "idle" /\ UNCHANGED <<dbVars, staging, stored, faults>>
    BY DEF Request, fileVars
  <2> HIDE DEF x
  <2>5. OnlyChanges(u) /\ upload'[u] = x
    BY <2>1, <2>2 DEF OnlyChanges, TypeOK
  <2>6. TypeOK'
    BY <2>4, <2>5 DEF TypeOK, OnlyChanges, dbVars
  <2>7. FieldsSet'
    BY <2>3, <2>4, <2>5 DEF FieldsSet, OnlyChanges, Drafting
  <2>8. StagingOwned'
    BY <2>3, <2>4, <2>5, StagingKept DEF Staging
  <2>9. ObjectsKept'
    BY <2>3, <2>4, <2>5, ObjectsStay DEF Drafting, dbVars
  <2>10. FiledInProject' /\ Numbered'
    BY <2>3, <2>4, <2>5, RowsStay DEF Drafting
  <2>11. QED
    BY <2>6, <2>7, <2>8, <2>9, <2>10
<1>3. QED
  BY <1>1, <1>2

LEMMA CheckPathsKeeps ==
    ASSUME UploadInv, NEW u \in Uploads, CheckPaths(u)
    PROVE  UploadInv'
<1> USE DEF UploadInv
<1>1. CASE Fails(u)
  BY <1>1, FailKeeps DEF CheckPaths, fileVars, TypeOK
<1>2. CASE ~Fails(u)
  <2>1. PICK o \in ObjectIds :
           upload' = [upload EXCEPT ![u] = [upload[u] EXCEPT !.at = "mkdir", !.object = o]]
    BY <1>2 DEF CheckPaths
  <2> DEFINE x == [upload[u] EXCEPT !.at = "mkdir", !.object = o]
  <2>2. upload[u] \in Upload /\ x \in Upload
    BY DEF TypeOK, Upload, Steps
  <2>3. x.at = "mkdir" /\ x.project = upload[u].project /\ x.object = o /\ x.row = upload[u].row
    BY <2>2 DEF Upload
  <2>4. upload[u].at = "check" /\ UNCHANGED <<dbVars, staging, stored, faults>>
    BY DEF CheckPaths, fileVars
  <2> HIDE DEF x
  <2>5. OnlyChanges(u) /\ upload'[u] = x
    BY <2>1, <2>2 DEF OnlyChanges, TypeOK, x
  <2>6. TypeOK'
    BY <2>4, <2>5 DEF TypeOK, OnlyChanges, dbVars
  <2>7. FieldsSet'
    BY <2>3, <2>4, <2>5 DEF FieldsSet, OnlyChanges, Drafting
  <2>8. StagingOwned'
    BY <2>3, <2>4, <2>5, StagingKept DEF Staging
  <2>9. ObjectsKept'
    BY <2>3, <2>4, <2>5, ObjectsStay DEF Drafting, dbVars
  <2>10. FiledInProject' /\ Numbered'
    BY <2>3, <2>4, <2>5, RowsStay DEF Drafting
  <2>11. QED
    BY <2>6, <2>7, <2>8, <2>9, <2>10
<1>3. QED
  BY <1>1, <1>2

\* mkdir gives the directory to one upload: no staging upload has the same id,
\* because its directory would be there.
LEMMA MakeStagingKeeps ==
    ASSUME UploadInv, NEW u \in Uploads, MakeStaging(u)
    PROVE  UploadInv'
<1> USE DEF UploadInv
<1>1. CASE Fails(u) /\ UNCHANGED staging
  BY <1>1, FailKeeps DEF MakeStaging, TypeOK
<1>2. CASE /\ MakesStaging(u) /\ Goto(u, "payload")
           /\ staging' = [staging EXCEPT ![upload[u].object] = EmptyDirectory]
  <2>1. upload[u].at = "mkdir" /\ UNCHANGED <<dbVars, stored, faults>>
    BY DEF MakeStaging
  <2>2. /\ OnlyChanges(u)
        /\ upload'[u].at = "payload" /\ upload'[u].project = upload[u].project
        /\ upload'[u].object = upload[u].object /\ upload'[u].row = upload[u].row
    BY <1>2, GotoEffect DEF Steps
  <2>3. upload[u].object \in ObjectIds /\ ~staging[upload[u].object].made
    BY <1>2, <2>1 DEF FieldsSet, MakesStaging
  <2>4. EmptyDirectory \in Directory /\ EmptyDirectory.made
    BY DEF EmptyDirectory, NoDirectory, Directory
  <2>5. TypeOK'
    BY <1>2, <2>1, <2>2, <2>4 DEF TypeOK, OnlyChanges, dbVars
  <2>6. FieldsSet'
    BY <2>1, <2>2 DEF FieldsSet, OnlyChanges, Drafting
  <2>7. StagingOwned'
    <3>1. \A b \in Uploads \ {u} : upload[b].at \in Staging =>
             /\ upload[b].object # upload[u].object
             /\ staging'[upload[b].object] = staging[upload[b].object]
      BY <1>2, <2>3 DEF StagingOwned, FieldsSet, Staging, TypeOK
    <3>2. staging'[upload[u].object].made
      BY <1>2, <2>3, <2>4 DEF TypeOK
    <3>3. QED
      BY <2>2, <3>1, <3>2 DEF StagingOwned, OnlyChanges, Staging
  <2>8. ObjectsKept'
    BY <2>1, <2>2, ObjectsStay DEF Drafting, dbVars
  <2>9. FiledInProject' /\ Numbered'
    BY <2>1, <2>2, RowsStay DEF Drafting
  <2>10. QED
    BY <2>5, <2>6, <2>7, <2>8, <2>9
<1>3. QED
  BY <1>1, <1>2 DEF MakeStaging

\* payload.bin and metadata.json go to the directory that only this upload has.
LEMMA WritesKeep ==
    ASSUME UploadInv, NEW u \in Uploads, WritePayload(u) \/ WriteMetadata(u)
    PROVE  UploadInv'
<1> USE DEF UploadInv
<1> DEFINE o == upload[u].object
           dir == staging[o]
<1>1. o \in ObjectIds /\ dir \in Directory /\ dir.made
  BY DEF WritePayload, WriteMetadata, FieldsSet, StagingOwned, Staging, TypeOK
<1>2. \A b \in Uploads \ {u} : upload[b].at \in Staging =>
         upload[b].object \in ObjectIds /\ upload[b].object # o
  BY DEF WritePayload, WriteMetadata, FieldsSet, StagingOwned, Staging
<1>3. /\ UNCHANGED <<dbVars, stored, faults>> /\ OnlyChanges(u)
      /\ upload[u].at \in Staging /\ upload'[u].at \in {"metadata", "rename"}
      /\ upload'[u].project = upload[u].project
      /\ upload'[u].object = o /\ upload'[u].row = upload[u].row
  BY GotoEffect DEF WritePayload, WriteMetadata, Steps, Staging
<1>4. /\ staging' \in [ObjectIds -> Directory]
      /\ \A i \in ObjectIds \ {o} : staging'[i] = staging[i]
      /\ staging'[o].made /\ staging'[o].payload = u
      /\ upload'[u].at = "rename" => staging'[o].digest = u
  <2>1. CASE WritePayload(u)
    <3>1. staging' = [staging EXCEPT ![o] = [dir EXCEPT !.payload = u]]
      BY <2>1 DEF WritePayload
    <3>2. [dir EXCEPT !.payload = u] \in Directory
      BY <1>1 DEF Directory
    <3>3. upload'[u].at = "metadata"
      BY <2>1, GotoEffect DEF WritePayload, Steps
    <3>4. QED
      BY <1>1, <3>1, <3>2, <3>3 DEF TypeOK, Directory
  <2>2. CASE WriteMetadata(u)
    <3>1. staging' = [staging EXCEPT ![o] = [dir EXCEPT !.digest = u]]
      BY <2>2 DEF WriteMetadata
    <3>2. [dir EXCEPT !.digest = u] \in Directory
      BY <1>1 DEF Directory
    <3>3. dir.payload = u
      BY <2>2 DEF WriteMetadata, StagingOwned
    <3>4. QED
      BY <1>1, <3>1, <3>2, <3>3 DEF TypeOK, Directory
  <2>3. QED
    BY <2>1, <2>2
<1> HIDE DEF o, dir
<1>5. TypeOK'
  BY <1>3, <1>4 DEF TypeOK, OnlyChanges, dbVars
<1>6. FieldsSet'
  BY <1>3 DEF FieldsSet, OnlyChanges, Drafting, Staging, o
<1>7. StagingOwned'
  BY <1>2, <1>3, <1>4 DEF StagingOwned, OnlyChanges, Staging, o
<1>8. ObjectsKept'
  BY <1>3, ObjectsStay DEF Drafting, dbVars
<1>9. FiledInProject' /\ Numbered'
  BY <1>3, RowsStay DEF Drafting, Staging
<1>10. QED
  BY <1>5, <1>6, <1>7, <1>8, <1>9

\* os.replace publishes the complete directory under a key that no object has.
LEMMA RenameKeeps ==
    ASSUME UploadInv, NEW u \in Uploads, Rename(u)
    PROVE  UploadInv'
<1> USE DEF UploadInv
<1>1. upload[u].at = "rename" /\ UNCHANGED <<dbVars, faults>>
      /\ staging' = [staging EXCEPT ![upload[u].object] = NoDirectory]
  BY DEF Rename
<1>2. CASE Fails(u) /\ UNCHANGED stored
  BY <1>1, <1>2, FailKeeps DEF Staging, TypeOK
<1>3. CASE /\ Replaces(u) /\ Goto(u, "document")
           /\ stored' = [stored EXCEPT ![KeyOf(u)] = staging[upload[u].object]]
  <2>1. /\ OnlyChanges(u)
        /\ upload'[u].at = "document" /\ upload'[u].project = upload[u].project
        /\ upload'[u].object = upload[u].object /\ upload'[u].row = upload[u].row
    BY <1>3, GotoEffect DEF Steps
  <2>2. KeyOf(u) \in Keys /\ KeyOf(u)' = KeyOf(u)
    BY <1>1, <2>1 DEF FieldsSet, KeyOf, Keys
  <2>3. staging[upload[u].object] = [made |-> TRUE, payload |-> u, digest |-> u]
    BY <1>1 DEF FieldsSet, StagingOwned, Staging, TypeOK, Directory
  <2>4. stored' \in [Keys -> Directory] /\ stored'[KeyOf(u)] = staging[upload[u].object]
    BY <1>1, <1>3, <2>2 DEF TypeOK, FieldsSet
  <2>5. \A k \in Keys : stored[k].made => stored'[k] = stored[k]
    BY <1>3 DEF TypeOK, Replaces
  <2>6. staging' \in [ObjectIds -> Directory] /\ StagingOwned'
    BY <1>1, <2>1, StagingRemoved DEF Staging
  <2>7. TypeOK'
    BY <1>1, <2>1, <2>4, <2>6 DEF TypeOK, OnlyChanges, dbVars
  <2>8. FieldsSet'
    BY <1>1, <2>1 DEF FieldsSet, OnlyChanges, Drafting
  <2>9. ObjectsKept'
    <3>1. ASSUME NEW b \in Uploads, upload'[b].at \in Drafting \cup {"document"}
          PROVE  Holds(KeyOf(b), b)'
      <4>1. CASE b = u
        BY <2>2, <2>3, <2>4, <4>1 DEF Holds
      <4>2. CASE b # u
        <5>1. upload'[b] = upload[b] /\ Holds(KeyOf(b), b) /\ KeyOf(b) \in Keys
          BY <2>1, <3>1, <4>2 DEF OnlyChanges, ObjectsKept, FieldsSet, KeyOf, Keys, Drafting
        <5>2. stored'[KeyOf(b)] = stored[KeyOf(b)] /\ KeyOf(b)' = KeyOf(b)
          BY <2>5, <5>1 DEF Holds, KeyOf
        <5>3. QED
          BY <5>1, <5>2 DEF Holds
      <4>3. QED
        BY <4>1, <4>2
    <3>2. ASSUME NEW r \in versions PROVE Holds(r.source, r.hash)'
      <4>1. Holds(r.source, r.hash) /\ r.source \in Keys
        BY DEF ObjectsKept, TypeOK, Row
      <4>2. QED
        BY <2>5, <4>1 DEF Holds
    <3>3. versions' = versions
      BY <1>1 DEF dbVars
    <3>4. QED
      BY <3>1, <3>2, <3>3 DEF ObjectsKept
  <2>10. FiledInProject' /\ Numbered'
    BY <1>1, <2>1, RowsStay DEF Drafting
  <2>11. QED
    BY <2>6, <2>7, <2>8, <2>9, <2>10
<1>4. QED
  BY <1>2, <1>3 DEF Rename

-----------------------------------------------------------------------------
(* create_draft and the commit. *)

\* While no row is committed, the numbers stay right if the record of u does.
LEMMA NumbersStay ==
    ASSUME Numbered, NEW u \in Uploads, OnlyChanges(u), UNCHANGED versions,
           upload'[u].at = "insert" => upload'[u].max < NextNumber(upload'[u].document),
           upload'[u].at = "commit" =>
              /\ upload'[u].row = {Draft(u)'}
              /\ \A b \in Uploads \ {u} :
                    upload[b].at = "commit" => upload[b].document # upload'[u].document
    PROVE  Numbered'
<1>1. \A d : NextNumber(d)' = NextNumber(d)
  BY DEF NextNumber, VersionsOf
<1>2. VersionNumbersAreDense'
  BY DEF Numbered, VersionNumbersAreDense, NumbersOf
<1>3. \A b \in Uploads \ {u} : upload'[b] = upload[b] /\ Draft(b)' = Draft(b)
  BY <1>1 DEF OnlyChanges, Draft, KeyOf
<1>4. ASSUME NEW b \in Uploads
      PROVE  /\ upload'[b].at = "insert" => upload'[b].max < NextNumber(upload'[b].document)
             /\ upload'[b].at = "commit" => upload'[b].row = {Draft(b)'}
  <2>1. CASE b = u
    BY <2>1
  <2>2. CASE b # u
    BY <1>3, <2>2 DEF Numbered
  <2>3. QED
    BY <2>1, <2>2
<1>5. \A b, c \in Uploads :
         upload'[b].at = "commit" /\ upload'[c].at = "commit" /\ b # c
            => upload'[b].document # upload'[c].document
  BY <1>3 DEF Numbered
<1>6. QED
  BY <1>1, <1>2, <1>4, <1>5 DEF Numbered

\* While u keeps its document and no row is committed, every draft stays filed.
LEMMA FilingStays ==
    ASSUME TypeOK, FiledInProject, NEW u \in Uploads, OnlyChanges(u), UNCHANGED dbVars,
           upload[u].at \in Drafting, upload'[u].document = upload[u].document,
           upload'[u].project = upload[u].project
    PROVE  FiledInProject'
<1>1. \A r \in versions : r.hash \in Uploads /\ upload'[r.hash] = upload[r.hash]
  BY DEF FiledInProject, TypeOK, Row, OnlyChanges, Drafting
<1>2. \A b \in Uploads : /\ upload'[b].document = upload[b].document
                         /\ upload'[b].project = upload[b].project
                         /\ upload'[b].at \in Drafting => upload[b].at \in Drafting
  BY DEF OnlyChanges
<1>3. QED
  BY <1>1, <1>2 DEF FiledInProject, dbVars

\* A document that the upload creates is named by no other; one that exists is
\* of the upload's project.
LEMMA OpenDocumentKeeps ==
    ASSUME UploadInv, NEW u \in Uploads, OpenDocument(u)
    PROVE  UploadInv'
<1> USE DEF UploadInv
<1>1. upload[u].at = "document" /\ UNCHANGED <<dbVars, staging, stored, faults>>
  BY DEF OpenDocument, fileVars
<1>2. CASE Fails(u)
  BY <1>1, <1>2, FailKeeps DEF TypeOK
<1>3. CASE ~Fails(u)
  <2>1. PICK d \in Documents :
           /\ upload' = [upload EXCEPT ![u] = [upload[u] EXCEPT !.at = "number", !.document = d]]
           /\ d \in FreshDocuments \/ project[d] = upload[u].project
    <3>1. CASE upload[u].document = None
      BY <1>3, <3>1 DEF OpenDocument, FreshDocuments
    <3>2. CASE upload[u].document # None
      <4>1. /\ upload[u] \in Upload /\ SameProject(u)
            /\ upload' = [upload EXCEPT ![u] = [upload[u] EXCEPT !.at = "number"]]
        BY <1>3, <3>2 DEF OpenDocument, Goto, TypeOK
      <4>2. upload[u].document \in Documents
        BY <3>2, <4>1 DEF Upload
      <4>3. [upload[u] EXCEPT !.at = "number"] =
               [upload[u] EXCEPT !.at = "number", !.document = upload[u].document]
        BY <4>1 DEF Upload
      <4>4. QED
        BY <4>1, <4>2, <4>3 DEF SameProject
    <3>3. QED
      BY <3>1, <3>2
  <2> DEFINE x == [upload[u] EXCEPT !.at = "number", !.document = d]
  <2>2. upload[u] \in Upload /\ x \in Upload
    BY DEF TypeOK, Upload, Steps
  <2>3. /\ x.at = "number" /\ x.project = upload[u].project /\ x.document = d
        /\ x.object = upload[u].object /\ x.row = upload[u].row
    BY <2>2 DEF Upload
  <2> HIDE DEF x
  <2>4. OnlyChanges(u) /\ upload'[u] = x
    BY <2>1, <2>2 DEF OnlyChanges, TypeOK, x
  <2>5. TypeOK'
    BY <1>1, <2>4 DEF TypeOK, OnlyChanges, dbVars
  <2>6. FieldsSet'
    BY <1>1, <2>3, <2>4 DEF FieldsSet, OnlyChanges, Drafting
  <2>7. StagingOwned'
    BY <1>1, <2>3, <2>4, StagingKept DEF Staging
  <2>8. ObjectsKept'
    BY <1>1, <2>3, <2>4, ObjectsStay DEF Drafting, dbVars
  <2>9. FiledInProject'
    <3>1. \A r \in versions : r.hash \in Uploads /\ upload'[r.hash] = upload[r.hash]
      BY <1>1, <2>4 DEF FiledInProject, TypeOK, Row, OnlyChanges
    <3>2. \A b \in Uploads \ {u} : upload'[b] = upload[b]
      BY <2>4 DEF OnlyChanges
    <3>3. upload[u].project # None
      BY <1>1, UploadAssumption DEF FieldsSet
    <3>4. ASSUME NEW b \in Uploads, upload'[b].at \in Drafting
          PROVE  \/ project[upload'[b].document] = upload'[b].project
                 \/ /\ project[upload'[b].document] = None
                    /\ \A c \in Uploads \ {b} :
                          upload'[c].at \in Drafting => upload'[c].document # upload'[b].document
      <4>1. CASE d \in FreshDocuments
        BY <2>3, <2>4, <3>2, <3>4, <4>1 DEF FiledInProject, FreshDocuments
      <4>2. CASE project[d] = upload[u].project
        BY <2>3, <2>4, <3>2, <3>3, <3>4, <4>2 DEF FiledInProject
      <4>3. QED
        BY <2>1, <4>1, <4>2
    <3>5. QED
      BY <1>1, <3>1, <3>4 DEF FiledInProject, dbVars
  <2>10. Numbered'
    BY <1>1, <2>3, <2>4, NumbersStay DEF dbVars
  <2>11. QED
    BY <2>5, <2>6, <2>7, <2>8, <2>9, <2>10
<1>4. QED
  BY <1>2, <1>3

\* The largest of the numbers 0, 1, ..., n is n.
LEMMA MaxOfInterval ==
    ASSUME NEW n \in Nat
    PROVE  Max((1..n) \cup {0}) = n
<1> DEFINE S == (1..n) \cup {0}
<1>1. n \in S /\ \A y \in S : n >= y
  OBVIOUS
<1>2. \A x \in S : (\A y \in S : x >= y) => x = n
  OBVIOUS
<1>3. QED
  BY <1>1, <1>2 DEF Max

\* The committed versions of a document can be counted.
LEMMA CountType ==
    ASSUME Numbered, NEW d
    PROVE  /\ IsFiniteSet(VersionsOf(d))
           /\ Cardinality(VersionsOf(d)) \in Nat /\ NextNumber(d) \in Nat \ {0}
<1>1. IsFiniteSet(VersionsOf(d))
  BY FS_Subset DEF Numbered, VersionsOf
<1>2. QED
  BY <1>1, FS_CardinalityType DEF NextNumber

\* SELECT max(version_no) returns the number of committed versions.
LEMMA ReadMaxKeeps ==
    ASSUME UploadInv, NEW u \in Uploads, ReadMax(u)
    PROVE  UploadInv'
<1> USE DEF UploadInv
<1> DEFINE m == Max(NumbersOf(upload[u].document) \cup {0})
           x == [upload[u] EXCEPT !.at = "insert", !.max = m]
<1>1. /\ upload[u].at = "number" /\ UNCHANGED <<dbVars, staging, stored, faults>>
      /\ upload' = [upload EXCEPT ![u] = x]
  BY DEF ReadMax, fileVars
<1>2. m \in Nat /\ m < NextNumber(upload[u].document)
  <2>1. upload[u].document \in Documents
    BY <1>1 DEF FieldsSet, Drafting
  <2>2. NumbersOf(upload[u].document) = 1..Cardinality(VersionsOf(upload[u].document))
    BY <2>1 DEF Numbered, VersionNumbersAreDense, VersionsOf
  <2>3. Cardinality(VersionsOf(upload[u].document)) \in Nat
    BY CountType
  <2>4. m = Cardinality(VersionsOf(upload[u].document))
    BY <2>2, <2>3, MaxOfInterval
  <2>5. QED
    BY <2>3, <2>4 DEF NextNumber
<1> HIDE DEF m
<1>3. upload[u] \in Upload /\ x \in Upload
  BY <1>2 DEF TypeOK, Upload, Steps
<1>4. /\ x.at = "insert" /\ x.project = upload[u].project /\ x.document = upload[u].document
      /\ x.object = upload[u].object /\ x.row = upload[u].row /\ x.max = m
  BY <1>3 DEF Upload
<1> HIDE DEF x
<1>5. OnlyChanges(u) /\ upload'[u] = x
  BY <1>1, <1>3 DEF OnlyChanges, TypeOK
<1>6. TypeOK'
  BY <1>1, <1>5 DEF TypeOK, OnlyChanges, dbVars
<1>7. FieldsSet'
  BY <1>1, <1>4, <1>5 DEF FieldsSet, OnlyChanges, Drafting
<1>8. StagingOwned'
  BY <1>1, <1>4, <1>5, StagingKept DEF Staging
<1>9. ObjectsKept'
  BY <1>1, <1>4, <1>5, ObjectsStay DEF Drafting, dbVars
<1>10. FiledInProject'
  BY <1>1, <1>4, <1>5, FilingStays DEF Drafting
<1>11. Numbered'
  BY <1>1, <1>2, <1>4, <1>5, NumbersStay DEF dbVars
<1>12. QED
  BY <1>6, <1>7, <1>8, <1>9, <1>10, <1>11

\* An insert that the unique constraint lets through takes the number after the
\* last one, and no open transaction has a version of the same document.
LEMMA InsertVersionKeeps ==
    ASSUME UploadInv, NEW u \in Uploads, InsertVersion(u)
    PROVE  UploadInv'
<1> USE DEF UploadInv
<1> DEFINE d == upload[u].document
           row == [document |-> d, no |-> upload[u].max + 1, source |-> KeyOf(u), hash |-> u]
           x == [upload[u] EXCEPT !.at = "commit", !.row = {row}]
<1>1. /\ upload[u].at = "insert" /\ UNCHANGED <<dbVars, staging, stored, faults>>
      /\ ~NumberWaits(u)
  BY DEF InsertVersion, fileVars
<1>2. CASE Fails(u)
  BY <1>1, <1>2, FailKeeps DEF TypeOK
<1>3. CASE ~Fails(u)
  <2>1. ~NumberTaken(u) /\ upload' = [upload EXCEPT ![u] = x]
    BY <1>3 DEF InsertVersion
  <2>2. /\ upload[u] \in Upload /\ upload[u].max \in Nat
        /\ d \in Documents /\ KeyOf(u) \in Keys
    BY <1>1 DEF TypeOK, Upload, FieldsSet, Drafting, KeyOf, Keys
  <2>3. upload[u].max + 1 = NextNumber(d)
    <3>1. upload[u].max + 1 \notin NumbersOf(d)
      BY <2>1 DEF NumberTaken, SameNumber, NumbersOf
    <3>2. NumbersOf(d) = 1..Cardinality(VersionsOf(d))
      BY <2>2 DEF Numbered, VersionNumbersAreDense, VersionsOf
    <3>3. upload[u].max < NextNumber(d) /\ Cardinality(VersionsOf(d)) \in Nat
      BY <1>1, CountType DEF Numbered
    <3>4. QED
      BY <2>2, <3>1, <3>2, <3>3 DEF NextNumber
  <2>4. row \in Row
    BY <2>2 DEF Row
  <2>5. x \in Upload
    BY <2>2, <2>4 DEF Upload, Steps
  <2>6. /\ x.at = "commit" /\ x.project = upload[u].project /\ x.document = d
        /\ x.object = upload[u].object /\ x.row = {row} /\ x.max = upload[u].max
    BY <2>2 DEF Upload
  <2>7. OnlyChanges(u) /\ upload'[u] = x
    BY <2>1, <2>5 DEF OnlyChanges, TypeOK
  <2>8. row = Draft(u)'
    <3>1. \A e : NextNumber(e)' = NextNumber(e)
      BY <1>1 DEF NextNumber, VersionsOf, dbVars
    <3> HIDE DEF x
    <3>2. upload'[u].document = d /\ KeyOf(u)' = KeyOf(u)
      BY <2>6, <2>7 DEF KeyOf
    <3>3. QED
      BY <2>3, <3>1, <3>2 DEF Draft
  <2>9. ASSUME NEW b \in Uploads \ {u}, upload[b].at = "commit" PROVE upload[b].document # d
    <3>1. upload[b].row = {Draft(b)} /\ Open(b)
      BY <2>9 DEF Numbered, Open
    <3>2. ASSUME upload[b].document = d PROVE SameNumber(u, upload[b].row)
      BY <2>3, <3>1, <3>2 DEF SameNumber, Draft
    <3>3. QED
      BY <1>1, <3>1, <3>2 DEF NumberWaits
  <2> HIDE DEF x, row, d
  <2>10. TypeOK'
    BY <1>1, <2>7 DEF TypeOK, OnlyChanges, dbVars
  <2>11. FieldsSet'
    BY <1>1, <2>2, <2>6, <2>7 DEF FieldsSet, OnlyChanges, Drafting
  <2>12. StagingOwned'
    BY <1>1, <2>6, <2>7, StagingKept DEF Staging
  <2>13. ObjectsKept'
    BY <1>1, <2>6, <2>7, ObjectsStay DEF Drafting, dbVars
  <2>14. FiledInProject'
    BY <1>1, <2>6, <2>7, FilingStays DEF Drafting, d
  <2>15. Numbered'
    BY <1>1, <2>6, <2>7, <2>8, <2>9, NumbersStay DEF dbVars
  <2>16. QED
    BY <2>10, <2>11, <2>12, <2>13, <2>14, <2>15
<1>4. QED
  BY <1>2, <1>3

\* The commit adds the next version of the document, whose project it sets or
\* confirms, and completes the upload.
LEMMA CommitKeeps ==
    ASSUME UploadInv, NEW u \in Uploads, Commit(u)
    PROVE  UploadInv'
<1> USE DEF UploadInv
<1> DEFINE d == upload[u].document
           row == Draft(u)
           x == [upload[u] EXCEPT !.at = "done", !.row = {}]
<1>1. /\ upload[u].at = "commit" /\ UNCHANGED <<staging, stored, faults>>
      /\ versions' = versions \cup {row}
      /\ project' = [project EXCEPT ![d] = upload[u].project]
      /\ upload' = [upload EXCEPT ![u] = x]
  BY DEF Commit, fileVars, Numbered
<1>2. /\ upload[u] \in Upload /\ d \in Documents /\ upload[u].project \in Projects
      /\ KeyOf(u) \in Keys /\ KeyOf(u)[1] = upload[u].project
  BY <1>1 DEF TypeOK, FieldsSet, Drafting, KeyOf, Keys
<1>3. /\ row \in Row /\ row.document = d /\ row.no = NextNumber(d)
      /\ row.source = KeyOf(u) /\ row.hash = u
  <2>1. upload[u].row \subseteq Row /\ upload[u].row = {row}
    BY <1>1, <1>2 DEF Upload, Numbered
  <2>2. QED
    BY <2>1 DEF Draft
<1>4. x \in Upload
  BY <1>2 DEF Upload, Steps
<1>5. /\ x.at = "done" /\ x.project = upload[u].project /\ x.document = d
      /\ x.object = upload[u].object /\ x.row = {}
  BY <1>2 DEF Upload
<1>6. OnlyChanges(u) /\ upload'[u] = x
  BY <1>1, <1>4 DEF OnlyChanges, TypeOK
<1> HIDE DEF x, row, d
<1>7. TypeOK'
  BY <1>1, <1>2, <1>3, <1>6 DEF TypeOK, OnlyChanges
<1>8. FieldsSet'
  BY <1>1, <1>2, <1>5, <1>6 DEF FieldsSet, OnlyChanges, Drafting
<1>9. StagingOwned'
  BY <1>1, <1>5, <1>6, StagingKept DEF Staging
<1>10. ObjectsKept'
  <2>1. \A b \in Uploads : upload'[b].at \in Drafting \cup {"document"} => Holds(KeyOf(b), b)'
    BY <1>1, <1>5, <1>6 DEF OnlyChanges, ObjectsKept, Holds, KeyOf, Drafting
  <2>2. Holds(row.source, row.hash)
    BY <1>1, <1>3 DEF ObjectsKept, Drafting
  <2>3. \A r \in versions' : Holds(r.source, r.hash)
    BY <1>1, <2>2 DEF ObjectsKept
  <2>4. \A r \in versions' : Holds(r.source, r.hash)'
    BY <1>1, <2>3 DEF Holds
  <2>5. QED
    BY <2>1, <2>4 DEF ObjectsKept
<1>11. FiledInProject'
  <2>1. \A r \in versions : /\ r.hash \in Uploads \ {u} /\ upload'[r.hash] = upload[r.hash]
                            /\ r.document \in Documents
    BY <1>1, <1>6 DEF FiledInProject, TypeOK, Row, OnlyChanges
  <2>2. \A e \in Documents : project'[e] = IF e = d THEN upload[u].project ELSE project[e]
    BY <1>1 DEF TypeOK
  <2>3. \A r \in versions : r.document = d => project[d] = upload[u].project
    <3> SUFFICES ASSUME NEW r \in versions, r.document = d, project[d] = None PROVE FALSE
      BY <1>1 DEF FiledInProject, Drafting, d
    <3>1. upload[r.hash].at = "done" /\ upload[r.hash].project = None
      BY DEF FiledInProject
    <3>2. upload[r.hash].project \in Projects
      BY <2>1, <3>1 DEF FieldsSet
    <3>3. QED
      BY <3>1, <3>2, UploadAssumption
  <2>4. ASSUME NEW r \in versions'
        PROVE  /\ upload'[r.hash].at = "done"
               /\ project'[r.document] = upload'[r.hash].project
               /\ r.source[1] = upload'[r.hash].project
    <3>1. CASE r \in versions
      BY <2>1, <2>2, <2>3, <3>1 DEF FiledInProject
    <3>2. CASE r = row
      BY <1>2, <1>3, <1>5, <1>6, <2>2, <3>2
    <3>3. QED
      BY <1>1, <2>4, <3>1, <3>2
  <2>5. ASSUME NEW b \in Uploads, upload'[b].at \in Drafting
        PROVE  \/ project'[upload'[b].document] = upload'[b].project
               \/ /\ project'[upload'[b].document] = None
                  /\ \A c \in Uploads \ {b} :
                        upload'[c].at \in Drafting => upload'[c].document # upload'[b].document
    <3>1. b # u /\ upload'[b] = upload[b] /\ upload[b].document \in Documents
      BY <1>5, <1>6, <2>5 DEF OnlyChanges, Drafting, FieldsSet
    <3>2. CASE upload[b].document = d
      <4>1. project[d] = upload[u].project
        BY <1>1, <2>5, <3>1, <3>2 DEF FiledInProject, Drafting, d
      <4>2. project[d] # None
        BY <1>2, <4>1, UploadAssumption
      <4>3. project[d] = upload[b].project
        BY <2>5, <3>1, <3>2, <4>2 DEF FiledInProject
      <4>4. QED
        BY <1>2, <2>2, <3>1, <3>2, <4>1, <4>3
    <3>3. CASE upload[b].document # d
      <4>1. project'[upload'[b].document] = project[upload[b].document]
        BY <2>2, <3>1, <3>3
      <4>2. \A c \in Uploads : upload'[c].at \in Drafting =>
               upload[c].at \in Drafting /\ upload'[c].document = upload[c].document
        BY <1>5, <1>6 DEF OnlyChanges, Drafting
      <4>3. QED
        BY <2>5, <3>1, <4>1, <4>2 DEF FiledInProject
    <3>4. QED
      BY <3>2, <3>3
  <2>6. QED
    BY <2>4, <2>5 DEF FiledInProject
<1>12. Numbered'
  <2>1. NumbersOf(d) = 1..Cardinality(VersionsOf(d))
    BY <1>2 DEF Numbered, VersionNumbersAreDense, VersionsOf
  <2>2. Cardinality(VersionsOf(d)) \in Nat /\ IsFiniteSet(VersionsOf(d))
    BY CountType
  <2>3. row \notin VersionsOf(d)
    <3>1. ASSUME row \in VersionsOf(d) PROVE row.no \in NumbersOf(d)
      BY <3>1 DEF VersionsOf, NumbersOf
    <3>2. QED
      BY <1>3, <2>1, <2>2, <3>1 DEF NextNumber
  <2>4. ASSUME NEW e, e # d PROVE VersionsOf(e)' = VersionsOf(e) /\ NumbersOf(e)' = NumbersOf(e)
    BY <1>1, <1>3, <2>4 DEF VersionsOf, NumbersOf
  <2>5. /\ {r \in versions' : r.document = d} = VersionsOf(d) \cup {row}
        /\ Cardinality({r \in versions' : r.document = d}) = NextNumber(d)
    <3>1. {r \in versions' : r.document = d} = VersionsOf(d) \cup {row}
      BY <1>1, <1>3 DEF VersionsOf
    <3>2. QED
      BY <2>2, <2>3, <3>1, FS_AddElement DEF NextNumber
  <2>6. {r.no : r \in {r \in versions' : r.document = d}} = 1..NextNumber(d)
    <3>1. {r.no : r \in {r \in versions' : r.document = d}} = NumbersOf(d) \cup {NextNumber(d)}
      BY <1>3, <2>5 DEF NumbersOf, VersionsOf
    <3>2. (1..Cardinality(VersionsOf(d))) \cup {NextNumber(d)} = 1..NextNumber(d)
      BY <2>2 DEF NextNumber
    <3>3. QED
      BY <2>1, <3>1, <3>2
  <2>7. VersionNumbersAreDense'
    <3> SUFFICES ASSUME NEW e \in Documents
                 PROVE  {r.no : r \in {r \in versions' : r.document = e}}
                           = 1..Cardinality({r \in versions' : r.document = e})
      BY DEF VersionNumbersAreDense, NumbersOf
    <3>1. CASE e = d
      BY <2>5, <2>6, <3>1
    <3>2. CASE e # d
      BY <2>4, <3>2 DEF Numbered, VersionNumbersAreDense, NumbersOf, VersionsOf
    <3>3. QED
      BY <3>1, <3>2
  <2>8. IsFiniteSet(versions')
    BY <1>1, FS_AddElement DEF Numbered
  <2> DEFINE Next(e) == Cardinality({r \in versions' : r.document = e}) + 1
  <2>9. ASSUME NEW e
        PROVE  /\ NextNumber(e) \in Nat /\ Next(e) \in Nat /\ Next(e) >= NextNumber(e)
               /\ e # d => Next(e) = NextNumber(e)
    <3>1. NextNumber(e) \in Nat
      BY CountType
    <3>2. CASE e = d
      BY <2>2, <2>5, <3>1, <3>2 DEF NextNumber
    <3>3. CASE e # d
      BY <2>4, <3>1, <3>3 DEF NextNumber, VersionsOf
    <3>4. QED
      BY <3>1, <3>2, <3>3
  <2> HIDE DEF Next
  <2>10. \A b \in Uploads : upload'[b].at \in {"insert", "commit"} =>
            b # u /\ upload'[b] = upload[b] /\ upload[b].max \in Nat
    BY <1>5, <1>6 DEF OnlyChanges, TypeOK, Upload
  <2>11. \A b \in Uploads : upload'[b].at = "insert" =>
            upload'[b].max < Next(upload'[b].document)
    BY <2>9, <2>10 DEF Numbered
  <2>12. \A b \in Uploads : upload'[b].at = "commit" =>
            upload'[b].row = {[document |-> upload'[b].document,
                               no |-> Next(upload'[b].document),
                               source |-> KeyOf(b)', hash |-> b]}
    <3> SUFFICES ASSUME NEW b \in Uploads, upload'[b].at = "commit"
                 PROVE  upload'[b].row = {[document |-> upload'[b].document,
                                           no |-> Next(upload'[b].document),
                                           source |-> KeyOf(b)', hash |-> b]}
      OBVIOUS
    <3>1. b # u /\ upload'[b] = upload[b] /\ KeyOf(b)' = KeyOf(b)
      BY <2>10 DEF KeyOf
    <3>2. upload[b].document # d /\ upload[b].row = {Draft(b)}
      BY <1>1, <3>1 DEF Numbered, d
    <3>3. Next(upload[b].document) = NextNumber(upload[b].document)
      BY <2>9, <3>2
    <3>4. QED
      BY <3>1, <3>2, <3>3 DEF Draft
  <2>13. \A b, c \in Uploads :
            upload'[b].at = "commit" /\ upload'[c].at = "commit" /\ b # c
               => upload'[b].document # upload'[c].document
    BY <2>10 DEF Numbered
  <2>14. QED
    BY <2>7, <2>8, <2>11, <2>12, <2>13 DEF Numbered, Draft, NextNumber, VersionsOf, Next
<1>13. QED
  BY <1>7, <1>8, <1>9, <1>10, <1>11, <1>12

-----------------------------------------------------------------------------
\* The invariant holds throughout every behaviour of the uploads.
LEMMA UploadInvariant == UploadSpec => []UploadInv
<1>1. UploadInit => UploadInv
  BY UploadInitInv
<1>2. ASSUME UploadInv, [UploadNext]_uploadVars PROVE UploadInv'
  <2>1. ASSUME NEW u \in Uploads, UploadStep(u) PROVE UploadInv'
    BY <1>2, <2>1, CheckPathsKeeps, MakeStagingKeeps, WritesKeep, RenameKeeps, OpenDocumentKeeps,
       ReadMaxKeeps, InsertVersionKeeps, CommitKeeps DEF UploadStep
  <2>2. ASSUME NEW u \in Uploads, Stop(u) PROVE UploadInv'
    BY <1>2, <2>2, FailKeeps, UploadAssumption DEF Stop, Open, Staging, UploadInv, TypeOK
  <2>3. ASSUME NEW u \in Uploads, NEW p \in Projects, NEW d \in Documents \cup {None},
               Request(u, p, d)
        PROVE  UploadInv'
    BY <1>2, <2>3, RequestKeeps
  <2>4. CASE UNCHANGED uploadVars
    <3>1. /\ project' = project /\ versions' = versions /\ staging' = staging
          /\ stored' = stored /\ upload' = upload /\ faults' = faults
      BY <2>4 DEF uploadVars
    <3>2. TypeOK' /\ FieldsSet'
      BY <1>2, <3>1 DEF UploadInv, TypeOK, FieldsSet
    <3>3. StagingOwned' /\ FiledInProject'
      BY <1>2, <3>1 DEF UploadInv, StagingOwned, FiledInProject
    <3>4. ObjectsKept'
      BY <1>2, <3>1 DEF UploadInv, ObjectsKept, Holds, KeyOf
    <3>5. VersionNumbersAreDense'
      BY <1>2, <3>1 DEF UploadInv, Numbered, VersionNumbersAreDense, NumbersOf
    <3>6. Numbered'
      <4>1. \A u \in Uploads : Draft(u)' = Draft(u)
        BY <3>1 DEF Draft, NextNumber, VersionsOf, KeyOf
      <4>2. ASSUME NEW u \in Uploads
            PROVE  /\ upload'[u].at = "insert" => upload'[u].max < NextNumber(upload[u].document)'
                   /\ upload'[u].at = "commit" => upload'[u].row = {Draft(u)'}
        BY <1>2, <3>1, <4>1 DEF UploadInv, Numbered, NextNumber, VersionsOf
      <4>3. IsFiniteSet(versions)' /\ \A u, b \in Uploads :
               upload'[u].at = "commit" /\ upload'[b].at = "commit" /\ u # b
                  => upload'[u].document # upload'[b].document
        BY <1>2, <3>1 DEF UploadInv, Numbered
      <4>4. QED
        BY <3>5, <4>2, <4>3 DEF Numbered
    <3>7. QED
      BY <3>2, <3>3, <3>4, <3>6 DEF UploadInv
  <2>5. QED
    BY <1>2, <2>1, <2>2, <2>3, <2>4 DEF UploadNext
<1>3. QED
  BY <1>1, <1>2, PTL DEF UploadSpec

\* Every directory, row and request record keeps its type.
THEOREM UploadTypeCorrect == UploadSpec => []TypeOK
<1>1. UploadInv => TypeOK
  BY DEF UploadInv
<1>2. QED
  BY <1>1, UploadInvariant, PTL

\* _get_sync through any committed document_versions row returns the bytes whose
\* hash the row records, whatever ids uuid_factory repeats and wherever uploads stop.
THEOREM UploadBytes == UploadSpec => []VersionsKeepTheirBytes
<1>1. ASSUME UploadInv PROVE VersionsKeepTheirBytes
  <2>1. ASSUME NEW r \in versions PROVE Read(r.source) = r.hash
    <3>1. stored[r.source] = [made |-> TRUE, payload |-> r.hash, digest |-> r.hash]
      BY <1>1 DEF UploadInv, ObjectsKept, Holds
    <3>2. /\ stored[r.source].made
          /\ stored[r.source].payload = r.hash /\ stored[r.source].digest = r.hash
      BY <3>1
    <3>3. QED
      BY <3>2 DEF Read
  <2>2. QED
    BY <2>1 DEF VersionsKeepTheirBytes
<1>2. QED
  BY <1>1, UploadInvariant, PTL

\* SELECT max(version_no) + 1 without a lock numbers the versions of a document
\* 1, 2, ... because uq_document_versions_document_no serialises the inserts.
THEOREM UploadNumbers == UploadSpec => []VersionNumbersAreDense
<1>1. UploadInv => VersionNumbersAreDense
  BY DEF UploadInv, Numbered
<1>2. QED
  BY <1>1, UploadInvariant, PTL

\* A version, its object and its document are of the project the uploader was
\* authorized for.
THEOREM UploadProjects == UploadSpec => []VersionsStayInTheirProject
<1>1. UploadInv => VersionsStayInTheirProject
  BY DEF UploadInv, FiledInProject, VersionsStayInTheirProject
<1>2. QED
  BY <1>1, UploadInvariant, PTL
=============================================================================
