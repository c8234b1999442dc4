--------------------------- MODULE DocumentUpload ---------------------------
(***************************************************************************)
(* Uploading documents: POST /documents (api/v1/documents.py), the role    *)
(* check (services/document_access.py), the local object store             *)
(* (infrastructure/object_store/local.py) and create_draft                 *)
(* (infrastructure/db/repositories/documents.py).                          *)
(*                                                                         *)
(* An upload stores its bytes in a directory that is staged and renamed,   *)
(* and only then adds its rows, which one transaction commits after the    *)
(* handler returned.  Uploads run side by side and may stop anywhere.      *)
(***************************************************************************)
EXTENDS Integers, FiniteSetsExt

CONSTANTS
    Uploads,     \* the upload requests that are made
    Projects,
    Documents,   \* the documents that exist and those an upload may create
    Home,        \* Home[d]: the project of a document that exists from the start
    ObjectIds,   \* what uuid_factory returns; nothing keeps it from repeating an id
    MaxFaults,   \* bound: how many uploads stop with an error or with their process
    None

Keys == Projects \X ObjectIds      \* projects/{project_id}/objects/{uuid}

ASSUME UploadAssumption ==
    /\ DOMAIN Home \subseteq Documents
    /\ \A d \in DOMAIN Home : Home[d] \in Projects
    /\ None \notin Projects \cup Documents \cup ObjectIds \cup Uploads
    /\ MaxFaults \in Nat

VARIABLES
    project,    \* project[d]: of the committed documents row; None without a row
    versions,   \* the committed document_versions rows
    staging,    \* staging[o]: the directory .tmp/{o}.partial
    stored,     \* stored[k]: the directory of the storage key
    upload,     \* upload[u]: the requests
    faults      \* against MaxFaults

uploadVars == <<project, versions, staging, stored, upload, faults>>

Roles == {"project_manager", "developer", "qa", "implementation", "support", "viewer"}

\* payload: whose bytes payload.bin holds.  digest: whose bytes metadata.json
\* gives the SHA-256 and the size of.
Directory == [made : BOOLEAN, payload : Uploads \cup {None}, digest : Uploads \cup {None}]
NoDirectory == [made |-> FALSE, payload |-> None, digest |-> None]
EmptyDirectory == [NoDirectory EXCEPT !.made = TRUE]

Row == [document : Documents, no : Nat \ {0}, source : Keys, hash : Uploads]

Steps == {"idle", "check", "mkdir", "payload", "metadata", "rename", "document",
          "number", "insert", "commit", "done", "failed"}
\* document: document_id of the request, then of the row that is open.
\* max: what SELECT max(version_no) returned.  row: the uncommitted version.
Upload == [at : Steps, project : Projects \cup {None}, document : Documents \cup {None},
           object : ObjectIds \cup {None}, max : Nat, row : SUBSET Row]
NewUpload == [at |-> "idle", project |-> None, document |-> None, object |-> None,
              max |-> 0, row |-> {}]

TypeOK ==
    /\ project \in [Documents -> Projects \cup {None}]
    /\ versions \subseteq Row
    /\ staging \in [ObjectIds -> Directory]
    /\ stored \in [Keys -> Directory]
    /\ upload \in [Uploads -> Upload]
    /\ faults \in 0..MaxFaults

UploadInit ==
    /\ project = [d \in Documents |-> IF d \in DOMAIN Home THEN Home[d] ELSE None]
    /\ versions = {}
    /\ staging = [o \in ObjectIds |-> NoDirectory]
    /\ stored = [k \in Keys |-> NoDirectory]
    /\ upload = [u \in Uploads |-> NewUpload]
    /\ faults = 0

-----------------------------------------------------------------------------
Goto(u, at) == upload' = [upload EXCEPT ![u].at = at]
Fails(u) == upload' = [upload EXCEPT ![u] = [NewUpload EXCEPT !.at = "failed"]]
KeyOf(u) == <<upload[u].project, upload[u].object>>
Open(u) == upload[u].at \notin {"idle", "done", "failed"}
dbVars == <<project, versions>>
fileVars == <<staging, stored>>

(* The handler and the role check. *)

\* _ROLE_DOCUMENT_PERMISSIONS.
MayUpload(r) == r \in Roles \ {"viewer"}
\* authorize_project_operation; r is the role of the membership, None without one.
Authorized(r) == r # None /\ MayUpload(r)

\* A request names a project and a document of its choice, or None for a new
\* one.  authorize_project_operation reads the membership of the moment; the
\* base64 decoding and the validations of _put_sync may refuse it as well.
Request(u, p, d) ==
    /\ upload[u].at = "idle"
    /\ \/ \E r \in Roles \cup {None} :
             /\ Authorized(r)
             /\ upload' = [upload EXCEPT ![u].at = "check", ![u].project = p, ![u].document = d]
       \/ Fails(u)
    /\ UNCHANGED <<dbVars, fileVars, faults>>

-----------------------------------------------------------------------------
(* _put_sync. *)

\* The id is drawn; an object or a partial write under it is a conflict.
CheckPaths(u) ==
    /\ upload[u].at = "check"
    /\ \E o \in ObjectIds :
          IF stored[<<upload[u].project, o>>].made \/ staging[o].made THEN Fails(u)
          ELSE upload' = [upload EXCEPT ![u].at = "mkdir", ![u].object = o]
    /\ UNCHANGED <<dbVars, fileVars, faults>>

\* mkdir fails on a directory that another upload made since.
MakesStaging(u) == ~staging[upload[u].object].made
MakeStaging(u) ==
    /\ upload[u].at = "mkdir"
    /\ \/ /\ MakesStaging(u)
          /\ staging' = [staging EXCEPT ![upload[u].object] = EmptyDirectory]
          /\ Goto(u, "payload")
       \/ /\ ~MakesStaging(u)
          /\ Fails(u)
          /\ UNCHANGED staging
    /\ UNCHANGED <<dbVars, stored, faults>>

WritePayload(u) ==
    /\ upload[u].at = "payload"
    /\ staging' = [staging EXCEPT ![upload[u].object].payload = u]
    /\ Goto(u, "metadata")
    /\ UNCHANGED <<dbVars, stored, faults>>

WriteMetadata(u) ==
    /\ upload[u].at = "metadata"
    /\ staging' = [staging EXCEPT ![upload[u].object].digest = u]
    /\ Goto(u, "rename")
    /\ UNCHANGED <<dbVars, stored, faults>>

\* os.replace does not replace a directory that is not empty; the failure
\* removes the staging directory.
ReplacesAnyway(u) == TRUE    \* mutant
Replaces(u) == ~stored[KeyOf(u)].made
Rename(u) ==
    /\ upload[u].at = "rename"
    /\ staging' = [staging EXCEPT ![upload[u].object] = NoDirectory]
    /\ \/ /\ Replaces(u)
          /\ stored' = [stored EXCEPT ![KeyOf(u)] = staging[upload[u].object]]
          /\ Goto(u, "document")
       \/ /\ ~Replaces(u)
          /\ Fails(u)
          /\ UNCHANGED stored
    /\ UNCHANGED <<dbVars, faults>>

-----------------------------------------------------------------------------
(* create_draft, in the transaction of the request. *)

\* Documents that no row, committed or not, has.
FreshDocuments == {d \in Documents : project[d] = None /\ \A b \in Uploads : upload[b].document # d}

\* The document named must be there and be of the project; one that the upload
\* creates is new.  Its category, or a constraint, may refuse either.
SameProjectOrNot(u) == project[upload[u].document] # None    \* mutant
SameProject(u) == project[upload[u].document] = upload[u].project
OpenDocument(u) ==
    /\ upload[u].at = "document"
    /\ \/ /\ upload[u].document = None
          /\ \E d \in FreshDocuments :
                upload' = [upload EXCEPT ![u].at = "number", ![u].document = d]
       \/ /\ upload[u].document # None
          /\ SameProject(u)
          /\ Goto(u, "number")
       \/ Fails(u)
    /\ UNCHANGED <<dbVars, fileVars, faults>>

\* SELECT max(version_no): committed rows only, and no lock.
NumbersOf(d) == {r.no : r \in {r \in versions : r.document = d}}
ReadMax(u) ==
    /\ upload[u].at = "number"
    /\ upload' = [upload EXCEPT ![u].at = "insert",
          ![u].max = Max(NumbersOf(upload[u].document) \cup {0})]
    /\ UNCHANGED <<dbVars, fileVars, faults>>

\* uq_document_versions_document_no: an insert waits for an open transaction
\* with the same number and fails on a committed one.
SameNumber(u, rows) ==
    \E r \in rows : r.document = upload[u].document /\ r.no = upload[u].max + 1
NumberTakenNever(u) == FALSE    \* mutant
NumberTaken(u) == SameNumber(u, versions)
NumberWaits(u) == \E b \in Uploads \ {u} : Open(b) /\ SameNumber(u, upload[b].row)
InsertVersion(u) ==
    /\ upload[u].at = "insert"
    /\ ~NumberWaits(u)
    /\ \/ /\ NumberTaken(u)
          /\ Fails(u)
       \/ /\ ~NumberTaken(u)
          /\ upload' = [upload EXCEPT ![u].at = "commit",
                ![u].row = {[document |-> upload[u].document, no |-> upload[u].max + 1,
                             source |-> KeyOf(u), hash |-> u]}]
    /\ UNCHANGED <<dbVars, fileVars, faults>>

\* The audit row is added and get_db_session commits.
Commit(u) ==
    /\ upload[u].at = "commit"
    /\ versions' = versions \cup upload[u].row
    /\ project' = [project EXCEPT ![upload[u].document] = upload[u].project]
    /\ upload' = [upload EXCEPT ![u].at = "done", ![u].row = {}]
    /\ UNCHANGED <<fileVars, faults>>

\* The request raises or its process dies; the transaction is rolled back.  The
\* error handler of _put_sync removes the staging directory, a dead process
\* leaves it behind, and an object that was renamed stays.
Stop(u) ==
    /\ Open(u)
    /\ faults < MaxFaults
    /\ faults' = faults + 1
    /\ \/ UNCHANGED staging
       \/ /\ upload[u].at \in {"payload", "metadata", "rename"}
          /\ staging' = [staging EXCEPT ![upload[u].object] = NoDirectory]
    /\ Fails(u)
    /\ UNCHANGED <<dbVars, stored>>

-----------------------------------------------------------------------------
(* _get_sync. *)

\* Whose bytes a read of a storage key returns; None for an object that is
\* missing or incomplete or whose payload does not match its metadata.
Read(k) ==
    IF stored[k].made /\ stored[k].payload = stored[k].digest THEN stored[k].payload ELSE None

-----------------------------------------------------------------------------
UploadStep(u) ==
    \/ CheckPaths(u) \/ MakeStaging(u) \/ WritePayload(u) \/ WriteMetadata(u)
    \/ Rename(u) \/ OpenDocument(u) \/ ReadMax(u) \/ InsertVersion(u) \/ Commit(u)

UploadNext ==
    \E u \in Uploads :
        \/ UploadStep(u) \/ Stop(u)
        \/ \E p \in Projects, d \in Documents \cup {None} : Request(u, p, d)

UploadSpec == UploadInit /\ [][UploadNext]_uploadVars

-----------------------------------------------------------------------------
(* Properties. *)

\* A read through any version row returns the bytes its own upload hashed,
\* whatever uploads failed, stopped or drew the same id.  What a failed upload
\* leaves behind is named by no row.
VersionsKeepTheirBytes == \A r \in versions : Read(r.source) = r.hash

\* The versions of a document are numbered 1, 2, ... without gaps or repetition,
\* although concurrent uploads read the same maximum.
VersionNumbersAreDense ==
    \A d \in Documents :
        NumbersOf(d) = 1..Cardinality({r \in versions : r.document = d})

\* A version is filed only under a document of the project in which its
\* uploader was authorized.
VersionsStayInTheirProject ==
    \A r \in versions : project[r.document] = upload[r.hash].project
                        /\ r.source[1] = project[r.document]
=============================================================================
