------------------------ MODULE DocumentPublication ------------------------
(***************************************************************************)
(* The versions of one document: upload, review, approval, publication and *)
(* deletion (application/use_cases, infrastructure/db/repositories/        *)
(* documents.py), and the documents of the RAGFlow dataset behind them     *)
(* (infrastructure/ragflow/adapter.py).                                    *)
(*                                                                         *)
(* Upload, submit and approve are one request transaction each.  Publish   *)
(* and delete call the provider between two transactions, so each is a     *)
(* call that stands at a step, and any number of them may be under way.    *)
(* Requests without the permission are refused before they change anything *)
(* and are left out.                                                       *)
(***************************************************************************)
EXTENDS Integers, FiniteSets, TLC

CONSTANTS
    MaxVersions,       \* bound: how many versions are uploaded
    Calls,             \* the publish and delete requests that are made
    MaxIndexed,        \* bound: how many documents the provider ever creates
    MaxFaults,         \* bound: how many provider requests or API processes fail
    MaxIncidents       \* bound: how many requests are made and how many fail, together

Versions == 1..MaxVersions      \* numbered by version_no
Indexed == 1..MaxIndexed

ASSUME PublicationAssumption ==
    /\ MaxVersions \in Nat
    /\ MaxIndexed \in Nat
    /\ MaxFaults \in Nat
    /\ MaxIncidents \in Nat

VARIABLES
    status,       \* status[v]: lifecycle_status; "ABSENT" before the upload
    supersedes,   \* supersedes[v]: supersedes_version_id; 0 is NULL
    index,        \* index[d]: the documents of the dataset
    call,         \* call[c]: the publish and delete requests
    faults        \* against MaxFaults

publicationVars == <<status, supersedes, index, call, faults>>

LifecycleStates == {"DRAFT", "UNDER_REVIEW", "APPROVED", "PUBLISHED", "SUPERSEDED", "ARCHIVED",
                    "DELETE_PENDING", "DELETED"}

\* mapped: the document carries the metadata of the version.
\* run: the parse state the provider reports.
IndexedDocument == [version : {0} \cup Versions, mapped : BOOLEAN,
                    run : {"absent", "unstarted", "running", "done", "failed", "deleted"}]

\* docs: the provider documents the call works on.
\* expected: the status the delete read before it locked the row.
Steps == {"idle", "list", "upload", "metadata", "cleanup", "parse", "status", "complete",
          "transition", "list_to_delete", "delete", "ended"}
Call == [at : Steps, version : {0} \cup Versions, docs : SUBSET Indexed,
         expected : {"none"} \cup LifecycleStates]

Unused == [version |-> 0, mapped |-> FALSE, run |-> "absent"]
Gone == [Unused EXCEPT !.run = "deleted"]
Fresh == [at |-> "idle", version |-> 0, docs |-> {}, expected |-> "none"]

\* Requests are interchangeable.
CallSymmetry == Permutations(Calls)

TypeOK ==
    /\ status \in [Versions -> LifecycleStates \cup {"ABSENT"}]
    /\ supersedes \in [Versions -> {0} \cup Versions]
    /\ index \in [Indexed -> IndexedDocument]
    /\ call \in [Calls -> Call]
    /\ faults \in 0..MaxFaults

PublicationInit ==
    /\ status = [v \in Versions |-> "ABSENT"]
    /\ supersedes = [v \in Versions |-> 0]
    /\ index = [d \in Indexed |-> Unused]
    /\ call = [c \in Calls |-> Fresh]
    /\ faults = 0

-----------------------------------------------------------------------------
(* domain/documents.py *)

AllowedTransitions == [s \in LifecycleStates |->
    CASE s = "DRAFT" -> {"UNDER_REVIEW", "DELETE_PENDING"}
      [] s = "UNDER_REVIEW" -> {"DRAFT", "APPROVED", "DELETE_PENDING"}
      [] s = "APPROVED" -> {"DRAFT", "PUBLISHED", "DELETE_PENDING"}
      [] s = "PUBLISHED" -> {"SUPERSEDED", "ARCHIVED", "DELETE_PENDING"}
      [] s = "SUPERSEDED" -> {"ARCHIVED", "DELETE_PENDING"}
      [] s = "ARCHIVED" -> {"DELETE_PENDING"}
      [] s = "DELETE_PENDING" -> {"DELETED"}
      [] s = "DELETED" -> {}]

\* SqlAlchemyDocumentWorkflowRepository.transition, under the lock of the row.
MayTransition(v, expected, target) ==
    status[v] = expected /\ target \in AllowedTransitions[expected]

-----------------------------------------------------------------------------
(* Upload, submit_review and approve. *)

\* create_draft; supersedes_version_id is whatever version the client names, or none.
Upload(v, old) ==
    /\ status[v] = "ABSENT"
    /\ \A u \in Versions : u < v => status[u] # "ABSENT"
    /\ old \in {0} \cup 1..(v - 1)
    /\ status' = [status EXCEPT ![v] = "DRAFT"]
    /\ supersedes' = [supersedes EXCEPT ![v] = old]
    /\ UNCHANGED <<index, call, faults>>

Transition(v, expected, target) ==
    /\ MayTransition(v, expected, target)
    /\ status' = [status EXCEPT ![v] = target]
    /\ UNCHANGED <<supersedes, index, call, faults>>

SubmitReview(v) == Transition(v, "DRAFT", "UNDER_REVIEW")
Approve(v) == Transition(v, "UNDER_REVIEW", "APPROVED")

-----------------------------------------------------------------------------
(* Publish. *)

Goto(c, at) == call' = [call EXCEPT ![c].at = at]
\* What the request held in its locals goes with it.
End(c) == call' = [call EXCEPT ![c] = [Fresh EXCEPT !.at = "ended"]]
IsIndexed(d) == index[d].run \notin {"absent", "deleted"}
DocumentOf(c) == CHOOSE d \in call[c].docs : TRUE
FirstFree(d) == index[d].run = "absent" /\ \A e \in Indexed : e < d => index[e].run # "absent"
MayGoOn == Cardinality({c \in Calls : call[c].at # "idle"}) + faults < MaxIncidents
\* A provider request that fails is one fault.
Fault == MayGoOn /\ faults < MaxFaults /\ faults' = faults + 1

\* What the metadata condition of list documents selects.
Mapped(v) == {d \in Indexed : IsIndexed(d) /\ index[d].mapped /\ index[d].version = v}

\* PublishDocumentUseCase.execute up to the first provider request.
StartPublish(c, v) ==
    /\ call[c].at = "idle"
    /\ MayGoOn
    /\ status[v] = "APPROVED"
    /\ call' = [call EXCEPT ![c].at = "list", ![c].version = v]
    /\ UNCHANGED <<status, supersedes, index, faults>>

\* ingest looks for a document of the version and takes it as it is.
ListDocuments(c) ==
    /\ call[c].at = "list"
    /\ \/ /\ Mapped(call[c].version) = {}
          /\ Goto(c, "upload")
       \/ \E d \in Mapped(call[c].version) :
             call' = [call EXCEPT ![c].at = "status", ![c].docs = {d}]
    /\ UNCHANGED <<status, supersedes, index, faults>>

NewDocument(v) == [version |-> v, mapped |-> FALSE, run |-> "unstarted"]
UploadDocument(c) ==
    /\ call[c].at = "upload"
    /\ \E d \in Indexed :
          /\ FirstFree(d)
          /\ index' = [index EXCEPT ![d] = NewDocument(call[c].version)]
          /\ call' = [call EXCEPT ![c].at = "metadata", ![c].docs = {d}]
    /\ UNCHANGED <<status, supersedes, faults>>

\* The response of the upload is lost.  _request repeats the POST, so the
\* dataset keeps a document nobody knows.
UploadRepeats(c) ==
    /\ call[c].at = "upload"
    /\ Fault
    /\ \E d \in Indexed :
          /\ FirstFree(d)
          /\ index' = [index EXCEPT ![d] = NewDocument(call[c].version)]
    /\ UNCHANGED <<status, supersedes, call>>

PutMetadata(c) ==
    /\ call[c].at = "metadata"
    /\ IsIndexed(DocumentOf(c))
    /\ index' = [index EXCEPT ![DocumentOf(c)].mapped = TRUE]
    /\ Goto(c, "parse")
    /\ UNCHANGED <<status, supersedes, faults>>

\* The PUT raises, whether or not it took effect; _best_effort_delete_provider_document
\* follows and ignores its own failure.
PutMetadataFails(c) ==
    /\ call[c].at = "metadata"
    /\ Fault
    /\ \E applied \in BOOLEAN :
          index' = [index EXCEPT ![DocumentOf(c)].mapped = applied]
    /\ Goto(c, "cleanup")
    /\ UNCHANGED <<status, supersedes>>

Cleanup(c) ==
    /\ call[c].at = "cleanup"
    /\ \/ index' = [index EXCEPT ![DocumentOf(c)] = Gone]
       \/ UNCHANGED index
    /\ End(c)
    /\ UNCHANGED <<status, supersedes, faults>>

\* POST chunks; the provider refuses a document that is gone.
StartParse(c) ==
    /\ call[c].at = "parse"
    /\ \/ /\ IsIndexed(DocumentOf(c))
          /\ index' = [index EXCEPT ![DocumentOf(c)].run = "running"]
          /\ Goto(c, "status")
       \/ /\ ~IsIndexed(DocumentOf(c))
          /\ End(c)
          /\ UNCHANGED index
    /\ UNCHANGED <<status, supersedes, faults>>

\* The provider parses in the background.
ParseEnds(d) ==
    /\ index[d].run = "running"
    /\ \E r \in {"done", "failed"} : index' = [index EXCEPT ![d].run = r]
    /\ UNCHANGED <<status, supersedes, call, faults>>

\* The submission is audited and committed; then get_ingestion_status.  The
\* request ends with PUBLISH_PENDING, a failure, or goes on to complete.
ReadyInAnyState(c) == IsIndexed(DocumentOf(c))    \* mutant
Ready(c) == index[DocumentOf(c)].run = "done"
ReadStatus(c) ==
    /\ call[c].at = "status"
    /\ IF Ready(c) THEN Goto(c, "complete") ELSE End(c)
    /\ UNCHANGED <<status, supersedes, index, faults>>

\* complete_publication locks the version and the one it supersedes.
CompletesOverAnything(v) == status[v] = "APPROVED"    \* mutant
Completes(v) ==
    /\ status[v] = "APPROVED"
    /\ supersedes[v] # 0 => status[supersedes[v]] = "PUBLISHED"
SwitchedOldFirst(v) ==    \* mutant
    IF supersedes[v] = 0 THEN [status EXCEPT ![v] = "PUBLISHED"]
    ELSE [status EXCEPT ![supersedes[v]] = "SUPERSEDED"]
Switched(v) == [u \in Versions |->
    IF u = v THEN "PUBLISHED" ELSE IF u = supersedes[v] THEN "SUPERSEDED" ELSE status[u]]
CompletePublication(c) ==
    /\ call[c].at = "complete"
    /\ status' = IF Completes(call[c].version) THEN Switched(call[c].version) ELSE status
    /\ End(c)
    /\ UNCHANGED <<supersedes, index, faults>>

-----------------------------------------------------------------------------
(* Delete. *)

StartDelete(c, v) ==
    /\ call[c].at = "idle"
    /\ MayGoOn
    /\ status[v] # "ABSENT"
    /\ call' = [call EXCEPT ![c].at = "transition", ![c].version = v, ![c].expected = status[v]]
    /\ UNCHANGED <<status, supersedes, index, faults>>

\* DELETE_PENDING is committed before the provider is asked; a status that has
\* changed since it was read is a ValueError.
DeleteTransition(c) ==
    /\ call[c].at = "transition"
    /\ \/ /\ MayTransition(call[c].version, call[c].expected, "DELETE_PENDING")
          /\ status' = [status EXCEPT ![call[c].version] = "DELETE_PENDING"]
          /\ Goto(c, "list_to_delete")
       \/ /\ ~MayTransition(call[c].version, call[c].expected, "DELETE_PENDING")
          /\ End(c)
          /\ UNCHANGED status
    /\ UNCHANGED <<supersedes, index, faults>>

ListToDelete(c) ==
    /\ call[c].at = "list_to_delete"
    /\ IF Mapped(call[c].version) = {} THEN End(c)
       ELSE call' = [call EXCEPT ![c].at = "delete", ![c].docs = Mapped(call[c].version)]
    /\ UNCHANGED <<status, supersedes, index, faults>>

DeleteDocuments(c) ==
    /\ call[c].at = "delete"
    /\ index' = [d \in Indexed |->
          IF d \in call[c].docs THEN Gone ELSE index[d]]
    /\ End(c)
    /\ UNCHANGED <<status, supersedes, faults>>

\* A provider request raises or the API process dies: what was committed and
\* what the provider did stay.
CallFails(c) ==
    /\ call[c].at \notin {"idle", "ended"}
    /\ Fault
    /\ End(c)
    /\ UNCHANGED <<status, supersedes, index>>

-----------------------------------------------------------------------------
CallStep(c) ==
    \/ ListDocuments(c) \/ UploadDocument(c) \/ UploadRepeats(c) \/ PutMetadata(c)
    \/ PutMetadataFails(c) \/ Cleanup(c) \/ StartParse(c) \/ ReadStatus(c)
    \/ CompletePublication(c) \/ DeleteTransition(c) \/ ListToDelete(c)
    \/ DeleteDocuments(c) \/ CallFails(c)

PublicationNext ==
    \/ \E v \in Versions : SubmitReview(v) \/ Approve(v) \/ \E old \in 0..MaxVersions : Upload(v, old)
    \/ \E c \in Calls : CallStep(c) \/ \E v \in Versions : StartPublish(c, v) \/ StartDelete(c, v)
    \/ \E d \in Indexed : ParseEnds(d)

PublicationSpec == PublicationInit /\ [][PublicationNext]_publicationVars

-----------------------------------------------------------------------------
(* Properties. *)

\* The versions that replace first, directly or through others, or some of them: each
\* names the one it replaces among them.
Line(first, S) ==
    /\ first \in S
    /\ supersedes[first] = 0
    /\ \A v \in S \ {first} : supersedes[v] \in S

\* Of the versions that replace one another at most one is official, however the
\* publications of rivals for the same place and of their successors interleave with
\* each other and with deletions.
OneCurrentPerLine ==
    \A first \in Versions, S \in SUBSET Versions : Line(first, S) =>
        \A u, v \in S : status[u] = "PUBLISHED" /\ status[v] = "PUBLISHED" => u = v

\* A document never has two current official versions (docs/business/
\* document-lifecycle.md, section 4).
OneCurrentVersion == Cardinality({v \in Versions : status[v] = "PUBLISHED"}) <= 1

\* A version that is PUBLISHED can be retrieved: a parsed document of the
\* dataset carries its id, although requests fail, are repeated, reuse each
\* other's documents and clean up after themselves.
PublishedIsIndexed ==
    \A v \in Versions : status[v] = "PUBLISHED" =>
        \E d \in Mapped(v) : index[d].run = "done"

\* Authority is handed over in one step: a published version stops being
\* published only by its own deletion or when a successor is published.
AuthorityIsHandedOver ==
    [][\A v \in Versions : status[v] = "PUBLISHED" /\ status'[v] # "PUBLISHED" =>
          \/ status'[v] = "DELETE_PENDING"
          \/ /\ status'[v] = "SUPERSEDED"
             /\ \E u \in Versions : /\ supersedes[u] = v
                                    /\ status[u] = "APPROVED"
                                    /\ status'[u] = "PUBLISHED"]_publicationVars
=============================================================================
