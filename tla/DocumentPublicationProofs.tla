---------------------- MODULE DocumentPublicationProofs ----------------------
(***************************************************************************)
(* The safety of publication, proved for every number of versions,         *)
(* requests, provider documents and faults.                                *)
(*                                                                         *)
(* Retrieval: a request holds its provider document alone from the upload  *)
(* until parsing starts (OwnedAlone), so that the cleanup of a failed one  *)
(* never reaches a parsed document; only parsed documents with metadata    *)
(* let a publication complete, and between that look and the completion    *)
(* they disappear only with the version itself (ReadyStays).               *)
(*                                                                         *)
(* Authority, within the versions that replace one another: the first of   *)
(* them replaces nothing, and once a later one is published the first      *)
(* never comes back to be published (FirstIsPast).                         *)
(***************************************************************************)
EXTENDS DocumentPublication, TLAPS

\* What a request has by the time it reaches a step.
Holding == {"metadata", "cleanup", "parse", "status", "complete"}
Owning == {"metadata", "cleanup", "parse"}
Shaped(c) ==
    /\ call[c].at = "idle" => call[c].docs = {}
    /\ call[c].at \notin {"idle", "ended"} => call[c].version \in Versions
    /\ call[c].at \in Holding => \E d \in Indexed : call[c].docs = {d}

\* The documents of a request are of its version as long as they exist.
Matches(c) ==
    \A d \in call[c].docs :
        /\ index[d].run # "absent"
        /\ index[d].run # "deleted" => index[d].version = call[c].version

\* A document whose parsing was not started is held by the request that uploaded it.
OwnsUnparsed(c) ==
    call[c].at \in Owning => \A d \in call[c].docs :
        /\ index[d].run \in {"unstarted", "deleted"}
        /\ call[c].at = "parse" /\ index[d].run = "unstarted" => index[d].mapped
OwnedAlone ==
    \A b, c \in Calls : call[b].at \in Owning /\ call[c].at \in Owning /\ b # c =>
        \A d \in call[b].docs : d \notin call[c].docs
ParsedIsMapped ==
    \A d \in Indexed : index[d].run \in {"running", "done", "failed"} => index[d].mapped

\* Documents are deleted only of a version that is being deleted.
ReadyStays(c) ==
    /\ call[c].at \in {"list_to_delete", "delete"} => status[call[c].version] = "DELETE_PENDING"
    /\ call[c].at = "complete" =>
          \/ status[call[c].version] = "DELETE_PENDING"
          \/ \A d \in call[c].docs : index[d].run = "done"

CallGood(c) == Shaped(c) /\ Matches(c) /\ OwnsUnparsed(c) /\ ReadyStays(c)
PublicationInv ==
    TypeOK /\ (\A c \in Calls : CallGood(c)) /\ OwnedAlone /\ ParsedIsMapped /\ PublishedIsIndexed

\* A version names only one that was uploaded before it.
Unpublished == {"ABSENT", "DRAFT", "UNDER_REVIEW", "APPROVED"}
NamesUploaded ==
    \A v \in Versions : supersedes[v] # 0 =>
        status[v] # "ABSENT" /\ status[supersedes[v]] # "ABSENT"

\* Once a later version of a line is official, the first one is past it.
OneOf(first, S) ==
    /\ \A v \in S : status[v] = "PUBLISHED" /\ v # first => status[first] \notin Unpublished
    /\ \A u, v \in S : status[u] = "PUBLISHED" /\ status[v] = "PUBLISHED" => u = v
FirstIsPast ==
    /\ NamesUploaded
    /\ \A first \in Versions, S \in SUBSET Versions : Line(first, S) => OneOf(first, S)

-----------------------------------------------------------------------------
(* The requests. *)

OnlyChanges(c) ==
    /\ call' \in [Calls -> Call]
    /\ \A b \in Calls \ {c} : call'[b] = call[b]

LEMMA GoneDocument == Gone \in IndexedDocument /\ Gone.run = "deleted"
  BY DEF Gone, Unused, IndexedDocument

\* What Goto and End do to a request.
LEMMA GotoEffect ==
    ASSUME TypeOK, NEW c \in Calls, NEW a \in Steps, Goto(c, a)
    PROVE  /\ OnlyChanges(c)
           /\ call'[c].at = a /\ call'[c].version = call[c].version
           /\ call'[c].docs = call[c].docs /\ call'[c].expected = call[c].expected
<1>1. call[c] \in Call
  BY DEF TypeOK
<1>2. [call[c] EXCEPT !.at = a] \in Call
  BY <1>1 DEF Call
<1>3. call' = [call EXCEPT ![c] = [call[c] EXCEPT !.at = a]]
  BY DEF Goto
<1>4. QED
  BY <1>1, <1>2, <1>3 DEF TypeOK, OnlyChanges, Call

LEMMA EndEffect ==
    ASSUME TypeOK, NEW c \in Calls, End(c)
    PROVE  OnlyChanges(c) /\ call'[c].at = "ended" /\ call'[c].docs = {}
<1> DEFINE x == [Fresh EXCEPT !.at = "ended"]
<1>1. x \in Call /\ x.at = "ended" /\ x.docs = {}
  BY DEF Fresh, Call, Steps
<1>2. call' = [call EXCEPT ![c] = x]
  BY DEF End
<1> HIDE DEF x
<1>3. QED
  BY <1>1, <1>2 DEF TypeOK, OnlyChanges

\* A request is given a step and the documents it works on.
LEMMA TakeEffect ==
    ASSUME TypeOK, NEW c \in Calls, NEW a \in Steps, NEW docs \in SUBSET Indexed,
           call' = [call EXCEPT ![c].at = a, ![c].docs = docs]
    PROVE  /\ OnlyChanges(c)
           /\ call'[c].at = a /\ call'[c].version = call[c].version /\ call'[c].docs = docs
<1> DEFINE x == [call[c] EXCEPT !.at = a, !.docs = docs]
<1>1. call[c] \in Call
  BY DEF TypeOK
<1>2. x \in Call
  BY <1>1 DEF Call
<1>3. x.at = a /\ x.version = call[c].version /\ x.docs = docs
  BY <1>1 DEF Call
<1>4. call' = [call EXCEPT ![c] = x]
  OBVIOUS
<1> HIDE DEF x
<1>5. QED
  BY <1>2, <1>3, <1>4 DEF TypeOK, OnlyChanges

\* The document a request holds.
LEMMA Held ==
    ASSUME NEW c \in Calls, Shaped(c), call[c].at \in Holding
    PROVE  DocumentOf(c) \in Indexed /\ call[c].docs = {DocumentOf(c)}
  BY DEF Shaped, DocumentOf

\* The request of another, whose documents change in ways it does not notice.
LEMMA OthersGood ==
    ASSUME NEW b \in Calls, CallGood(b), call'[b] = call[b],
           \A v \in Versions : status[v] = "DELETE_PENDING" => status'[v] = "DELETE_PENDING",
           \A d \in call[b].docs :
              /\ index'[d].run # "absent"
              /\ index'[d].run # "deleted" =>
                    index[d].run # "deleted" /\ index'[d].version = index[d].version
              /\ call[b].at \in Owning =>
                    \/ index'[d].run = "deleted"
                    \/ index'[d].run = "unstarted" /\ index[d].run = "unstarted"
                          /\ (index[d].mapped => index'[d].mapped)
              /\ call[b].at = "complete" /\ index[d].run = "done" =>
                    index'[d].run = "done" \/ status'[call[b].version] = "DELETE_PENDING"
    PROVE  CallGood(b)'
<1>1. Shaped(b)'
  BY DEF CallGood, Shaped
<1>2. Matches(b)'
  BY DEF CallGood, Matches
<1>3. OwnsUnparsed(b)'
  BY DEF CallGood, OwnsUnparsed
<1>4. ReadyStays(b)'
  BY DEF CallGood, ReadyStays, Shaped
<1>5. QED
  BY <1>1, <1>2, <1>3, <1>4 DEF CallGood

\* A request that ended.
LEMMA EndedGood ==
    ASSUME NEW c \in Calls, call'[c].at = "ended", call'[c].docs = {}
    PROVE  CallGood(c)'
  BY DEF CallGood, Shaped, Matches, OwnsUnparsed, ReadyStays, Holding, Owning

-----------------------------------------------------------------------------
(* The lifecycle. *)

\* What a step does to the versions.
StatusMoves ==
    \/ UNCHANGED <<status, supersedes>>
    \/ \E v \in Versions, old \in 0..MaxVersions : Upload(v, old)
    \/ \E v \in Versions : SubmitReview(v) \/ Approve(v)
    \/ /\ UNCHANGED supersedes
       /\ \E v \in Versions : /\ status[v] \notin {"ABSENT", "DELETE_PENDING", "DELETED"}
                              /\ status' = [status EXCEPT ![v] = "DELETE_PENDING"]
    \/ /\ UNCHANGED supersedes
       /\ \E c \in Calls : /\ call[c].at = "complete" /\ Completes(call[c].version)
                           /\ call[c].version \in Versions
                           /\ status' = Switched(call[c].version)

LEMMA StatusChange ==
    ASSUME TypeOK, \A c \in Calls : Shaped(c), PublicationNext
    PROVE  StatusMoves
<1>1. ASSUME NEW c \in Calls, DeleteTransition(c)
      PROVE  StatusMoves
  <2>1. call[c].version \in Versions
    BY <1>1 DEF Shaped, DeleteTransition
  <2>2. status[call[c].version] \in LifecycleStates \cup {"ABSENT"}
    BY <2>1 DEF TypeOK
  <2>3. call[c].expected \in {"none"} \cup LifecycleStates
    BY DEF TypeOK, Call
  <2>4. CASE /\ MayTransition(call[c].version, call[c].expected, "DELETE_PENDING")
             /\ status' = [status EXCEPT ![call[c].version] = "DELETE_PENDING"]
    <3>1. status[call[c].version] = call[c].expected
      BY <2>4 DEF MayTransition
    <3>2. call[c].expected \in LifecycleStates
      BY <2>2, <2>3, <3>1 DEF LifecycleStates
    <3>3. call[c].expected \notin {"ABSENT", "DELETE_PENDING", "DELETED"}
      BY <2>4, <3>2 DEF MayTransition, AllowedTransitions, LifecycleStates
    <3>4. QED
      BY <1>1, <2>1, <2>4, <3>1, <3>3 DEF DeleteTransition, StatusMoves
  <2>5. QED
    BY <1>1, <2>4 DEF DeleteTransition, StatusMoves
<1>2. ASSUME NEW c \in Calls, CompletePublication(c)
      PROVE  StatusMoves
  <2>1. call[c].version \in Versions
    BY <1>2 DEF Shaped, CompletePublication
  <2>2. QED
    BY <1>2, <2>1 DEF CompletePublication, StatusMoves
<1>3. ASSUME NEW c \in Calls, CallStep(c)
      PROVE  StatusMoves
  BY <1>1, <1>2, <1>3
     DEF CallStep, ListDocuments, UploadDocument, UploadRepeats, PutMetadata, PutMetadataFails,
         Cleanup, StartParse, ReadStatus, ListToDelete, DeleteDocuments, CallFails, StatusMoves
<1>4. QED
  BY <1>3 DEF PublicationNext, StatusMoves, StartPublish, StartDelete, ParseEnds

\* The versions after a step.
LEMMA StatusFit ==
    ASSUME TypeOK, StatusMoves
    PROVE  /\ status' \in [Versions -> LifecycleStates \cup {"ABSENT"}]
           /\ supersedes' \in [Versions -> {0} \cup Versions]
           /\ \A v \in Versions : status[v] = "DELETE_PENDING" => status'[v] = "DELETE_PENDING"
           /\ \A v \in Versions : status'[v] = "PUBLISHED" =>
                 \/ status[v] = "PUBLISHED"
                 \/ \E c \in Calls : /\ call[c].at = "complete" /\ call[c].version = v
                                     /\ status[v] = "APPROVED"
<1>1. CASE UNCHANGED <<status, supersedes>>
  BY <1>1 DEF TypeOK
<1>2. CASE \E v \in Versions, old \in 0..MaxVersions : Upload(v, old)
  BY <1>2, PublicationAssumption DEF Upload, TypeOK, LifecycleStates, Versions
<1>3. CASE \E v \in Versions : SubmitReview(v) \/ Approve(v)
  BY <1>3 DEF SubmitReview, Approve, Transition, MayTransition, TypeOK, LifecycleStates
<1>4. CASE /\ UNCHANGED supersedes
           /\ \E v \in Versions : /\ status[v] \notin {"ABSENT", "DELETE_PENDING", "DELETED"}
                                  /\ status' = [status EXCEPT ![v] = "DELETE_PENDING"]
  BY <1>4 DEF TypeOK, LifecycleStates
<1>5. CASE /\ UNCHANGED supersedes
           /\ \E c \in Calls : /\ call[c].at = "complete" /\ Completes(call[c].version)
                               /\ call[c].version \in Versions
                               /\ status' = Switched(call[c].version)
  <2>1. PICK c \in Calls : /\ call[c].at = "complete" /\ Completes(call[c].version)
                           /\ call[c].version \in Versions
                           /\ status' = Switched(call[c].version)
    BY <1>5
  <2> DEFINE v == call[c].version
  <2>2. v \in Versions /\ status[v] = "APPROVED"
    BY <2>1 DEF Completes
  <2>3. \A u \in Versions :
           status'[u] = IF u = v THEN "PUBLISHED"
                        ELSE IF u = supersedes[v] THEN "SUPERSEDED" ELSE status[u]
    BY <2>1 DEF Switched
  <2>4. status' \in [Versions -> LifecycleStates \cup {"ABSENT"}]
    BY <2>1 DEF Switched, TypeOK, LifecycleStates
  <2>5. \A u \in Versions : u = supersedes[v] => status[u] = "PUBLISHED"
    BY <2>1 DEF Completes, Versions
  <2>6. QED
    BY <1>5, <2>1, <2>2, <2>3, <2>4, <2>5 DEF TypeOK
<1>6. QED
  BY <1>1, <1>2, <1>3, <1>4, <1>5 DEF StatusMoves

-----------------------------------------------------------------------------
(* The steps. *)

DeletionStays == \A v \in Versions : status[v] = "DELETE_PENDING" => status'[v] = "DELETE_PENDING"

\* A parsed document changes only with the deletion of its version.
DoneStays ==
    \A d \in Indexed : index[d].run = "done" =>
        index'[d] = index[d] \/ status[index[d].version] = "DELETE_PENDING"

StepFits ==
    /\ index' \in [Indexed -> IndexedDocument]
    /\ call' \in [Calls -> Call] /\ \A b \in Calls : CallGood(b)'
    /\ OwnedAlone' /\ ParsedIsMapped' /\ DoneStays

\* A request moves on and the dataset stays as it is.
LEMMA CallMoves ==
    ASSUME PublicationInv, DeletionStays, NEW c \in Calls, OnlyChanges(c), UNCHANGED index,
           CallGood(c)',
           call'[c].at \in Owning => call[c].at \in Owning /\ call'[c].docs = call[c].docs
    PROVE  StepFits
<1>1. \A b \in Calls \ {c} : CallGood(b)'
  <2>1. ASSUME NEW b \in Calls \ {c} PROVE CallGood(b)'
    <3>1. CallGood(b) /\ call'[b] = call[b]
      BY DEF PublicationInv, OnlyChanges
    <3>2. \A d \in call[b].docs :
             /\ index[d].run # "absent"
             /\ call[b].at \in Owning => index[d].run \in {"unstarted", "deleted"}
      BY <3>1 DEF CallGood, Matches, OwnsUnparsed
    <3>3. index' = index
      OBVIOUS
    <3>4. QED
      BY <3>1, <3>2, <3>3, OthersGood DEF DeletionStays
  <2>2. QED
    BY <2>1
<1>2. OwnedAlone'
  BY DEF PublicationInv, OwnedAlone, OnlyChanges
<1>3. ParsedIsMapped' /\ DoneStays
  BY DEF PublicationInv, ParsedIsMapped, DoneStays
<1>4. QED
  BY <1>1, <1>2, <1>3 DEF StepFits, OnlyChanges, PublicationInv, TypeOK

\* A request changes a document nobody knows, or the unparsed one it holds alone.
LEMMA DocumentMoves ==
    ASSUME PublicationInv, DeletionStays, NEW c \in Calls, OnlyChanges(c), CallGood(c)',
           NEW d0 \in Indexed, NEW x \in IndexedDocument, index' = [index EXCEPT ![d0] = x],
           \/ index[d0].run = "absent"
           \/ /\ call[c].at \in Owning /\ d0 \in call[c].docs
              /\ x.run # "deleted" => index[d0].run # "deleted" /\ x.version = index[d0].version,
           x.run # "absent", x.run \in {"running", "done", "failed"} => x.mapped,
           call'[c].at \in Owning =>
              \/ call[c].at \in Owning /\ call'[c].docs = call[c].docs
              \/ index[d0].run = "absent" /\ call'[c].docs = {d0}
    PROVE  StepFits
<1>1. TypeOK /\ OwnedAlone /\ ParsedIsMapped /\ \A b \in Calls : CallGood(b)
  BY DEF PublicationInv
<1>2. /\ index' \in [Indexed -> IndexedDocument] /\ index'[d0] = x
      /\ \A d \in Indexed \ {d0} : index'[d] = index[d]
  BY <1>1 DEF TypeOK
<1>3. \A b \in Calls : call[b].docs \subseteq Indexed
  BY <1>1 DEF TypeOK, Call
<1>4. index[d0].run \in {"absent", "unstarted", "deleted"}
  BY <1>1 DEF CallGood, OwnsUnparsed
<1>5. ASSUME NEW b \in Calls \ {c} PROVE CallGood(b)'
  <2>1. CallGood(b) /\ call'[b] = call[b]
    BY <1>1 DEF OnlyChanges
  <2>2. d0 \in call[b].docs =>
           /\ call[b].at \notin Owning
           /\ x.run # "deleted" => index[d0].run # "deleted" /\ x.version = index[d0].version
    BY <1>1, <2>1 DEF CallGood, Matches, OwnedAlone
  <2>3. ASSUME NEW d \in call[b].docs
        PROVE  /\ index'[d].run # "absent"
               /\ index'[d].run # "deleted" =>
                     index[d].run # "deleted" /\ index'[d].version = index[d].version
               /\ call[b].at \in Owning =>
                     \/ index'[d].run = "deleted"
                     \/ index'[d].run = "unstarted" /\ index[d].run = "unstarted"
                           /\ (index[d].mapped => index'[d].mapped)
               /\ call[b].at = "complete" /\ index[d].run = "done" =>
                     index'[d].run = "done" \/ status'[call[b].version] = "DELETE_PENDING"
    <3>1. CASE d = d0
      BY <1>2, <1>4, <2>2, <3>1
    <3>2. CASE d # d0
      BY <1>2, <1>3, <2>1, <3>2 DEF CallGood, Matches, OwnsUnparsed
    <3>3. QED
      BY <3>1, <3>2
  <2>4. QED
    BY <2>1, <2>3, OthersGood DEF DeletionStays
<1>6. OwnedAlone'
  <2>1. \A b \in Calls : index[d0].run = "absent" => d0 \notin call[b].docs
    BY <1>1 DEF CallGood, Matches
  <2>2. \A b \in Calls \ {c} : call'[b] = call[b]
    BY DEF OnlyChanges
  <2>3. \A b \in Calls \ {c} : call[b].at \in Owning /\ call'[c].at \in Owning =>
           \A d \in call[b].docs : d \notin call'[c].docs
    BY <1>1, <2>1 DEF OwnedAlone
  <2>4. QED
    BY <1>1, <2>2, <2>3 DEF OwnedAlone
<1>7. ParsedIsMapped'
  BY <1>1, <1>2 DEF ParsedIsMapped
<1>8. DoneStays
  BY <1>2, <1>4 DEF DoneStays
<1>9. QED
  BY <1>2, <1>5, <1>6, <1>7, <1>8 DEF StepFits, OnlyChanges

\* A published version stays in the dataset.
LEMMA PublishedStep ==
    ASSUME PublicationInv, StatusMoves, DoneStays
    PROVE  PublishedIsIndexed'
<1>1. SUFFICES ASSUME NEW v \in Versions, status'[v] = "PUBLISHED"
               PROVE  \E d \in Indexed : /\ index'[d].run = "done" /\ index'[d].mapped
                                         /\ index'[d].version = v
  BY DEF PublishedIsIndexed, Mapped, IsIndexed
<1>2. status[v] # "DELETE_PENDING"
  BY <1>1, StatusFit DEF PublicationInv
<1>3. \E d \in Indexed : index[d].run = "done" /\ index[d].mapped /\ index[d].version = v
  <2>1. CASE status[v] = "PUBLISHED"
    BY <2>1 DEF PublicationInv, PublishedIsIndexed, Mapped
  <2>2. CASE \E c \in Calls : call[c].at = "complete" /\ call[c].version = v
    <3>1. PICK c \in Calls : call[c].at = "complete" /\ call[c].version = v
      BY <2>2
    <3>2. CallGood(c) /\ ParsedIsMapped
      BY DEF PublicationInv
    <3>3. PICK d \in Indexed : call[c].docs = {d}
      BY <3>1, <3>2 DEF CallGood, Shaped, Holding
    <3>4. index[d].run = "done"
      BY <1>2, <3>1, <3>2, <3>3 DEF CallGood, ReadyStays
    <3>5. index[d].version = v /\ index[d].mapped
      BY <3>1, <3>2, <3>3, <3>4 DEF CallGood, Matches, ParsedIsMapped
    <3>6. QED
      BY <3>4, <3>5
  <2>3. QED
    BY <1>1, <2>1, <2>2, StatusFit DEF PublicationInv
<1>4. QED
  BY <1>2, <1>3 DEF DoneStays

\* The steps before a request has a document, and those that only look.
LEMMA StartPublishStep ==
    ASSUME PublicationInv, DeletionStays, NEW c \in Calls, NEW v \in Versions, StartPublish(c, v)
    PROVE  StepFits
<1> DEFINE x == [call[c] EXCEPT !.at = "list", !.version = v]
<1>1. call[c] \in Call /\ CallGood(c)
  BY DEF PublicationInv, TypeOK
<1>2. x \in Call
  BY <1>1 DEF Call, Steps
<1>3. x.at = "list" /\ x.version = v /\ x.docs = {}
  BY <1>1 DEF Call, StartPublish, CallGood, Shaped
<1>4. call' = [call EXCEPT ![c] = x] /\ UNCHANGED index
  BY DEF StartPublish
<1> HIDE DEF x
<1>5. OnlyChanges(c) /\ call'[c] = x
  BY <1>2, <1>4 DEF OnlyChanges, PublicationInv, TypeOK
<1>6. CallGood(c)'
  BY <1>3, <1>5 DEF CallGood, Shaped, Matches, OwnsUnparsed, ReadyStays, Holding, Owning
<1>7. QED
  BY <1>3, <1>4, <1>5, <1>6, CallMoves DEF Owning

LEMMA StartDeleteStep ==
    ASSUME PublicationInv, DeletionStays, NEW c \in Calls, NEW v \in Versions, StartDelete(c, v)
    PROVE  StepFits
<1> DEFINE x == [call[c] EXCEPT !.at = "transition", !.version = v, !.expected = status[v]]
<1>1. call[c] \in Call /\ CallGood(c) /\ status[v] \in LifecycleStates
  BY DEF PublicationInv, TypeOK, StartDelete
<1>2. x \in Call
  BY <1>1 DEF Call, Steps
<1>3. x.at = "transition" /\ x.version = v /\ x.docs = {}
  BY <1>1 DEF Call, StartDelete, CallGood, Shaped
<1>4. call' = [call EXCEPT ![c] = x] /\ UNCHANGED index
  BY DEF StartDelete
<1> HIDE DEF x
<1>5. OnlyChanges(c) /\ call'[c] = x
  BY <1>2, <1>4 DEF OnlyChanges, PublicationInv, TypeOK
<1>6. CallGood(c)'
  BY <1>3, <1>5 DEF CallGood, Shaped, Matches, OwnsUnparsed, ReadyStays, Holding, Owning
<1>7. QED
  BY <1>3, <1>4, <1>5, <1>6, CallMoves DEF Owning

\* A request that ends and leaves the dataset alone.
LEMMA EndingStep ==
    ASSUME PublicationInv, DeletionStays, NEW c \in Calls, End(c), UNCHANGED index
    PROVE  StepFits
<1>1. OnlyChanges(c) /\ call'[c].at = "ended" /\ call'[c].docs = {}
  BY EndEffect DEF PublicationInv
<1>2. CallGood(c)'
  BY <1>1, EndedGood
<1>3. QED
  BY <1>1, <1>2, CallMoves DEF Owning

LEMMA ListDocumentsStep ==
    ASSUME PublicationInv, DeletionStays, NEW c \in Calls, ListDocuments(c)
    PROVE  StepFits
<1>1. TypeOK /\ CallGood(c) /\ call[c].at = "list" /\ UNCHANGED index
  BY DEF PublicationInv, ListDocuments
<1>2. CASE Goto(c, "upload")
  <2>1. /\ OnlyChanges(c) /\ call'[c].at = "upload"
        /\ call'[c].version = call[c].version /\ call'[c].docs = call[c].docs
    BY <1>1, <1>2, GotoEffect DEF Steps
  <2>2. CallGood(c)'
    BY <1>1, <2>1 DEF CallGood, Shaped, Matches, OwnsUnparsed, ReadyStays, Holding, Owning
  <2>3. QED
    BY <1>1, <2>1, <2>2, CallMoves DEF Owning
<1>3. CASE \E d \in Mapped(call[c].version) :
             call' = [call EXCEPT ![c].at = "status", ![c].docs = {d}]
  <2>1. PICK d \in Mapped(call[c].version) :
             call' = [call EXCEPT ![c].at = "status", ![c].docs = {d}]
    BY <1>3
  <2>2. d \in Indexed /\ IsIndexed(d) /\ index[d].version = call[c].version
    BY <2>1 DEF Mapped
  <2>3. "status" \in Steps /\ {d} \in SUBSET Indexed
    BY <2>2 DEF Steps
  <2>4. /\ OnlyChanges(c) /\ call'[c].at = "status"
        /\ call'[c].version = call[c].version /\ call'[c].docs = {d}
    <3>1. PICK docs \in SUBSET Indexed : docs = {d}
      BY <2>3
    <3>2. call' = [call EXCEPT ![c].at = "status", ![c].docs = docs]
      BY <2>1, <3>1
    <3>3. /\ OnlyChanges(c) /\ call'[c].at = "status"
          /\ call'[c].version = call[c].version /\ call'[c].docs = docs
      BY <1>1, <2>3, <3>2, TakeEffect
    <3>4. QED
      BY <3>1, <3>3
  <2>5. CallGood(c)'
    BY <1>1, <2>2, <2>4
       DEF CallGood, Shaped, Matches, OwnsUnparsed, ReadyStays, Holding, Owning, IsIndexed
  <2>6. QED
    BY <1>1, <2>4, <2>5, CallMoves DEF Owning
<1>4. QED
  BY <1>2, <1>3 DEF ListDocuments

LEMMA ReadStatusStep ==
    ASSUME PublicationInv, DeletionStays, NEW c \in Calls, ReadStatus(c)
    PROVE  StepFits
<1>1. TypeOK /\ CallGood(c) /\ call[c].at = "status" /\ UNCHANGED index
  BY DEF PublicationInv, ReadStatus
<1>2. CASE Ready(c) /\ Goto(c, "complete")
  <2>1. /\ OnlyChanges(c) /\ call'[c].at = "complete"
        /\ call'[c].version = call[c].version /\ call'[c].docs = call[c].docs
    BY <1>1, <1>2, GotoEffect DEF Steps
  <2>2. DocumentOf(c) \in Indexed /\ call[c].docs = {DocumentOf(c)}
    BY <1>1, Held DEF CallGood, Holding
  <2>3. \A d \in call[c].docs : index[d].run = "done"
    BY <1>2, <2>2 DEF Ready
  <2>4. CallGood(c)'
    BY <1>1, <2>1, <2>3 DEF CallGood, Shaped, Matches, OwnsUnparsed, ReadyStays, Holding, Owning
  <2>5. QED
    BY <1>1, <2>1, <2>4, CallMoves DEF Owning
<1>3. CASE End(c)
  BY <1>1, <1>3, EndingStep
<1>4. QED
  BY <1>2, <1>3 DEF ReadStatus

LEMMA DeleteTransitionStep ==
    ASSUME PublicationInv, DeletionStays, NEW c \in Calls, DeleteTransition(c)
    PROVE  StepFits
<1>1. TypeOK /\ CallGood(c) /\ call[c].at = "transition" /\ UNCHANGED index
  BY DEF PublicationInv, DeleteTransition
<1>2. CASE /\ status' = [status EXCEPT ![call[c].version] = "DELETE_PENDING"]
           /\ Goto(c, "list_to_delete")
  <2>1. /\ OnlyChanges(c) /\ call'[c].at = "list_to_delete"
        /\ call'[c].version = call[c].version /\ call'[c].docs = call[c].docs
    BY <1>1, <1>2, GotoEffect DEF Steps
  <2>2. call[c].version \in Versions
    BY <1>1 DEF CallGood, Shaped
  <2>3. status'[call'[c].version] = "DELETE_PENDING"
    BY <1>1, <1>2, <2>1, <2>2 DEF TypeOK
  <2>4. CallGood(c)'
    BY <1>1, <2>1, <2>2, <2>3
       DEF CallGood, Shaped, Matches, OwnsUnparsed, ReadyStays, Holding, Owning
  <2>5. QED
    BY <1>1, <2>1, <2>4, CallMoves DEF Owning
<1>3. CASE End(c)
  BY <1>1, <1>3, EndingStep
<1>4. QED
  BY <1>2, <1>3 DEF DeleteTransition

LEMMA ListToDeleteStep ==
    ASSUME PublicationInv, DeletionStays, NEW c \in Calls, ListToDelete(c)
    PROVE  StepFits
<1>1. TypeOK /\ CallGood(c) /\ call[c].at = "list_to_delete" /\ UNCHANGED <<index, status>>
  BY DEF PublicationInv, ListToDelete
<1>2. CASE End(c)
  BY <1>1, <1>2, EndingStep
<1>3. CASE call' = [call EXCEPT ![c].at = "delete", ![c].docs = Mapped(call[c].version)]
  <2>1. PICK docs \in SUBSET Indexed : docs = Mapped(call[c].version)
    BY DEF Mapped
  <2>2. call' = [call EXCEPT ![c].at = "delete", ![c].docs = docs] /\ "delete" \in Steps
    BY <1>3, <2>1 DEF Steps
  <2>3. /\ OnlyChanges(c) /\ call'[c].at = "delete"
        /\ call'[c].version = call[c].version /\ call'[c].docs = docs
    BY <1>1, <2>2, TakeEffect
  <2>4. \A d \in docs : IsIndexed(d) /\ index[d].version = call[c].version
    BY <2>1 DEF Mapped
  <2>5. CallGood(c)'
    BY <1>1, <2>3, <2>4
       DEF CallGood, Shaped, Matches, OwnsUnparsed, ReadyStays, Holding, Owning, IsIndexed
  <2>6. QED
    BY <1>1, <2>3, <2>5, CallMoves DEF Owning
<1>4. QED
  BY <1>2, <1>3 DEF ListToDelete

\* The steps that write to the dataset.
LEMMA NewDocumentShape ==
    ASSUME NEW v \in Versions
    PROVE  /\ NewDocument(v) \in IndexedDocument
           /\ NewDocument(v).run = "unstarted" /\ NewDocument(v).version = v
  BY DEF NewDocument, IndexedDocument

LEMMA UploadDocumentStep ==
    ASSUME PublicationInv, DeletionStays, NEW c \in Calls, UploadDocument(c) \/ UploadRepeats(c)
    PROVE  StepFits
<1>1. TypeOK /\ CallGood(c) /\ call[c].at = "upload" /\ call[c].version \in Versions
  BY DEF PublicationInv, UploadDocument, UploadRepeats, CallGood, Shaped
<1>2. PICK d \in Indexed :
         /\ index[d].run = "absent"
         /\ index' = [index EXCEPT ![d] = NewDocument(call[c].version)]
         /\ \/ call' = [call EXCEPT ![c].at = "metadata", ![c].docs = {d}]
            \/ call' = call
  BY DEF UploadDocument, UploadRepeats, FirstFree
<1>3. PICK x \in IndexedDocument : /\ x = NewDocument(call[c].version)
                                   /\ x.run = "unstarted" /\ x.version = call[c].version
  BY <1>1, NewDocumentShape
<1>4. index' = [index EXCEPT ![d] = x] /\ index'[d] = x
  BY <1>1, <1>2, <1>3 DEF TypeOK
<1>5. CASE call' = [call EXCEPT ![c].at = "metadata", ![c].docs = {d}]
  <2>1. "metadata" \in Steps /\ {d} \in SUBSET Indexed
    BY DEF Steps
  <2>2. /\ OnlyChanges(c) /\ call'[c].at = "metadata"
        /\ call'[c].version = call[c].version /\ call'[c].docs = {d}
    BY <1>1, <1>5, <2>1, TakeEffect
  <2>3. CallGood(c)'
    BY <1>1, <1>3, <1>4, <2>2
       DEF CallGood, Shaped, Matches, OwnsUnparsed, ReadyStays, Holding, Owning
  <2>4. QED
    BY <1>2, <1>3, <1>4, <2>2, <2>3, DocumentMoves
<1>6. CASE call' = call
  <2>1. OnlyChanges(c)
    BY <1>1, <1>6 DEF OnlyChanges, TypeOK
  <2>2. \A e \in call[c].docs : e \in Indexed /\ e # d /\ index'[e] = index[e]
    BY <1>1, <1>2, <1>4 DEF TypeOK, Call, CallGood, Matches
  <2>3. CallGood(c)'
    BY <1>1, <1>6, <2>2
       DEF CallGood, Shaped, Matches, OwnsUnparsed, ReadyStays, Holding, Owning
  <2>4. call'[c].at \notin Owning
    BY <1>1, <1>6 DEF Owning
  <2>5. QED
    BY <1>2, <1>3, <1>4, <2>1, <2>3, <2>4, DocumentMoves
<1>7. QED
  BY <1>2, <1>5, <1>6

\* The metadata of the document a request holds, written or lost.
LEMMA MetadataStep ==
    ASSUME PublicationInv, DeletionStays, NEW c \in Calls, NEW m \in BOOLEAN,
           call[c].at = "metadata", index' = [index EXCEPT ![DocumentOf(c)].mapped = m],
           \/ Goto(c, "cleanup")
           \/ Goto(c, "parse") /\ m /\ IsIndexed(DocumentOf(c))
    PROVE  StepFits
<1>1. TypeOK /\ CallGood(c)
  BY DEF PublicationInv
<1>2. PICK d \in Indexed : d = DocumentOf(c) /\ call[c].docs = {d}
  BY <1>1, Held DEF CallGood, Holding
<1>3. index[d] \in IndexedDocument
  BY <1>1 DEF TypeOK
<1>4. index[d].run \in {"unstarted", "deleted"}
      /\ (index[d].run # "deleted" => index[d].version = call[c].version)
  BY <1>1, <1>2 DEF CallGood, OwnsUnparsed, Matches, Owning
<1>5. PICK x : x = [index[d] EXCEPT !.mapped = m]
  OBVIOUS
<1>6. x \in IndexedDocument
  BY <1>3, <1>5 DEF IndexedDocument
<1>7. x.run = index[d].run /\ x.version = index[d].version
  BY <1>3, <1>5 DEF IndexedDocument
<1>8. x.mapped = m
  BY <1>3, <1>5 DEF IndexedDocument
<1>9. index' = [index EXCEPT ![d] = x] /\ index'[d] = x
  BY <1>1, <1>2, <1>5 DEF TypeOK
<1>10. PICK a \in {"cleanup", "parse"} :
          /\ OnlyChanges(c) /\ call'[c].at = a /\ (a = "parse" => m)
          /\ call'[c].version = call[c].version /\ call'[c].docs = call[c].docs
  <2>1. CASE Goto(c, "cleanup")
    BY <1>1, <2>1, GotoEffect DEF Steps
  <2>2. CASE Goto(c, "parse") /\ m
    BY <1>1, <2>2, GotoEffect DEF Steps
  <2>3. QED
    BY <2>1, <2>2
<1>11. CallGood(c)'
  BY <1>1, <1>2, <1>4, <1>7, <1>8, <1>9, <1>10
     DEF CallGood, Shaped, Matches, OwnsUnparsed, ReadyStays, Holding, Owning
<1>12. call[c].at \in Owning /\ d \in call[c].docs
  BY <1>2 DEF Owning
<1>13. /\ x.run \in {"unstarted", "deleted"}
       /\ x.run # "deleted" => index[d].run # "deleted" /\ x.version = index[d].version
  BY <1>4, <1>7
<1>14. x.run # "absent" /\ (x.run \in {"running", "done", "failed"} => x.mapped)
  BY <1>13
<1>15. QED
  BY <1>6, <1>9, <1>10, <1>11, <1>12, <1>13, <1>14, DocumentMoves

LEMMA CleanupStep ==
    ASSUME PublicationInv, DeletionStays, NEW c \in Calls, Cleanup(c)
    PROVE  StepFits
<1>1. TypeOK /\ CallGood(c) /\ call[c].at = "cleanup" /\ End(c)
  BY DEF PublicationInv, Cleanup
<1>2. CASE UNCHANGED index
  BY <1>1, <1>2, EndingStep
<1>3. CASE index' = [index EXCEPT ![DocumentOf(c)] = Gone]
  <2>1. PICK d \in Indexed : d = DocumentOf(c) /\ call[c].docs = {d}
    BY <1>1, Held DEF CallGood, Holding
  <2>2. PICK x \in IndexedDocument : x = Gone /\ x.run = "deleted"
    BY GoneDocument
  <2>3. index' = [index EXCEPT ![d] = x]
    BY <1>3, <2>1, <2>2
  <2>4. OnlyChanges(c) /\ call'[c].at = "ended" /\ call'[c].docs = {}
    BY <1>1, EndEffect
  <2>5. CallGood(c)'
    BY <2>4, EndedGood
  <2>6. call[c].at \in Owning /\ d \in call[c].docs /\ call'[c].at \notin Owning
    BY <1>1, <2>1, <2>4 DEF Owning
  <2>7. QED
    BY <2>2, <2>3, <2>4, <2>5, <2>6, DocumentMoves
<1>4. QED
  BY <1>2, <1>3 DEF Cleanup

LEMMA StartParseStep ==
    ASSUME PublicationInv, DeletionStays, NEW c \in Calls, StartParse(c)
    PROVE  StepFits
<1>1. TypeOK /\ CallGood(c) /\ call[c].at = "parse"
  BY DEF PublicationInv, StartParse
<1>2. CASE End(c) /\ UNCHANGED index
  BY <1>2, EndingStep
<1>3. CASE /\ IsIndexed(DocumentOf(c)) /\ Goto(c, "status")
           /\ index' = [index EXCEPT ![DocumentOf(c)].run = "running"]
  <2>1. PICK d \in Indexed : d = DocumentOf(c) /\ call[c].docs = {d}
    BY <1>1, Held DEF CallGood, Holding
  <2>2. index[d] \in IndexedDocument
    BY <1>1 DEF TypeOK
  <2>3. index[d].run # "deleted"
    BY <1>3, <2>1 DEF IsIndexed
  <2>4. index[d].run = "unstarted" /\ index[d].version = call[c].version
    BY <1>1, <2>1, <2>3 DEF CallGood, OwnsUnparsed, Matches, Owning
  <2>5. index[d].mapped
    BY <1>1, <2>1, <2>4 DEF CallGood, OwnsUnparsed, Owning
  <2>6. PICK x : x = [index[d] EXCEPT !.run = "running"]
    OBVIOUS
  <2>7. x \in IndexedDocument
    BY <2>2, <2>6 DEF IndexedDocument
  <2>8. x.run = "running" /\ x.version = index[d].version
    BY <2>2, <2>6 DEF IndexedDocument
  <2>9. x.mapped = index[d].mapped
    BY <2>2, <2>6 DEF IndexedDocument
  <2>10. index' = [index EXCEPT ![d] = x] /\ index'[d] = x
    BY <1>1, <1>3, <2>1, <2>6 DEF TypeOK
  <2>11. /\ OnlyChanges(c) /\ call'[c].at = "status"
         /\ call'[c].version = call[c].version /\ call'[c].docs = call[c].docs
    BY <1>1, <1>3, GotoEffect DEF Steps
  <2>12. CallGood(c)'
    BY <1>1, <2>1, <2>4, <2>8, <2>10, <2>11
       DEF CallGood, Shaped, Matches, OwnsUnparsed, ReadyStays, Holding, Owning
  <2>13. call[c].at \in Owning /\ d \in call[c].docs /\ call'[c].at \notin Owning
    BY <1>1, <2>1, <2>11 DEF Owning
  <2>14. x.mapped
    BY <2>5, <2>9
  <2>15. QED
    BY <2>3, <2>7, <2>8, <2>10, <2>11, <2>12, <2>13, <2>14, DocumentMoves
<1>4. QED
  BY <1>2, <1>3 DEF StartParse

LEMMA DeleteDocumentsStep ==
    ASSUME PublicationInv, DeletionStays, NEW c \in Calls, DeleteDocuments(c)
    PROVE  StepFits
<1>1. /\ TypeOK /\ OwnedAlone /\ ParsedIsMapped /\ \A b \in Calls : CallGood(b)
      /\ call[c].at = "delete" /\ status' = status
  BY DEF PublicationInv, DeleteDocuments
<1>2. OnlyChanges(c) /\ call'[c].at = "ended" /\ call'[c].docs = {}
  BY <1>1, EndEffect DEF DeleteDocuments
<1>3. \A d \in Indexed : index'[d] = IF d \in call[c].docs THEN Gone ELSE index[d]
  BY DEF DeleteDocuments
<1>4. index' \in [Indexed -> IndexedDocument]
  BY <1>1, GoneDocument DEF DeleteDocuments, TypeOK
<1>5. status[call[c].version] = "DELETE_PENDING" /\ call[c].version \in Versions
  BY <1>1 DEF CallGood, ReadyStays, Shaped
<1>6. \A b \in Calls : call[b].docs \subseteq Indexed
  BY <1>1 DEF TypeOK, Call
<1>7. ASSUME NEW b \in Calls \ {c} PROVE CallGood(b)'
  <2>1. CallGood(b) /\ call'[b] = call[b]
    BY <1>1, <1>2 DEF OnlyChanges
  <2>2. ASSUME NEW d \in call[b].docs
        PROVE  /\ index'[d].run # "absent"
               /\ index'[d].run # "deleted" =>
                     index[d].run # "deleted" /\ index'[d].version = index[d].version
               /\ call[b].at \in Owning =>
                     \/ index'[d].run = "deleted"
                     \/ index'[d].run = "unstarted" /\ index[d].run = "unstarted"
                           /\ (index[d].mapped => index'[d].mapped)
               /\ call[b].at = "complete" /\ index[d].run = "done" =>
                     index'[d].run = "done" \/ status'[call[b].version] = "DELETE_PENDING"
    <3>1. CASE d \in call[c].docs
      <4>1. index'[d].run = "deleted"
        BY <1>3, <1>6, <3>1, GoneDocument
      <4>2. index[d].run = "done" => call[b].version = call[c].version
        BY <1>1, <2>1, <3>1 DEF CallGood, Matches
      <4>3. QED
        BY <1>1, <1>5, <4>1, <4>2
    <3>2. CASE d \notin call[c].docs
      <4>1. index'[d] = index[d]
        BY <1>3, <1>6, <3>2
      <4>2. QED
        BY <2>1, <4>1 DEF CallGood, Matches, OwnsUnparsed
    <3>3. QED
      BY <3>1, <3>2
  <2>3. QED
    BY <2>1, <2>2, OthersGood DEF DeletionStays
<1>8. CallGood(c)'
  BY <1>2, EndedGood
<1>9. OwnedAlone'
  BY <1>1, <1>2 DEF OwnedAlone, OnlyChanges, Owning
<1>10. ParsedIsMapped'
  BY <1>1, <1>3, GoneDocument DEF ParsedIsMapped
<1>11. DoneStays
  <2>1. ASSUME NEW d \in Indexed, index[d].run = "done", d \in call[c].docs
        PROVE  status[index[d].version] = "DELETE_PENDING"
    BY <1>1, <1>5, <2>1 DEF CallGood, Matches
  <2>2. QED
    BY <1>3, <2>1 DEF DoneStays
<1>12. QED
  BY <1>2, <1>4, <1>7, <1>8, <1>9, <1>10, <1>11 DEF StepFits, OnlyChanges

\* The provider's own step.
LEMMA ParseEndsStep ==
    ASSUME PublicationInv, DeletionStays, NEW d0 \in Indexed, ParseEnds(d0)
    PROVE  StepFits
<1>1. /\ TypeOK /\ OwnedAlone /\ ParsedIsMapped /\ \A b \in Calls : CallGood(b)
      /\ index[d0].run = "running" /\ call' = call /\ status' = status
  BY DEF PublicationInv, ParseEnds
<1>2. PICK r \in {"done", "failed"} : index' = [index EXCEPT ![d0].run = r]
  BY DEF ParseEnds
<1>3. index[d0] \in IndexedDocument
  BY <1>1 DEF TypeOK
<1>4. PICK x : x = [index[d0] EXCEPT !.run = r]
  OBVIOUS
<1>5. x \in IndexedDocument
  BY <1>3, <1>4 DEF IndexedDocument
<1>6. x.run = r /\ x.version = index[d0].version
  BY <1>3, <1>4 DEF IndexedDocument
<1>7. x.mapped = index[d0].mapped
  BY <1>3, <1>4 DEF IndexedDocument
<1>8. /\ index' \in [Indexed -> IndexedDocument] /\ index'[d0] = x
      /\ \A d \in Indexed \ {d0} : index'[d] = index[d]
  BY <1>1, <1>2, <1>4, <1>5 DEF TypeOK
<1>9. \A b \in Calls : call[b].docs \subseteq Indexed
  BY <1>1 DEF TypeOK, Call
<1>10. ASSUME NEW b \in Calls PROVE CallGood(b)'
  <2>1. CallGood(b) /\ call'[b] = call[b]
    BY <1>1
  <2>2. ASSUME NEW d \in call[b].docs
        PROVE  /\ index'[d].run # "absent"
               /\ index'[d].run # "deleted" =>
                     index[d].run # "deleted" /\ index'[d].version = index[d].version
               /\ call[b].at \in Owning =>
                     \/ index'[d].run = "deleted"
                     \/ index'[d].run = "unstarted" /\ index[d].run = "unstarted"
                           /\ (index[d].mapped => index'[d].mapped)
               /\ call[b].at = "complete" /\ index[d].run = "done" =>
                     index'[d].run = "done" \/ status'[call[b].version] = "DELETE_PENDING"
    <3>1. CASE d = d0
      <4>1. call[b].at \notin Owning
        BY <1>1, <2>1, <3>1 DEF CallGood, OwnsUnparsed
      <4>2. QED
        BY <1>1, <1>6, <1>8, <3>1, <4>1
    <3>2. CASE d # d0
      <4>1. index'[d] = index[d]
        BY <1>8, <1>9, <3>2
      <4>2. QED
        BY <2>1, <4>1 DEF CallGood, Matches, OwnsUnparsed
    <3>3. QED
      BY <3>1, <3>2
  <2>3. QED
    BY <2>1, <2>2, OthersGood DEF DeletionStays
<1>11. OwnedAlone'
  BY <1>1 DEF OwnedAlone
<1>12. index[d0].mapped
  BY <1>1 DEF ParsedIsMapped
<1>13. ParsedIsMapped'
  BY <1>1, <1>7, <1>8, <1>12 DEF ParsedIsMapped
<1>14. DoneStays
  BY <1>1, <1>8 DEF DoneStays
<1>15. QED
  BY <1>1, <1>8, <1>10, <1>11, <1>13, <1>14 DEF StepFits, TypeOK

\* The requests that touch neither the dataset nor another request.
LEMMA StillStep ==
    ASSUME PublicationInv, DeletionStays, UNCHANGED <<index, call>>
    PROVE  StepFits
<1>1. TypeOK /\ OwnedAlone /\ ParsedIsMapped /\ (\A b \in Calls : CallGood(b))
  BY DEF PublicationInv
<1>2. index' = index /\ call' = call
  OBVIOUS
<1>3. ASSUME NEW b \in Calls PROVE CallGood(b)'
  <2>1. CallGood(b) /\ call'[b] = call[b]
    BY <1>1, <1>2
  <2>2. \A d \in call[b].docs :
           /\ index[d].run # "absent"
           /\ call[b].at \in Owning => index[d].run \in {"unstarted", "deleted"}
    BY <2>1 DEF CallGood, Matches, OwnsUnparsed
  <2>3. QED
    BY <1>2, <2>1, <2>2, OthersGood DEF DeletionStays
<1>4. QED
  BY <1>1, <1>2, <1>3 DEF StepFits, TypeOK, OwnedAlone, ParsedIsMapped, DoneStays

LEMMA NextFits ==
    ASSUME PublicationInv, PublicationNext
    PROVE  StepFits
<1>1. StatusMoves
  BY StatusChange DEF PublicationInv, CallGood
<1>2. DeletionStays
  BY <1>1, StatusFit DEF PublicationInv, DeletionStays
<1>3. ASSUME NEW c \in Calls, CallStep(c) PROVE StepFits
  <2>1. CASE ListDocuments(c)
    BY <1>2, <2>1, ListDocumentsStep
  <2>2. CASE UploadDocument(c) \/ UploadRepeats(c)
    BY <1>2, <2>2, UploadDocumentStep
  <2>3. CASE PutMetadata(c)
    <3>1. /\ call[c].at = "metadata" /\ index' = [index EXCEPT ![DocumentOf(c)].mapped = TRUE]
          /\ Goto(c, "parse") /\ IsIndexed(DocumentOf(c))
      BY <2>3 DEF PutMetadata
    <3>2. QED
      BY <1>2, <3>1, MetadataStep
  <2>4. CASE PutMetadataFails(c)
    <3>1. PICK m \in BOOLEAN : index' = [index EXCEPT ![DocumentOf(c)].mapped = m]
      BY <2>4 DEF PutMetadataFails
    <3>2. call[c].at = "metadata" /\ Goto(c, "cleanup")
      BY <2>4 DEF PutMetadataFails
    <3>3. QED
      BY <1>2, <3>1, <3>2, MetadataStep
  <2>5. CASE Cleanup(c)
    BY <1>2, <2>5, CleanupStep
  <2>6. CASE StartParse(c)
    BY <1>2, <2>6, StartParseStep
  <2>7. CASE ReadStatus(c)
    BY <1>2, <2>7, ReadStatusStep
  <2>8. CASE CompletePublication(c) \/ CallFails(c)
    BY <1>2, <2>8, EndingStep DEF CompletePublication, CallFails
  <2>9. CASE DeleteTransition(c)
    BY <1>2, <2>9, DeleteTransitionStep
  <2>10. CASE ListToDelete(c)
    BY <1>2, <2>10, ListToDeleteStep
  <2>11. CASE DeleteDocuments(c)
    BY <1>2, <2>11, DeleteDocumentsStep
  <2>12. QED
    BY <1>3, <2>1, <2>2, <2>3, <2>4, <2>5, <2>6, <2>7, <2>8, <2>9, <2>10, <2>11 DEF CallStep
<1>4. ASSUME NEW v \in Versions, SubmitReview(v) \/ Approve(v) \/ \E old \in 0..MaxVersions : Upload(v, old)
      PROVE  StepFits
  BY <1>2, <1>4, StillStep DEF SubmitReview, Approve, Transition, Upload
<1>5. QED
  BY <1>2, <1>3, <1>4, StartPublishStep, StartDeleteStep, ParseEndsStep DEF PublicationNext

LEMMA FaultsCounted ==
    ASSUME TypeOK, PublicationNext
    PROVE  faults' \in 0..MaxFaults
<1>1. Fault => faults' \in 0..MaxFaults
  BY PublicationAssumption DEF Fault, TypeOK
<1>2. Fault \/ UNCHANGED faults
  BY DEF PublicationNext, CallStep, ListDocuments, UploadDocument, UploadRepeats, PutMetadata,
         PutMetadataFails, Cleanup, StartParse, ReadStatus, CompletePublication, DeleteTransition,
         ListToDelete, DeleteDocuments, CallFails, SubmitReview, Approve, Transition, Upload,
         StartPublish, StartDelete, ParseEnds
<1>3. QED
  BY <1>1, <1>2 DEF TypeOK

-----------------------------------------------------------------------------
(* The invariant. *)

LEMMA PublicationInitial ==
    PublicationInit => PublicationInv
<1> SUFFICES ASSUME PublicationInit PROVE PublicationInv
  OBVIOUS
<1>1. Unused \in IndexedDocument /\ Unused.run = "absent"
  BY DEF Unused, IndexedDocument
<1>2. Fresh \in Call /\ Fresh.at = "idle" /\ Fresh.docs = {}
  BY DEF Fresh, Call, Steps
<1>3. TypeOK
  BY <1>1, <1>2, PublicationAssumption DEF TypeOK, PublicationInit
<1>4. \A c \in Calls : call[c].at = "idle" /\ call[c].docs = {}
  BY <1>2 DEF PublicationInit
<1>5. \A d \in Indexed : index[d].run = "absent"
  BY <1>1 DEF PublicationInit
<1>6. \A c \in Calls : CallGood(c)
  BY <1>4 DEF CallGood, Shaped, Matches, OwnsUnparsed, ReadyStays, Holding, Owning
<1>7. OwnedAlone /\ ParsedIsMapped
  BY <1>4, <1>5 DEF OwnedAlone, ParsedIsMapped, Owning
<1>8. PublishedIsIndexed
  BY DEF PublishedIsIndexed, PublicationInit
<1>9. QED
  BY <1>3, <1>6, <1>7, <1>8 DEF PublicationInv

LEMMA PublicationStep ==
    PublicationInv /\ [PublicationNext]_publicationVars => PublicationInv'
<1> SUFFICES ASSUME PublicationInv, [PublicationNext]_publicationVars PROVE PublicationInv'
  OBVIOUS
<1>1. CASE PublicationNext
  <2>1. StepFits /\ StatusMoves /\ faults' \in 0..MaxFaults
    BY <1>1, NextFits, StatusChange, FaultsCounted DEF PublicationInv, CallGood
  <2>2. PublishedIsIndexed'
    BY <2>1, PublishedStep DEF StepFits
  <2>3. TypeOK'
    BY <2>1, StatusFit DEF TypeOK, StepFits, PublicationInv
  <2>4. QED
    BY <2>1, <2>2, <2>3 DEF PublicationInv, StepFits
<1>2. CASE UNCHANGED publicationVars
  BY <1>2 DEF publicationVars, PublicationInv, TypeOK, CallGood, Shaped, Matches, OwnsUnparsed,
     ReadyStays, OwnedAlone, ParsedIsMapped, PublishedIsIndexed, Mapped, IsIndexed
<1>3. QED
  BY <1>1, <1>2

LEMMA PublicationInvariant ==
    PublicationSpec => []PublicationInv
  BY PublicationInitial, PublicationStep, PTL DEF PublicationSpec

\* Versions, provider documents and requests keep their types, and the
\* provider fails no more often than it may.
THEOREM PublicationTypeCorrect == PublicationSpec => []TypeOK
<1>1. PublicationInv => TypeOK
  BY DEF PublicationInv
<1>2. QED
  BY <1>1, PublicationInvariant, PTL

\* A PUBLISHED version always has a parsed document with its metadata in the
\* dataset, whatever publications, deletions and failures of the provider
\* interleave with it.
THEOREM PublicationIndexed == PublicationSpec => []PublishedIsIndexed
<1>1. PublicationInv => PublishedIsIndexed
  BY DEF PublicationInv
<1>2. QED
  BY <1>1, PublicationInvariant, PTL

-----------------------------------------------------------------------------
(* The official version. *)

\* A publication replaces the version it names and leaves the others alone.
LEMMA CompletionEffect ==
    ASSUME TypeOK, NEW v \in Versions, Completes(v), status' = Switched(v)
    PROVE  /\ status[v] = "APPROVED" /\ status'[v] = "PUBLISHED"
           /\ supersedes[v] # 0 => /\ supersedes[v] \in Versions /\ supersedes[v] # v
                                   /\ status[supersedes[v]] = "PUBLISHED"
                                   /\ status'[supersedes[v]] = "SUPERSEDED"
           /\ \A u \in Versions : u # v /\ u # supersedes[v] => status'[u] = status[u]
<1>1. status[v] = "APPROVED" /\ (supersedes[v] # 0 => status[supersedes[v]] = "PUBLISHED")
  BY DEF Completes
<1>2. supersedes[v] # 0 => supersedes[v] \in Versions /\ supersedes[v] # v
  BY <1>1 DEF TypeOK
<1>3. \A u \in Versions :
         status'[u] = IF u = v THEN "PUBLISHED"
                      ELSE IF u = supersedes[v] THEN "SUPERSEDED" ELSE status[u]
  BY DEF Switched
<1>4. QED
  BY <1>1, <1>2, <1>3

\* An uploaded version is a draft that nothing names yet: what is official in a line
\* that it joins was so in the line without it.
LEMMA UploadKeepsFirst ==
    ASSUME TypeOK, FirstIsPast, NEW v \in Versions, NEW old \in {0} \cup Versions, old # v,
           status[v] = "ABSENT", old # 0 => status[old] # "ABSENT",
           status' = [status EXCEPT ![v] = "DRAFT"],
           supersedes' = [supersedes EXCEPT ![v] = old]
    PROVE  FirstIsPast'
<1>1. \A u \in Versions : /\ u # v => status'[u] = status[u] /\ supersedes'[u] = supersedes[u]
                          /\ u = v => status'[u] = "DRAFT" /\ supersedes'[u] = old
  BY DEF TypeOK
<1>2. \A u \in Versions : supersedes[u] # v
  BY DEF FirstIsPast, NamesUploaded, Versions
<1>3. supersedes[v] = 0
  BY DEF FirstIsPast, NamesUploaded
<1>4. 0 \notin Versions /\ \A u \in Versions : supersedes[u] \in {0} \cup Versions
  BY DEF TypeOK, Versions
<1>5. NamesUploaded'
  <2>1. SUFFICES ASSUME NEW u \in Versions, supersedes'[u] # 0
                 PROVE  status'[u] # "ABSENT" /\ status'[supersedes'[u]] # "ABSENT"
    BY DEF NamesUploaded
  <2>2. CASE u = v
    BY <1>1, <2>1, <2>2
  <2>3. CASE u # v
    <3>1. /\ supersedes'[u] = supersedes[u] /\ status'[u] = status[u]
          /\ supersedes[u] \in Versions /\ supersedes[u] # v
      BY <1>1, <1>2, <1>4, <2>1, <2>3
    <3>2. status[u] # "ABSENT" /\ status[supersedes[u]] # "ABSENT"
      BY <2>1, <3>1 DEF FirstIsPast, NamesUploaded
    <3>3. QED
      BY <1>1, <3>1, <3>2
  <2>4. QED
    BY <2>2, <2>3
<1>6. ASSUME NEW first \in Versions, NEW S \in SUBSET Versions, Line(first, S)'
      PROVE  OneOf(first, S)'
  <2>1. /\ first \in S /\ supersedes'[first] = 0
        /\ \A u \in S \ {first} : supersedes'[u] \in S
    BY <1>6 DEF Line
  <2>2. PICK T \in SUBSET Versions : T = {u \in S : u # v \/ u = first}
    OBVIOUS
  <2>3. Line(first, T)
    <3>1. supersedes[first] = 0
      BY <1>1, <1>3, <2>1
    <3>2. ASSUME NEW u \in T \ {first} PROVE supersedes[u] \in T
      <4>1. u \in Versions /\ u # v /\ supersedes'[u] = supersedes[u]
        BY <1>1, <2>2, <3>2
      <4>2. supersedes[u] \in S /\ supersedes[u] # v
        BY <1>2, <2>1, <2>2, <3>2, <4>1
      <4>3. QED
        BY <2>2, <4>2
    <3>3. QED
      BY <2>1, <2>2, <3>1, <3>2 DEF Line
  <2>4. OneOf(first, T)
    BY <2>3 DEF FirstIsPast
  <2>5. \A u \in S : status'[u] = "PUBLISHED" => u \in T /\ u # v /\ status[u] = "PUBLISHED"
    BY <1>1, <2>2
  <2>6. \A u \in S : status'[u] = "PUBLISHED" /\ u # first => status'[first] \notin Unpublished
    <3>1. SUFFICES ASSUME NEW u \in S, status'[u] = "PUBLISHED", u # first
                   PROVE  status'[first] \notin Unpublished
      OBVIOUS
    <3>2. status[first] \notin Unpublished
      BY <2>4, <2>5, <3>1 DEF OneOf
    <3>3. first # v
      BY <3>2 DEF Unpublished
    <3>4. QED
      BY <1>1, <3>2, <3>3
  <2>7. \A u, w \in S : status'[u] = "PUBLISHED" /\ status'[w] = "PUBLISHED" => u = w
    BY <2>4, <2>5 DEF OneOf
  <2>8. QED
    BY <2>6, <2>7 DEF OneOf
<1>7. QED
  BY <1>5, <1>6 DEF FirstIsPast

\* A step on one version that does not publish it.
LEMMA OtherStatusKeepsFirst ==
    ASSUME TypeOK, FirstIsPast, NEW v \in Versions, NEW s \in LifecycleStates,
           supersedes' = supersedes, status' = [status EXCEPT ![v] = s], status[v] # "ABSENT",
           s # "PUBLISHED", s \in Unpublished => status[v] \in Unpublished
    PROVE  FirstIsPast'
<1>1. \A u \in Versions : (u # v => status'[u] = status[u]) /\ (u = v => status'[u] = s)
  BY DEF TypeOK
<1>2. \A u \in Versions : status'[u] = "PUBLISHED" => status[u] = "PUBLISHED"
  BY <1>1
<1>3. \A u \in Versions : status[u] # "ABSENT" => status'[u] # "ABSENT"
  BY <1>1 DEF LifecycleStates
<1>4. NamesUploaded'
  <2>1. \A u \in Versions : supersedes[u] # 0 => supersedes[u] \in Versions
    BY DEF TypeOK
  <2>2. QED
    BY <1>3, <2>1 DEF FirstIsPast, NamesUploaded
<1>5. ASSUME NEW first \in Versions, NEW S \in SUBSET Versions, Line(first, S)'
      PROVE  OneOf(first, S)'
  <2>1. Line(first, S)
    BY <1>5 DEF Line
  <2>2. OneOf(first, S)
    BY <2>1 DEF FirstIsPast
  <2>3. status[first] \notin Unpublished => status'[first] \notin Unpublished
    BY <1>1
  <2>4. QED
    BY <1>2, <2>2, <2>3 DEF OneOf
<1>6. QED
  BY <1>4, <1>5 DEF FirstIsPast

\* A publication: the version it replaces was the official one of their line, and a
\* version that replaces none is the first of its line.
LEMMA CompletionKeepsFirst ==
    ASSUME TypeOK, FirstIsPast, NEW v \in Versions, Completes(v), status' = Switched(v),
           supersedes' = supersedes
    PROVE  FirstIsPast'
<1>1. PICK w : w = supersedes[v]
  OBVIOUS
<1>2. /\ status[v] = "APPROVED" /\ status'[v] = "PUBLISHED"
      /\ w # 0 => /\ w \in Versions /\ w # v
                  /\ status[w] = "PUBLISHED" /\ status'[w] = "SUPERSEDED"
      /\ \A u \in Versions : u # v /\ u # w => status'[u] = status[u]
  BY <1>1, CompletionEffect
<1>3. 0 \notin Versions /\ \A u \in Versions : supersedes[u] # 0 => supersedes[u] \in Versions
  BY DEF TypeOK, Versions
<1>4. \A u \in Versions : status[u] # "ABSENT" => status'[u] # "ABSENT"
  BY <1>2, <1>3
<1>5. NamesUploaded'
  BY <1>3, <1>4 DEF FirstIsPast, NamesUploaded
<1>6. ASSUME NEW first \in Versions, NEW S \in SUBSET Versions, Line(first, S)'
      PROVE  OneOf(first, S)'
  <2>1. Line(first, S) /\ first \in S /\ supersedes[first] = 0
        /\ \A u \in S \ {first} : supersedes[u] \in S
    BY <1>6 DEF Line
  <2>2. OneOf(first, S)
    BY <2>1 DEF FirstIsPast
  <2>3. first # v /\ status[first] \notin Unpublished => status'[first] \notin Unpublished
    <3>1. CASE first = w
      BY <1>2, <1>3, <3>1 DEF Unpublished
    <3>2. CASE first # w
      BY <1>2, <3>2
    <3>3. QED
      BY <3>1, <3>2
  <2>4. CASE v \notin S
    <3>1. \A u \in S : status'[u] = "PUBLISHED" => status[u] = "PUBLISHED"
      BY <1>2, <1>3, <2>4
    <3>2. QED
      BY <2>1, <2>2, <2>3, <2>4, <3>1 DEF OneOf
  <2>5. CASE v = first
    <3>1. \A u \in S : status[u] # "PUBLISHED"
      BY <1>2, <2>2, <2>5 DEF OneOf, Unpublished
    <3>2. \A u \in S : status'[u] = "PUBLISHED" => u = v
      BY <1>2, <1>3, <3>1
    <3>3. QED
      BY <2>5, <3>2 DEF OneOf
  <2>6. CASE v \in S /\ v # first
    <3>1. w \in S /\ w \in Versions /\ w # v /\ status[w] = "PUBLISHED" /\ status'[w] = "SUPERSEDED"
      BY <1>1, <1>2, <1>3, <2>1, <2>6
    <3>2. \A u \in S : status[u] = "PUBLISHED" => u = w
      BY <2>2, <3>1 DEF OneOf
    <3>3. \A u \in S : status'[u] = "PUBLISHED" => u = v
      BY <1>2, <3>1, <3>2
    <3>4. status'[first] \notin Unpublished
      <4>1. CASE first = w
        BY <3>1, <4>1 DEF Unpublished
      <4>2. CASE first # w
        BY <2>2, <2>3, <2>6, <3>1, <4>2 DEF OneOf
      <4>3. QED
        BY <4>1, <4>2
    <3>5. QED
      BY <3>3, <3>4 DEF OneOf
  <2>7. QED
    BY <2>4, <2>5, <2>6
<1>7. QED
  BY <1>5, <1>6 DEF FirstIsPast

LEMMA FirstIsPastStep ==
    ASSUME TypeOK, FirstIsPast, StatusMoves
    PROVE  FirstIsPast'
<1>1. CASE UNCHANGED <<status, supersedes>>
  BY <1>1 DEF FirstIsPast, NamesUploaded, Line, OneOf
<1>2. CASE \E v \in Versions, old \in 0..MaxVersions : Upload(v, old)
  <2>1. PICK v \in Versions, old \in 0..MaxVersions : Upload(v, old)
    BY <1>2
  <2>2. /\ status[v] = "ABSENT"
        /\ status' = [status EXCEPT ![v] = "DRAFT"]
        /\ supersedes' = [supersedes EXCEPT ![v] = old]
    BY <2>1 DEF Upload
  <2>3. old \in {0} \cup Versions /\ old # v /\ (old # 0 => status[old] # "ABSENT")
    BY <2>1, PublicationAssumption DEF Upload, Versions
  <2>4. QED
    BY <2>2, <2>3, UploadKeepsFirst
<1>3. CASE \E v \in Versions : SubmitReview(v) \/ Approve(v)
  <2>1. PICK v \in Versions : SubmitReview(v) \/ Approve(v)
    BY <1>3
  <2>2. CASE SubmitReview(v)
    <3>1. /\ status[v] = "DRAFT" /\ supersedes' = supersedes
          /\ status' = [status EXCEPT ![v] = "UNDER_REVIEW"]
      BY <2>2 DEF SubmitReview, Transition, MayTransition
    <3>2. QED
      BY <3>1, OtherStatusKeepsFirst DEF Unpublished, LifecycleStates
  <2>3. CASE Approve(v)
    <3>1. /\ status[v] = "UNDER_REVIEW" /\ supersedes' = supersedes
          /\ status' = [status EXCEPT ![v] = "APPROVED"]
      BY <2>3 DEF Approve, Transition, MayTransition
    <3>2. QED
      BY <3>1, OtherStatusKeepsFirst DEF Unpublished, LifecycleStates
  <2>4. QED
    BY <2>1, <2>2, <2>3
<1>4. CASE /\ UNCHANGED supersedes
           /\ \E v \in Versions : /\ status[v] \notin {"ABSENT", "DELETE_PENDING", "DELETED"}
                                  /\ status' = [status EXCEPT ![v] = "DELETE_PENDING"]
  BY <1>4, OtherStatusKeepsFirst DEF Unpublished, LifecycleStates
<1>5. CASE /\ UNCHANGED supersedes
           /\ \E c \in Calls : /\ call[c].at = "complete" /\ Completes(call[c].version)
                               /\ call[c].version \in Versions
                               /\ status' = Switched(call[c].version)
  BY <1>5, CompletionKeepsFirst
<1>6. QED
  BY <1>1, <1>2, <1>3, <1>4, <1>5 DEF StatusMoves

\* Among the versions of a document that replace one another at most one is official,
\* however the publications of rivals and successors interleave with each other and with
\* deletions, and whether or not uploads name what they replace.
THEOREM PublicationOneCurrentPerLine == PublicationSpec => []OneCurrentPerLine
<1>1. PublicationInit => FirstIsPast
  BY DEF PublicationInit, FirstIsPast, NamesUploaded, OneOf
<1>2. PublicationInv /\ FirstIsPast /\ [PublicationNext]_publicationVars => FirstIsPast'
  <2>1. ASSUME PublicationInv, FirstIsPast, PublicationNext PROVE FirstIsPast'
    BY <2>1, StatusChange, FirstIsPastStep DEF PublicationInv, CallGood
  <2>2. ASSUME FirstIsPast, UNCHANGED publicationVars PROVE FirstIsPast'
    BY <2>2 DEF FirstIsPast, NamesUploaded, Line, OneOf, publicationVars
  <2>3. QED
    BY <2>1, <2>2
<1>3. FirstIsPast => OneCurrentPerLine
  BY DEF FirstIsPast, OneOf, OneCurrentPerLine
<1>4. QED
  BY <1>1, <1>2, <1>3, PublicationInvariant, PTL DEF PublicationSpec

\* A published version stops being published only by its deletion or in the
\* step that publishes the version replacing it, so readers never see a gap.
THEOREM PublicationHandsOver == PublicationSpec => AuthorityIsHandedOver
<1> DEFINE HandedOver ==
       \A v \in Versions : status[v] = "PUBLISHED" /\ status'[v] # "PUBLISHED" =>
          \/ status'[v] = "DELETE_PENDING"
          \/ /\ status'[v] = "SUPERSEDED"
             /\ \E u \in Versions : /\ supersedes[u] = v
                                    /\ status[u] = "APPROVED"
                                    /\ status'[u] = "PUBLISHED"
<1>1. ASSUME TypeOK, StatusMoves PROVE HandedOver
  <2>1. CASE UNCHANGED <<status, supersedes>>
    BY <2>1
  <2>2. CASE \E v \in Versions, old \in 0..MaxVersions : Upload(v, old)
    BY <1>1, <2>2 DEF Upload, TypeOK
  <2>3. CASE \E v \in Versions : SubmitReview(v) \/ Approve(v)
    BY <1>1, <2>3 DEF SubmitReview, Approve, Transition, MayTransition, TypeOK
  <2>4. CASE /\ UNCHANGED supersedes
             /\ \E v \in Versions : /\ status[v] \notin {"ABSENT", "DELETE_PENDING", "DELETED"}
                                    /\ status' = [status EXCEPT ![v] = "DELETE_PENDING"]
    BY <1>1, <2>4 DEF TypeOK
  <2>5. CASE /\ UNCHANGED supersedes
             /\ \E c \in Calls : /\ call[c].at = "complete" /\ Completes(call[c].version)
                                 /\ call[c].version \in Versions
                                 /\ status' = Switched(call[c].version)
    <3>1. PICK v \in Versions : Completes(v) /\ status' = Switched(v)
      BY <2>5
    <3>2. /\ status[v] = "APPROVED" /\ status'[v] = "PUBLISHED"
          /\ supersedes[v] # 0 => /\ supersedes[v] \in Versions /\ supersedes[v] # v
                                  /\ status[supersedes[v]] = "PUBLISHED"
                                  /\ status'[supersedes[v]] = "SUPERSEDED"
          /\ \A u \in Versions : u # v /\ u # supersedes[v] => status'[u] = status[u]
      BY <1>1, <3>1, CompletionEffect
    <3>3. ASSUME NEW u \in Versions, status[u] = "PUBLISHED", status'[u] # "PUBLISHED"
          PROVE  u = supersedes[v] /\ status'[u] = "SUPERSEDED"
      <4>1. u # v /\ u = supersedes[v]
        BY <3>2, <3>3
      <4>2. u # 0
        BY PublicationAssumption DEF Versions
      <4>3. QED
        BY <3>2, <4>1, <4>2
    <3>4. QED
      BY <3>2, <3>3
  <2>6. QED
    BY <1>1, <2>1, <2>2, <2>3, <2>4, <2>5 DEF StatusMoves
<1>2. PublicationInv /\ [PublicationNext]_publicationVars => [HandedOver]_publicationVars
  <2>1. ASSUME PublicationInv, PublicationNext PROVE HandedOver
    BY <1>1, <2>1, StatusChange DEF PublicationInv, CallGood
  <2>2. QED
    BY <2>1
<1>3. QED
  BY <1>2, PublicationInvariant, PTL DEF PublicationSpec, AuthorityIsHandedOver
=============================================================================
