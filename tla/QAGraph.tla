------------------------------ MODULE QAGraph ------------------------------
(***************************************************************************)
(* One QA run: the executions of its job (runtime/qa.py), each of which    *)
(* invokes the graph of agent/graph.py on the thread's checkpoint, with    *)
(* one action per node, and writes its rows in one session that commits    *)
(* when the graph has ended.  Documents are published and withdrawn and    *)
(* the membership may end meanwhile.                                       *)
(*                                                                         *)
(* The checkpoint keeps the counters retrieval_round and revision_count of *)
(* AgentState from one execution to the next: execute starts the graph     *)
(* with an input that does not mention them.  All the references of        *)
(* AgentState are written again before they are read.                      *)
(***************************************************************************)
EXTENDS EvidenceGovernance

CONSTANTS
    MaxExecutions,    \* max_attempts of the EXECUTE_AGENT_RUN job
    MaxChanges,       \* bound: changes of documents and memberships
    Catalogs,         \* the values of facts that are explored
    Inherited         \* the counters that the earlier runs of the thread may have left

Counters == [round : 0..2, revision : 0..1]

ASSUME QAAssumption ==
    /\ MaxExecutions \in Nat \ {0}
    /\ MaxChanges \in Nat
    /\ Catalogs \subseteq [Chunks -> Fact]
    /\ Inherited \subseteq Counters

VARIABLES
    facts,        \* what is known of each chunk
    published,    \* the chunks whose version is PUBLISHED, current and effective; one that
                  \* is only PUBLISHED is dropped like one withdrawn since it was retrieved
    member,       \* has the user an active membership of the project?
    changes,      \* against MaxChanges
    query,        \* the project the query names and the versions its identifier is registered for
    execution,    \* how often the job was executed
    at,           \* the node that runs next
    state,        \* AgentState and the artifacts it refers to
    saved,        \* the counters of AgentState in the checkpoint of the thread
    session,      \* the rows of the run as the open session sees them
    db,           \* the rows of the run that are committed
    outcome       \* agent_runs.status as persist_outcome leaves it

worldVars == <<facts, published, member, changes, query>>
qaVars == <<worldVars, execution, at, state, saved, session, db, outcome>>

Reasons == {"none", "PROJECT_ACCESS_DENIED", "NO_AUTHORIZED_EVIDENCE", "RETRIEVAL_ROUND_LIMIT",
            "INSUFFICIENT_EVIDENCE", "NO_GOVERNED_EVIDENCE", "CITATION_GUARD_FAILED",
            "PROJECT_MISMATCH", "PROJECT_CLARIFICATION_REQUIRED", "CITATION_GUARD_RETRY"}
Nodes == {"load_prompt", "analyze_query", "select_project", "resolve_scope",
          "resolve_identifiers", "retrieve", "grade_retrieval", "govern_evidence",
          "generate_answer", "citation_guard", "revise_answer", "refuse", "clarify_project"}

\* Between two executions.  idle: the row of the job is due, or done with.
\* unreported: the handler raised where nothing looks whether it was the last attempt.
\* dead: the worker died and left the row RUNNING.
Resting == {"idle", "unreported", "dead"}

\* bundle: the retrieved chunks.  current: those that governance found PUBLISHED
\* and current.  pack: the governed bundle.
State == [round : 0..2, revision : 0..1, error : Reasons,
          route : {"none", "answered", "refusal", "clarification"},
          scope : SUBSET Chunks, plan : SUBSET Chunks, bundle : SUBSET Chunks,
          current : SUBSET Chunks, pack : SUBSET Chunks, draft : Draft \cup {NoDraft}]

\* answers, citations and agent_runs.retrieval_rounds.
Rows == [answer : {"none", "grounded", "refusal", "clarification"}, reason : Reasons,
         citations : SUBSET Chunks, rounds : Nat]
NoRows == [answer |-> "none", reason |-> "none", citations |-> {}, rounds |-> 0]

TypeOK ==
    /\ facts \in Catalogs
    /\ published \subseteq Chunks
    /\ member \in BOOLEAN
    /\ changes \in 0..MaxChanges
    /\ query \in [project : {"this", "another"}, hits : SUBSET Chunks]
    /\ execution \in 0..MaxExecutions
    /\ at \in Nodes \cup Resting \cup {"end", "persist", "raised"}
    /\ state \in State
    /\ saved \in Counters
    /\ session \in Rows
    /\ db \in Rows
    /\ outcome \in {"RUNNING", "SUCCEEDED", "REFUSED", "FAILED"}

\* The state of a new execution over the counters it finds.
Started(counters) ==
    [round |-> counters.round, revision |-> counters.revision, error |-> "none",
     route |-> "none", scope |-> {}, plan |-> {}, bundle |-> {}, current |-> {}, pack |-> {}, draft |-> NoDraft]

QAInit ==
    /\ facts \in Catalogs
    /\ published \in {{}, Chunks}
    /\ member = TRUE
    /\ changes = 0
    /\ query \in [project : {"this", "another"}, hits : {{}, {1}}]
    /\ execution = 0
    /\ at = "idle"
    /\ saved \in Inherited
    /\ state = Started(saved)
    /\ session = NoRows
    /\ db = NoRows
    /\ outcome = "RUNNING"

-----------------------------------------------------------------------------
(* The world around the run. *)

\* A version is published, superseded or deleted.
ChangeDocument(c) ==
    /\ changes < MaxChanges
    /\ changes' = changes + 1
    /\ published' = IF c \in published THEN published \ {c} ELSE published \cup {c}
    /\ UNCHANGED <<facts, member, query, execution, at, state, saved, session, db, outcome>>

EndMembership ==
    /\ changes < MaxChanges
    /\ member
    /\ changes' = changes + 1
    /\ member' = FALSE
    /\ UNCHANGED <<facts, published, query, execution, at, state, saved, session, db, outcome>>

-----------------------------------------------------------------------------
(* runtime/qa.py and workers/run_graph.py *)

\* execute: a session is opened, the user authorized, and the graph started at
\* START.  Its input overwrites neither counter.
FromCheckpoint(counters) == Started(counters)
MayExecute == at \in Resting /\ outcome = "RUNNING" /\ execution < MaxExecutions
Execute ==
    /\ MayExecute
    /\ member
    /\ execution' = execution + 1
    /\ at' = "load_prompt"
    /\ state' = FromCheckpoint(saved)
    /\ session' = db
    /\ UNCHANGED <<worldVars, saved, db, outcome>>

\* AuthorizationDenied before the graph has started.
ExecuteDenied ==
    /\ MayExecute
    /\ ~member
    /\ execution' = execution + 1
    /\ at' = "raised"
    /\ UNCHANGED <<worldVars, state, saved, session, db, outcome>>

\* The transaction of prepare_execute raises, or the worker dies in it.
PrepareFails ==
    /\ MayExecute
    /\ execution' = execution + 1
    /\ at' \in {"unreported", "dead"}
    /\ UNCHANGED <<worldVars, state, saved, session, db, outcome>>

\* The session is rolled back; the checkpoint, which is written on its own connection
\* in the background, keeps the counters of any node of this execution.
Interrupted(next) ==
    /\ at' = next
    /\ \E r \in saved.round..state.round, v \in saved.revision..state.revision :
          /\ v > saved.revision => r = state.round
          /\ saved' = [round |-> r, revision |-> v]
    /\ state' = Started(saved')
    /\ session' = db
    /\ UNCHANGED <<worldVars, execution, db, outcome>>

\* A node, or the commit, raises out of graph.execute.
Fail == at \notin Resting \cup {"persist", "raised"} /\ Interrupted("raised")
Die == at \notin Resting /\ Interrupted("dead")

\* The graph has ended and its checkpoint is written; the session commits.
Commit ==
    /\ at = "end"
    /\ at' = "persist"
    /\ saved' = [round |-> state.round, revision |-> state.revision]
    /\ db' = session
    /\ UNCHANGED <<worldVars, execution, state, session, outcome>>

\* _project and persist_outcome: the route "refusal" becomes REFUSED, "answered"
\* and "clarification" become SUCCEEDED.
PersistOutcome ==
    /\ at = "persist"
    /\ at' = "idle"
    /\ outcome' = IF state.route = "refusal" THEN "REFUSED" ELSE "SUCCEEDED"
    /\ state' = Started(saved)
    /\ UNCHANGED <<worldVars, execution, saved, session, db>>

\* persist_outcome fails: the job is tried again, if it may, after everything was
\* committed.
PersistFails ==
    /\ at = "persist"
    /\ at' = "unreported"
    /\ state' = Started(saved)
    /\ UNCHANGED <<worldVars, execution, saved, session, db, outcome>>

\* _handle_failure: mark_final_failure if this was the last attempt.  Its transaction
\* may fail too.
HandleFailure ==
    /\ at = "raised"
    /\ \/ /\ at' = "idle"
          /\ outcome' = IF execution = MaxExecutions THEN "FAILED" ELSE outcome
       \/ /\ execution = MaxExecutions
          /\ at' = "unreported"
          /\ UNCHANGED outcome
    /\ UNCHANGED <<worldVars, execution, state, saved, session, db>>

-----------------------------------------------------------------------------
(* The nodes. *)

\* A node that leaves the session's rows alone, but for artifacts.
Node(n, next, newState) ==
    /\ at = n
    /\ at' = next
    /\ state' = newState
    /\ UNCHANGED <<worldVars, execution, saved, session, db, outcome>>

\* last_error_code
WithError(reason) == [state EXCEPT !.error = reason]

load_prompt == Node("load_prompt", "analyze_query", state)
analyze_query == Node("analyze_query", "select_project", state)

\* The run names its project: a membership that has ended is a refusal, a query
\* about another project a clarification.
select_project ==
    \/ ~member /\ Node("select_project", "refuse", WithError("PROJECT_ACCESS_DENIED"))
    \/ /\ member /\ query.project = "another"
       /\ Node("select_project", "clarify_project", WithError("PROJECT_MISMATCH"))
    \/ member /\ query.project = "this" /\ Node("select_project", "resolve_scope", state)

\* list_published_document_access
AuthorizedVersions == published

\* authorize_identity reads the membership and the published versions; without a
\* membership it raises.
resolve_scope ==
    /\ member
    /\ Node("resolve_scope", "resolve_identifiers", [state EXCEPT !.scope = AuthorizedVersions])

\* A unique authorized hit of the identifier constrains the retrieval.
Constrained == IF Cardinality(query.hits \cap state.scope) = 1 THEN query.hits \cap state.scope
               ELSE {}
resolve_identifiers ==
    Node("resolve_identifiers", "retrieve", [state EXCEPT !.plan = Constrained])

\* constrain_retrieval; {} stands for None.
Requested == IF state.plan = {} THEN state.scope ELSE state.scope \cap state.plan

\* Whatever the provider finds, the adapter keeps the versions that were asked for
\* and postfilter_evidence those of the scope.
Provided(found) == found \cap Requested
Postfiltered(chunks) == chunks \cap state.scope
\* The bundle is kept in the session under the id that the state refers to.
save_evidence_bundle(s, chunks) == [s EXCEPT !.bundle = chunks]
increment_retrieval_rounds == [session EXCEPT !.rounds = @ + 1]
AtLimit == state.round >= 2
retrieve ==
    \/ AtLimit /\ Node("retrieve", "refuse", WithError("RETRIEVAL_ROUND_LIMIT"))
    \/ /\ ~AtLimit
       /\ Requested = {}
       /\ Node("retrieve", "refuse", save_evidence_bundle(WithError("NO_AUTHORIZED_EVIDENCE"), {}))
    \/ /\ at = "retrieve"
       /\ ~AtLimit
       /\ Requested # {}
       /\ \E found \in SUBSET Chunks :
             state' = save_evidence_bundle([state EXCEPT !.round = @ + 1, !.error = "none"],
                                           Postfiltered(Provided(found)))
       /\ session' = increment_retrieval_rounds
       /\ at' = "grade_retrieval"
       /\ UNCHANGED <<worldVars, execution, saved, db, outcome>>

\* The model's grade, in the shapes RetrievalGrade admits.
Grades == {"adequate", "refine", "inadequate"}
grade_retrieval ==
    \E grade \in Grades :
        \/ grade = "adequate" /\ Node("grade_retrieval", "govern_evidence", state)
        \/ grade = "refine" /\ state.round < 2 /\ Node("grade_retrieval", "retrieve", state)
        \/ /\ grade = "inadequate" \/ (grade = "refine" /\ state.round >= 2)
           /\ Node("grade_retrieval", "refuse", WithError("INSUFFICIENT_EVIDENCE"))

\* pack reads the versions again: what is no longer current is dropped.
StillCurrent(chunks) == chunks \cap published
govern_evidence ==
    LET current == StillCurrent(state.bundle)
        pack == Pack(facts, current)
    IN  \/ pack = {} /\ Node("govern_evidence", "refuse", WithError("NO_GOVERNED_EVIDENCE"))
        \/ /\ pack # {}
           /\ Node("govern_evidence", "generate_answer",
                   [state EXCEPT !.current = current, !.pack = pack])

generate_answer ==
    \E d \in Draft : Node("generate_answer", "citation_guard", [state EXCEPT !.draft = d])

\* save_grounded_answer: one answer per run, whose citations are replaced.
FirstRetrieved(l) ==    \* mutant
    CHOOSE c \in state.bundle : Cardinality({d \in state.bundle : d < c}) = l - 1
Cited(l) == AtLabel(facts, state.pack, l)
\* load_governed_evidence_bundle: the frozen items that are marked unresolved.
FrozenConflicts == state.pack \cap Unresolved(facts, state.current)
GuardAccepts == Accepts(facts, state.pack, state.current, FrozenConflicts, state.draft)
citation_guard ==
    \/ /\ at = "citation_guard"
       /\ GuardAccepts
       /\ session' = [session EXCEPT
             !.answer = "grounded", !.reason = "none",
             !.citations = {Cited(l) : l \in state.draft.cited \cup state.draft.disclosed}]
       /\ at' = "end"
       /\ state' = [state EXCEPT !.draft = NoDraft, !.route = "answered"]
       /\ UNCHANGED <<worldVars, execution, saved, db, outcome>>
    \/ /\ at = "citation_guard"
       /\ ~GuardAccepts
       /\ IF state.revision < 1
          THEN Node("citation_guard", "revise_answer",
                    [WithError("CITATION_GUARD_RETRY") EXCEPT !.draft = NoDraft])
          ELSE Node("citation_guard", "refuse",
                    [WithError("CITATION_GUARD_FAILED") EXCEPT !.draft = NoDraft])

\* The node's own check of revision_count never fires: the guard sends it no
\* second draft to revise.
Recounted == state.revision    \* mutant
RevisionNo == state.revision + 1
revise_answer ==
    \E d \in Draft :
        Node("revise_answer", "citation_guard",
             [state EXCEPT !.draft = d, !.revision = RevisionNo, !.error = "none"])

\* save_answer overwrites the answer of the run; the citations of an earlier
\* answer stay.
KeptIfThere(kind, reason) ==    \* mutant
    IF session.answer = "none" THEN [session EXCEPT !.answer = kind, !.reason = reason] ELSE session
save_answer(kind, reason) == [session EXCEPT !.answer = kind, !.reason = reason]
EndWith(n, kind, reason) ==
    /\ at = n
    /\ at' = "end"
    /\ session' = save_answer(kind, reason)
    /\ state' = [state EXCEPT !.route = kind]
    /\ UNCHANGED <<worldVars, execution, saved, db, outcome>>
refuse == EndWith("refuse", "refusal", state.error)
clarify_project == EndWith("clarify_project", "clarification", "PROJECT_CLARIFICATION_REQUIRED")

-----------------------------------------------------------------------------
GraphStep ==
    \/ load_prompt \/ analyze_query \/ select_project \/ resolve_scope \/ resolve_identifiers
    \/ retrieve \/ grade_retrieval \/ govern_evidence \/ generate_answer \/ citation_guard
    \/ revise_answer \/ refuse \/ clarify_project

JobStep == \/ Execute \/ ExecuteDenied \/ PrepareFails \/ GraphStep \/ Fail \/ Die
           \/ Commit \/ PersistOutcome \/ PersistFails \/ HandleFailure

QANext == JobStep \/ EndMembership \/ \E c \in Chunks : ChangeDocument(c)

QASpec == QAInit /\ [][QANext]_qaVars

\* The job is executed until it succeeds or no attempt is left, and an execution
\* goes on: every call it makes has a timeout.  Only the reaper, which nothing calls,
\* would have a job executed again whose worker died.
FairQASpec == QASpec /\ WF_qaVars(at # "dead" /\ JobStep)

-----------------------------------------------------------------------------
(* Properties. *)

\* A run never uses more than two retrievals that it keeps, however often its
\* job is executed after a failure: each committed execution counts on from the
\* round that the checkpoint remembers.
RoundsNeverExceedTwo == db.rounds <= 2

\* What the client is told and what the database holds agree, although the answer
\* and the status are committed by two transactions and an earlier execution may
\* have left another answer: SUCCEEDED has a grounded answer with citations or a
\* question back, REFUSED has a refusal with its reason.
AnswerMatchesOutcome ==
    /\ outcome = "SUCCEEDED" =>
          \/ db.answer = "grounded" /\ db.citations # {} /\ db.reason = "none"
          \/ db.answer = "clarification"
    /\ outcome = "REFUSED" => db.answer = "refusal" /\ db.reason # "none"

\* A grounded answer that is about to be committed cites only versions the user
\* was allowed to read when this execution resolved its scope and that were still
\* current when the evidence was governed.
CitesGovernedEvidence ==
    at = "end" /\ state.route = "answered" =>
        /\ session.citations # {}
        /\ session.citations \subseteq state.scope \cap state.current

\* No answer takes a side: of the retrieved and current chunks, none that
\* contradicts a cited chunk outranks it, and one of the same authority is cited
\* with it.
ContradictionsAreShown ==
    at = "end" /\ state.route = "answered" =>
        \A c \in session.citations, d \in state.current :
            Contradict(facts, c, d) =>
                /\ facts[c].rank <= facts[d].rank
                /\ facts[c].rank = facts[d].rank => d \in session.citations

\* The loops of the graph end, whatever counters an execution finds in the checkpoint,
\* and so does the run: it is answered, refused or given up, unless its worker died or
\* its last execution raised outside the call of the graph.
EveryQuestionIsSettled ==
    <>[](\/ outcome # "RUNNING"
         \/ at = "dead"
         \/ at = "unreported" /\ execution = MaxExecutions)

\* Once the last attempt of the job has ended, with or without an exception, the run has
\* an outcome (the acceptance criteria of docs/superpowers/plans/
\* 2026-09-16-ws3-worker-execution.md).
ExhaustedRunsEnd ==
    at \in {"idle", "unreported"} /\ execution = MaxExecutions => outcome # "RUNNING"

\* The limit of two retrievals is the run's own: who is refused for it has used both
\* (docs/superpowers/specs/2026-09-12-v1-completion-design.md, section 11).
RoundLimitIsPerRun ==
    db.answer = "refusal" /\ db.reason = "RETRIEVAL_ROUND_LIMIT" => db.rounds = 2
=============================================================================
