---------------------------- MODULE IssueThread ----------------------------
(***************************************************************************)
(* The runs of one conversation thread: the issue graphs                   *)
(* (agent/issue_run_graph.py and its nodes) under the executors of         *)
(* runtime/issue.py and workers/run_graph.py, up to the issue.             *)
(*                                                                         *)
(* The runs of a thread share its LangGraph checkpoint: execute resets the *)
(* run and the route, and every other reference stays from the run before. *)
(* What the references name are rows of the call's session, which commits  *)
(* after the graph returned and is rolled back when it raises, while the   *)
(* checkpoint is saved node by node.  Calls of different runs may overlap. *)
(*                                                                         *)
(* How one confirmed draft becomes one issue is IssueCreation's; the queue *)
(* and the leases are AgentRuns'.  A QA run is one node here.              *)
(***************************************************************************)
EXTENDS IssueCandidates

CONSTANTS
    MaxRuns,       \* bound: the runs of the thread
    MaxAttempts,   \* EnqueueJobRequest.max_attempts
    MaxFaults,     \* bound: calls that fail for a reason of their own
    Modes,         \* the business modes clients use
    Texts,         \* what users report: [code, module, title, words]
    Versions,      \* the document versions the user may read
    Today,         \* date.today(), a number
    Project,       \* the project of the thread
    OldIssues      \* the issues the tracker holds from the start

Runs == 1..MaxRuns

ASSUME ThreadAssumption ==
    /\ MaxRuns \in Nat \ {0} /\ MaxAttempts \in Nat \ {0} /\ MaxFaults \in Nat
    /\ Modes \subseteq {"qa", "issue_lookup", "issue_create"}
    /\ \A t \in Texts : IsFiniteSet(t.title) /\ IsFiniteSet(t.words)
    /\ IsFiniteSet(OldIssues)
    /\ \A i \in OldIssues : /\ i.key \in Nat /\ i.created \in Nat
                            /\ IsFiniteSet(i.title) /\ IsFiniteSet(i.words)
    /\ \A i, j \in OldIssues : i.key = j.key => i = j

VARIABLES
    run,          \* run[r]: the row of the run, its shown draft, answer and result
    rows,         \* the committed artifacts, evidence bundles, drafts and receipts
    issues,       \* the committed sandbox issues
    checkpoint,   \* the checkpoint of the thread
    call,         \* call[r]: the graph call of the run, with its open session
    faults        \* against MaxFaults

threadVars == <<run, rows, issues, checkpoint, call, faults>>

\* The references of AgentState.  run: run_id.
EmptyState == [run |-> 0, scope |-> None, bundle |-> None, candidates |-> None, draft |-> None,
               receipt |-> None, creation |-> None, answer |-> None, route |-> "none"]

Nodes == {"qa", "scope", "evidence", "search", "build", "confirm", "create"}
\* asks: interrupted in confirm_issue_create.  wrote: rows of the session.
\* resume, hash: the action of the resume and the draft it is about.
IdleCall == [at |-> "idle", state |-> EmptyState, resume |-> "none", hash |-> None, wrote |-> {},
             outcome |-> "none"]
\* shown: the draft of the waiting event.  before: the issues that were there
\* when the request was accepted (history).
NoRun == [mode |-> "qa", text |-> None, status |-> "ABSENT", tries |-> 0, calls |-> 0,
          shown |-> None, resume |-> "none", hash |-> None, ref |-> None, before |-> {}]
Terminal == {"SUCCEEDED", "REFUSED", "CANCELLED", "FAILED"}

ThreadInit ==
    /\ run = [r \in Runs |-> NoRun]
    /\ rows = {}
    /\ issues = OldIssues
    /\ checkpoint = [state |-> EmptyState, next |-> "end"]
    /\ call = [r \in Runs |-> IdleCall]
    /\ faults = 0

-----------------------------------------------------------------------------
(* Sessions and checkpoints. *)

State(r) == call[r].state
\* A new row; it belongs to the run of the state and is of this call.
By(r) == <<r, run[r].calls>>
Row(r, kind) == [kind |-> kind, of |-> State(r).run, by |-> By(r)]
Seen(r, row) == row \in rows \cup call[r].wrote

\* A node returned: the references are merged, the rows are in the session.  The
\* checkpoint is saved in the background; ainvoke returns after the last one.
Advance(r, s, new, next) ==
    /\ call' = [call EXCEPT ![r].state = s, ![r].wrote = @ \cup new, ![r].at = next]
    /\ \/ checkpoint' = [state |-> s, next |-> next]
       \/ next # "end" /\ UNCHANGED checkpoint
Refuses(r) == Advance(r, [State(r) EXCEPT !.route = "refusal"], {}, "end")

\* The exception rolls the session back; the job is retried, or this was the last
\* attempt and leaves the run in a status of its own.
Raises(r, last) ==
    /\ call' = [call EXCEPT ![r] = IdleCall]
    /\ run' = [run EXCEPT ![r].status = IF run[r].tries < MaxAttempts THEN "QUEUED" ELSE last]

-----------------------------------------------------------------------------
(* The clients. *)

CreateRun(r, mode, text) ==
    /\ run[r].status = "ABSENT"
    /\ \A q \in 1..(r - 1) : run[q].status # "ABSENT"
    /\ run' = [run EXCEPT ![r] = [NoRun EXCEPT !.mode = mode, !.text = text, !.status = "QUEUED",
                                               !.before = issues]]
    /\ UNCHANGED <<rows, issues, checkpoint, call, faults>>

\* resume_run takes the hash of the waiting event and no other.
ResumeRun(r, action) ==
    /\ run[r].status = "WAITING_CONFIRMATION"
    /\ run' = [run EXCEPT ![r].status = "QUEUED", ![r].tries = 0,
                          ![r].resume = action, ![r].hash = run[r].shown]
    /\ UNCHANGED <<rows, issues, checkpoint, call, faults>>

-----------------------------------------------------------------------------
(* _invoke: a call of a graph. *)

\* execute: the graph starts over; what it does not reset stays.
ResetForExecute(r) == [checkpoint.state EXCEPT !.run = r, !.route = "none"]
BeginExecute(r) ==
    /\ run[r].status = "QUEUED" /\ run[r].resume = "none"
    /\ LET s == ResetForExecute(r)
           first == IF run[r].mode = "qa" THEN "qa" ELSE "scope"
       IN  /\ call' = [call EXCEPT ![r] = [IdleCall EXCEPT !.state = s, !.at = first]]
           /\ checkpoint' = [state |-> s, next |-> first]
    /\ run' = [run EXCEPT ![r].status = "RUNNING", ![r].tries = @ + 1, ![r].calls = @ + 1]
    /\ UNCHANGED <<rows, issues, faults>>

\* resume: Command(resume) goes on where the checkpoint of the thread is.
BeginResume(r) ==
    /\ run[r].status = "QUEUED" /\ run[r].resume # "none"
    /\ call' = [call EXCEPT ![r] = [IdleCall EXCEPT !.state = checkpoint.state,
          !.resume = run[r].resume, !.hash = run[r].hash,
          !.at = IF checkpoint.next \in Nodes \ {"qa"} THEN checkpoint.next ELSE "end"]]
    /\ run' = [run EXCEPT ![r].status = "RUNNING", ![r].tries = @ + 1, ![r].calls = @ + 1]
    /\ UNCHANGED <<rows, issues, checkpoint, faults>>

-----------------------------------------------------------------------------
(* The nodes. *)

\* The whole QA graph: an answer or a refusal, both stored as an answer.
Answer(r) ==
    /\ call[r].at = "qa"
    /\ LET a == Row(r, "answer") IN
          \E route \in {"answer", "refusal"} :
             Advance(r, [State(r) EXCEPT !.answer = a, !.route = route], {a}, "end")
    /\ UNCHANGED <<run, rows, issues, faults>>

\* The edges: the lookup graph has no evidence, no draft and no confirmation.
AfterScope(r) == IF run[r].mode = "issue_lookup" THEN "search" ELSE "evidence"
AfterSearch(r) == IF run[r].mode = "issue_lookup" THEN "end" ELSE "build"

ResolveScope(r) ==
    /\ call[r].at = "scope"
    /\ LET s == Row(r, "scope") IN Advance(r, [State(r) EXCEPT !.scope = s], {s}, AfterScope(r))
    /\ UNCHANGED <<run, rows, issues, faults>>

\* select_document_version_ids.
AllowedCategories == {"requirement_baseline", "approved_test_spec"}
SelectVersions(allowed) ==
    {v \in allowed : /\ v.project = Project
                     /\ v.category \in AllowedCategories
                     /\ v.status = "PUBLISHED" /\ v.current
                     /\ v.from <= Today /\ Today <= v.to}

\* _after_issue_evidence.
AfterEvidenceAnyway(s) == "search"    \* mutant
AfterEvidence(s) == IF s.route = "issue_evidence_ready" THEN "search" ELSE "end"

\* What retrieval and governance leave is some of what was selected; nothing
\* left, like nothing selected, is a refusal.
RetrieveEvidence(r) ==
    /\ call[r].at = "evidence"
    /\ Seen(r, State(r).scope)
    /\ \E found \in SUBSET SelectVersions(Versions) :
          LET b == [kind |-> "bundle", of |-> State(r).run, by |-> By(r), versions |-> found]
              s == IF found = {} THEN [State(r) EXCEPT !.route = "refusal"]
                   ELSE [State(r) EXCEPT !.bundle = b, !.route = "issue_evidence_ready"]
          IN  Advance(r, s, IF found = {} THEN {} ELSE {b}, AfterEvidence(s))
    /\ UNCHANGED <<run, rows, issues, faults>>

\* search_issues and find_candidates_from_text, with the text of the run of the state.
SearchIssues(r) ==
    /\ call[r].at = "search"
    /\ Seen(r, State(r).scope)
    /\ LET c == [kind |-> "candidates", of |-> State(r).run, by |-> By(r),
                 found |-> find_candidates(run[State(r).run].text, issues, Project)]
       IN  Advance(r, [State(r) EXCEPT !.candidates = c, !.route = "issue_candidates"], {c},
                   AfterSearch(r))
    /\ UNCHANGED <<run, rows, issues, faults>>

\* build_issue_draft reads the candidates and the evidence the state names, if any.
Loads(r, row) == row = None \/ Seen(r, row)
BuildDraft(r) ==
    /\ call[r].at = "build"
    /\ Loads(r, State(r).candidates) /\ Loads(r, State(r).bundle)
    /\ LET c == State(r).candidates
           d == [kind |-> "draft", of |-> State(r).run, by |-> By(r),
                 text |-> run[State(r).run].text, evidence |-> State(r).bundle,
                 links |-> IF c = None THEN <<>> ELSE c.found]
       IN  Advance(r, [State(r) EXCEPT !.draft = d, !.route = "confirm_issue_create"], {d}, "confirm")
    /\ UNCHANGED <<run, rows, issues, faults>>

\* confirm_issue_create without a resume value: the interrupt.
Interrupt(r) ==
    /\ call[r].at = "confirm"
    /\ call[r].resume = "none"
    /\ Seen(r, State(r).draft)
    /\ call' = [call EXCEPT ![r].at = "asks"]
    /\ checkpoint' = [state |-> State(r), next |-> "confirm"]
    /\ UNCHANGED <<run, rows, issues, faults>>

\* With one: record_decision.  The hash covers the draft's id, so that two
\* drafts never share one; a late answer is refused.
HashIgnored(r) == TRUE    \* mutant
HashMatches(r) == call[r].hash = State(r).draft
RecordDecision(r) ==
    /\ call[r].at = "confirm"
    /\ call[r].resume # "none"
    /\ Seen(r, State(r).draft)
    /\ \/ Refuses(r)
       \/ /\ HashMatches(r)
          /\ LET t == [kind |-> "receipt", of |-> State(r).run, by |-> By(r), draft |-> State(r).draft]
                 confirmed == call[r].resume = "CONFIRM"
             IN  Advance(r, [State(r) EXCEPT !.receipt = t,
                                !.route = IF confirmed THEN "execute_issue_create" ELSE "cancelled"],
                         {t}, IF confirmed THEN "create" ELSE "end")
    /\ UNCHANGED <<run, rows, issues, faults>>

\* execute_issue_create: denied without the receipt of the draft, or for a role;
\* an issue of the draft that is there is returned.
IssueOf(d) ==
    [kind |-> "issue", key |-> d.of, project |-> Project, code |-> d.text.code,
     module |-> d.text.module, title |-> d.text.title, words |-> d.text.words, status |-> "OPEN",
     created |-> Cardinality(issues) + 1, draft |-> d]
ExecuteCreate(r) ==
    /\ call[r].at = "create"
    /\ \/ Refuses(r)
       \/ /\ Seen(r, State(r).receipt)
          /\ LET a == Row(r, "creation")
                 d == State(r).receipt.draft
                 new == IF \E i \in issues : i.draft = d THEN {} ELSE {IssueOf(d)}
             IN  Advance(r, [State(r) EXCEPT !.creation = a, !.route = "issue_created"],
                         {a} \cup new, "end")
    /\ UNCHANGED <<run, rows, issues, faults>>

-----------------------------------------------------------------------------
(* The end of a call. *)

\* _project: the status and the result_ref of a finished graph.
Projected(s) ==
    CASE s.route = "refusal" -> "REFUSED" [] s.route = "cancelled" -> "CANCELLED"
      [] OTHER -> "SUCCEEDED"
ResultRef(s) ==
    LET refs == IF s.route = "refusal" THEN <<s.answer>>
                ELSE SelectSeq(<<s.answer, s.candidates, s.creation, s.draft>>, LAMBDA x : x # None)
    IN  IF refs = <<>> \/ s.route = "cancelled" THEN None ELSE Head(refs)

\* _invoke commits the session after the graph returned ...
CommittedNothing(r) == {}    \* mutant
Committed(r) == call[r].wrote
Commit(r) ==
    /\ call[r].at \in {"end", "asks"}
    /\ rows' = rows \cup {w \in Committed(r) : w.kind # "issue"}
    /\ issues' = issues \cup {w \in Committed(r) : w.kind = "issue"}
    /\ call' = [call EXCEPT ![r].wrote = {}, ![r].at = "persist",
          ![r].outcome = IF call[r].at = "asks" THEN "WAITING_CONFIRMATION" ELSE Projected(State(r))]
    /\ UNCHANGED <<run, checkpoint, faults>>

\* ... and persist_outcome follows in a transaction of its own.
Persist(r) ==
    /\ call[r].at = "persist"
    /\ run' = [run EXCEPT ![r].status = call[r].outcome,
          ![r].shown = IF call[r].outcome = "WAITING_CONFIRMATION" THEN State(r).draft ELSE @,
          ![r].ref = IF call[r].outcome \in Terminal THEN ResultRef(State(r)) ELSE @]
    /\ call' = [call EXCEPT ![r] = IdleCall]
    /\ UNCHANGED <<rows, issues, checkpoint, faults>>

\* A reference of the checkpoint outlived its row.
Misses(r) ==
    \/ call[r].at \in {"evidence", "search"} /\ ~Seen(r, State(r).scope)
    \/ call[r].at = "build" /\ ~(Loads(r, State(r).candidates) /\ Loads(r, State(r).bundle))
    \/ call[r].at = "confirm" /\ ~Seen(r, State(r).draft)
LookupFails(r) ==
    /\ Misses(r)
    /\ Raises(r, "FAILED")
    /\ UNCHANGED <<rows, issues, checkpoint, faults>>

\* The provider, the database, the authorization or the process fails; only a
\* graph that raises has its run marked.
Fail(r) ==
    /\ call[r].at # "idle"
    /\ faults < MaxFaults
    /\ faults' = faults + 1
    /\ \/ Raises(r, "RUNNING")
       \/ call[r].at # "persist" /\ Raises(r, "FAILED")
    /\ UNCHANGED <<rows, issues, checkpoint>>

CallStep(r) ==
    \/ BeginExecute(r) \/ BeginResume(r) \/ Answer(r) \/ ResolveScope(r) \/ RetrieveEvidence(r)
    \/ SearchIssues(r) \/ BuildDraft(r) \/ Interrupt(r) \/ RecordDecision(r) \/ ExecuteCreate(r)
    \/ Commit(r) \/ Persist(r) \/ LookupFails(r) \/ Fail(r)

ThreadNext ==
    \/ \E r \in Runs : CallStep(r)
    \/ \E r \in Runs, mode \in Modes, text \in Texts : CreateRun(r, mode, text)
    \/ \E r \in Runs, action \in {"CONFIRM", "CANCEL"} : ResumeRun(r, action)

ThreadSpec == ThreadInit /\ [][ThreadNext]_threadVars

-----------------------------------------------------------------------------
(* Properties. *)

Shown == {run[r].shown : r \in Runs} \ {None}

\* An issue is only ever made from the draft that its own run put before the
\* user and that the user confirmed, although a resume goes on with whatever
\* run the thread's checkpoint is about (confirm_issue_create.py 37-61).
IssuesAreTheConfirmedDrafts ==
    \A i \in issues \ OldIssues :
        /\ run[i.draft.of].shown = i.draft
        /\ run[i.draft.of].resume = "CONFIRM" /\ run[i.draft.of].hash = i.draft

\* What a user is asked to confirm can be confirmed: the draft of a waiting
\* event, its evidence and its links are committed, so that a worker that
\* starts afresh finds them (runtime/issue.py 117-125).
ShownDraftsAreStored ==
    \A d \in Shown : d \in rows /\ d.evidence \in rows

\* A draft that is shown rests on evidence that its own run found, never on the
\* bundle an earlier run left in the checkpoint (issue_run_graph.py 85, 164-171).
ShownDraftsRestOnOwnEvidence ==
    \A d \in Shown : /\ d.evidence # None
                     /\ d.evidence.of = d.of
                     /\ \A v \in d.evidence.versions : v.category \in AllowedCategories

\* A draft that is shown lists, first, an issue with the same error code when one
\* was there before the run was requested, as long as the tracker's project is
\* no larger than the pool that is ranked (issue_candidates.py 123-236).
EarlierDuplicatesAreShown ==
    \A d \in Shown :
        /\ Cardinality({i \in issues : i.project = Project}) <= PoolLimit
        /\ \E i \in run[d.of].before : i.project = Project /\ ExactError(d.text, i)
        => d.links # <<>> /\ ExactError(d.text, d.links[1])

\* "result_ref points to ISSUE_CANDIDATES artifact": the result of a lookup is the
\* list of candidates of that lookup.
LookupResultIsItsOwn ==
    \A r \in Runs : run[r].mode = "issue_lookup" /\ run[r].status = "SUCCEEDED" =>
        run[r].ref.kind = "candidates" /\ run[r].ref.of = r
=============================================================================
