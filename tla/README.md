# A verification project for the project knowledge agent

TLA+ models of the parts of `src/src/project_agent` whose correctness depends on
what happens between transactions: the PostgreSQL job queue and its workers, the
life of an agent run, the graph that answers a question, the graphs that draft an
issue, the creation of an issue a user confirmed, the event stream a client follows,
the upload and the publication of document versions, and the evaluation that drives
the whole system from outside together with the fixtures it needs. TLC checks every
model on a small instance; TLAPS proves every safety property that a passing run
checks, for every instance.

## The system

A FastAPI process (`api/`) and worker processes (`workers/`) share one PostgreSQL
database. A request creates a run and its job in one transaction. A worker claims
the job, runs a LangGraph graph whose state is saved in a checkpoint per thread,
and writes the outcome back to the run and to its event log. Clients poll the log
over SSE. Two of the graphs write: issue creation, after an interrupt that waits
for the user's confirmation, inserts a sandbox issue behind an idempotency barrier;
documents are uploaded to a local object store, and published to and deleted from a
RAGFlow dataset, by HTTP requests. The evaluation is a client of the same API: one
command prepares its projects, rows and datasets, one runs the benchmark case by case
and writes an artifact for each, and two more score and report what was written.

| Component | State | Operations | Interacts through | Hard behaviour | Correct when |
|---|---|---|---|---|---|
| Job queue, worker (`infrastructure/jobs`, `workers/main.py`, `workers/reaper.py`) | `background_jobs` rows, coroutines of a batch | enqueue, claim, heartbeat, complete, fail, reap, stop, crash | rows under `FOR UPDATE` | expired leases, overlapping attempts, crashes | a row is settled by its current attempt, runs at most `max_attempts` times, and ends (which the README of the repository promises and the deployed program does not keep when a worker dies) |
| Runs (`application/services/runs.py`, `run_execution.py`, `workers/run_execution.py`) | `agent_runs`, `agent_events`, checkpoint | create, resume, prepare, execute, persist, mark failure | job queue, checkpoint, run row lock | retries after the user answered, stale outcomes, failing last attempt | status and log agree, a terminal run is closed, one decision per run |
| Event stream (`api/v1/runs.py`) | cursor of a generator, Last-Event-ID of a client | connect, page, emit, check, sleep | `agent_events` | log grows between reads, broken connections | every event, in order, and the terminal one |
| Issue creation (`issue_confirmation.py`, `issue_creation.py`, `sandbox.py`, `issue_reconciliation.py`) | draft, receipt, idempotency record, issue, checkpoint | confirm, check, reserve, look up, create, complete, reconcile | three stores that commit separately | lost responses, failures between commits, expiry, revoked rights | at most one issue, only after a confirmation, and no reported issue is missing |
| Documents (`application/use_cases`, `repositories/documents.py`, `ragflow/adapter.py`) | `lifecycle_status` of each version, documents of the dataset | upload, submit, approve, publish, delete | database rows, provider requests | publication and deletion overlap, requests are repeated | one current version (kept only among versions that replace one another), published means indexed, authority is handed over in one step |
| QA graph (`agent/graph.py`, `agent/nodes`, `runtime/qa.py`) | AgentState in the checkpoint, rows of an open session, answers, citations | select, scope, retrieve, grade, govern, generate, guard, revise, refuse | LLM, retrieval, `qa_graph.py`, checkpoint | loops, counters that survive a rollback, documents withdrawn on the way, repeated persistence | at most two rounds, the answer agrees with the status, cites governed evidence and hides no contradiction |
| Evidence governance, citation guard (`evidence_governance.py`, `citation_guard.py`) | none (decisions over rows) | pack, validate | called by the QA graph | ties, conflicts cut by the limit | an unresolved conflict is kept whole and disclosed |
| Issue graphs (`agent/issue_run_graph.py`, its nodes, `runtime/issue.py`, `workers/run_graph.py`) | AgentState in the checkpoint of a thread, rows of an open session, committed rows | execute, resume, scope, evidence, search, build, confirm, create | checkpoint shared by the runs of a thread, tracker | references that outlive their rows or their run, resumes that continue another run | an issue comes from the draft that was shown and confirmed; a shown draft is stored and rests on evidence of its own run |
| Candidate ranking (`issue_candidates.py`) | none | pool, score, order | called by the issue graphs | cut-offs, ties | an exact earlier duplicate comes first |
| Upload and object store (`upload_document.py`, `documents.py`, `object_store/local.py`) | staging and final directories, version rows | put in steps, insert, commit, get | file system and database, committed separately | colliding ids, the same `max(version_no)`, crashes between file and row | a version returns its own bytes, versions are numbered densely |
| Evaluation runner (`evaluation/runner.py`, `client.py`, `scenarios.py`, `collector.py`, `report.py`) | the current case, artifacts, metrics, report | seven protocols, collect, write, score, report | the HTTP API, database reads, files | lost answers, late commits, a worker that never ends, a report during the run | a scored artifact holds a whole run of its case, no request is made twice, a complete report is true, the runner ends |
| Evaluation fixtures (`cli/evaluation_prepare.py`, `evaluation/fixtures.py`) | datasets, rows, `fixture-state.json` | prepare, verify, cleanup | three stores without a common transaction | a command cut short anywhere, other people's datasets, repeated POSTs | a dataset the audit saw is bound only if the operator named it, a namespace that verifies stays so, rows outlive their datasets |
| Authorization, identifiers | none (decisions over rows) | scope, resolve | called by the graphs and handlers | empty sets, stale rows | as the models that use their outcomes assume |
| Rate limiter, LLM client, retention, observability, wiring | tokens, retry counters, log lines | acquire, request, sweep | clock, HTTP | retries | outside the models |

## Modules

| Module | Models | Abstracts |
|---|---|---|
| `RetryableJob` | what the queue promises about each job: phases and number of runs | workers, leases, time |
| `JobQueue` | every queue operation as one action; a worker process with its batch of tasks, each with a heartbeat | payloads, the connection pool; time is relative to now and moves by `Tick` |
| `JobQueueProofs` | the theorems about `JobQueue` | |
| `AgentRuns` | HTTP operations, handlers as one action per transaction, graphs as the outcomes they project to, one checkpoint per thread | payloads except the draft, the answer and whose graph produced it; issue lookup behaves like QA |
| `RunLog` | what a reader of `agent_events` relies on: how many events each run has, which of them end it, whether its row is terminal | jobs, handlers, clients, event contents |
| `AgentRunsProofs` | the theorems about `AgentRuns` and `RunEventStream`, one writing and one reading the logs of `RunLog` | |
| `MCAgentRuns` | the settings in which TLC explores `AgentRuns` | |
| `EvidenceGovernance` | `pack` and `CitationGuard.validate` as operators over sets of chunks | one conflict key (groups do not meet); chunks are numbered in the order in which equals are sorted; each has a version of its own |
| `QAGraph` | the executions of one QA job: each node of the graph as one action on `state`, the rows the session has written (`session`), the committed rows (`db`) and the counters in the checkpoint (`saved`); withdrawals of documents and of the membership at any time | texts, prompts and token counts; what the provider finds, how the model grades and which labels it drafts are any of the shapes the schemas admit; knowledge spaces follow the versions |
| `MCQAGraph` | the catalogues of chunks in which TLC explores `QAGraph` | |
| `QAGraphProofs` | the theorems about `QAGraph` | |
| `RunEventStream` | `iter_sse_events` between its awaits, a client that reconnects | event contents; the log grows as `RunLog` says, which `AgentRuns` implements |
| `IssueCreation` | the attempts of one RESUME job and the RECONCILE jobs of one request, statement by statement; open sessions with their uncommitted rows and row locks | the fields of the issue |
| `IssueCreationProofs` | the theorems about `IssueCreation` | |
| `DocumentPublication` | the versions of one document; publish and delete requests step by step around each provider request; the documents of the dataset | file contents, permissions (a refused request changes nothing), audit rows; an upload is one step here |
| `DocumentPublicationProofs` | the theorems about `DocumentPublication` | |
| `DocumentUpload` | upload requests step by step: role check, the directories of `put`, `create_draft` with its unlocked maximum and its unique constraint, commit; `get` | bytes, which are those of some upload; ids are drawn from a small set so that they collide |
| `DocumentUploadProofs` | the theorems about `DocumentUpload` | |
| `MCDocumentUpload` | a document that exists before the uploads, and the symmetry of the requests | |
| `IssueCandidates` | the search of the sandbox and the ranking, as operators | texts are sets of words; status filter and semantic score, which the runs do not pass |
| `IssueThread` | the runs of one thread: each node of the lookup and create graphs, the session of each call, the checkpoint saved after a node or not, commit and `persist_outcome` | a QA run is one node; the queue, leases and the idempotency barrier, which are `AgentRuns` and `IssueCreation` |
| `IssueThreadProofs` | the theorems about `IssueThread` | |
| `MCIssueThread` | the report, the documents and the issues that are there | |
| `EvaluationRun` | the runner's cases from the first request to the artifact, beside commits and a worker it does not control; `score` and `report` at any time | contents of answers; the API and the worker are reduced to what a client can observe; lookups behave like questions |
| `MCEvaluationRun` | the protocols of the frozen benchmark | |
| `EvaluationFixtures` | the three commands step by step, the provider's datasets, among them those that somebody else creates at any moment, the state file | corpus contents: one document per project; verification of row contents |
| `EvaluationProofs` | the theorems about `EvaluationRun` and `EvaluationFixtures` | |

`AgentRuns` uses the queue only through what `JobQueue` establishes: a row is
settled by its current attempt or by the reaper. `IssueCreation` opens up the step `Resume` of `AgentRuns`, and
`QAGraph` and `IssueThread` the step `Execute`, which `AgentRuns` reduces to its outcome.
`IssueThread` uses `IssueCandidates`; `EvaluationRun` sees the runs as `AgentRuns` shows
them, through statuses and events, and the issue services as `IssueCreation` shows them:
the issues of a request are a set with at most one element, so that a second one could not
show there, and a confirmed run may end with its creation still pending (`Reconcile`).

Three things about LangGraph, which is outside this repository, are assumed in
`IssueThread`: `Command(resume=...)` continues whatever node the checkpoint of the
thread has next; the resume value goes to the first interrupt that is met; and the
checkpoint of a node is saved in the background, so that a call that dies may have lost
the last ones, while `ainvoke` returns after the final one.

State corresponds to columns by name (`lockedBy` is `locked_by`, `attempts` is
`attempt_count`, `lease` is `lease_expires_at - now`). The map in `PROJECT.json`
gives the lines behind each definition. Operators marked `\* mutant` are variants
of the definition below them with a plausible mistake; each is used to see that a
property notices it.

## Runs

Every bound is a constant; the ones called `Max...` limit how often something
happens, the others are settings of the code.

| Run | Question | Instance |
|---|---|---|
| JobQueueAttempts | Can a stale task settle a row, can a job run too often, does a job that some worker serves end? | 2 jobs, 2 workers, batches of 2, 2 attempts, lease of 1 tick, a reaper that may be called, 1 kill: enough for a worker to lose a lease, claim the job again and settle the old task |
| AgentRunsLifecycle | Do retries, overlapping handlers or a neighbour on the same thread corrupt a run? Does every accepted run end or wait? | three settings with 2 attempts: 1 run, 3 drafts and 2 failing transactions; 1 run whose leases expire; 2 runs that may share a thread and whose graphs raise |
| RunEventStreamDelivery | Does a reconnecting client receive everything? | 4 events, pages of 2, 2 broken connections |
| IssueCreationRequest | One issue, durable, no deadlock, and is a pending creation completed? | 3 overlapping attempts, 4 reconciliations, 2 faults; a fifth reconciliation adds no state |
| IssueCreationLostIssue | Is a completed record durable when the call fails before its commit? | violation |
| DocumentPublicationLifecycle | One current version of those that replace one another, indexed, handed over in one step? | 3 versions, each naming an earlier one or none, so that two may replace the same one, a provider document for each, and either 3 interchangeable requests or 2 and 1 fault (`MaxIncidents`): three are needed for two rivals to overlap after the version they replace was published, and two for a fault to meet another request |
| QAGraphAnswers | Can retries, rollbacks, withdrawals or an arbitrary model make a run contradict its status, cite what was not governed, hide a contradiction or go on for ever? | 3 chunks of which one fits, in a catalogue with an unresolved conflict and in one where authority decides; 2 executions on a new thread and on one whose earlier runs used up both limits (the second execution meets the counters in between), 1 withdrawal, an identifier that is registered or not |
| DocumentUploadRequests | Can overlapping or dying uploads mix up bytes, numbers or projects? | 3 uploads, 2 projects, a document that exists and one to create, 2 object ids so that an id must repeat, 2 faults |
| IssueThreadRuns | What do two runs on one thread do to each other's drafts and issues? Is an earlier duplicate found? | 2 runs in any of 3 modes, 2 attempts each, 1 failing call; a closed exact duplicate and a newer issue that shares a word, one candidate shown, so that the ranking decides |
| IssueThreadResults | Is the result of a lookup its own list of candidates? | violation: a question and a lookup on one thread, nothing fails |
| EvaluationRunArtifacts | Do artifacts and reports tell the truth about runs the runner does not control? Does it end? | 2 cases, each of any pair of protocol and mode in the gold manifest; two cases are enough for anything to leak from one into the next, since nothing of a case but files and issues outlives it |
| EvaluationFixturesLifecycle | Can commands cut short adopt, lose or break a namespace? Does every command end? | 2 projects, 2 datasets the commands may create and 1 that somebody else may create at any moment, 3 faults; any number of commands |

A behaviour of `AgentRuns` lives in one member of the constant `Settings`, which says
how many runs and drafts there are, whether a thread may be shared, whether leases
may expire under a handler, and how many handler transactions fail. The properties
that hold only without some of these say so. `EveryRunSettles` is about the settings
where only graphs raise, `RetriesDecideOnce` about those where leases hold and a run has
its thread to itself, `AnswersAreTakenUp` about those where leases hold and, on a shared
thread, transactions succeed. The last restriction came out of the proof: on a shared
thread a resume may find the other run's graph and ask again, and if the commit of that
resume was not acknowledged, its retry competes with the resume of the second answer.
What two runs on one thread do to each other is the subject of `IssueThread`.

`CHECK_DEADLOCK FALSE` stands where the bounded system really comes to rest: all
runs, calls or requests have ended.

### Where code and documents disagree

The two violations among the runs, and five more that have a configuration but are not
among the runs of `PROJECT.json`, are disagreements between the code and what its documents,
tests or comments say. `findings` quotes both sides of the two. For each of the seven, a
passing run states what the code does keep. The five are reproduced with
`tlc -config <configuration>.cfg <module>`, and TLC reports the property as violated.

| Configuration | Module | Property violated | Claim | Instance |
|---|---|---|---|---|
| JobQueueNoReaper | `JobQueue` | `EveryJobEnds` | `src/README.md` lines 139-143, 182 and 329: the worker has a reaper | that of JobQueueAttempts without a reaper, although every worker is started again |
| DocumentPublicationUnnamed | `DocumentPublication` | `OneCurrentVersion` | `docs/business/document-lifecycle.md` line 58: never two current versions | 2 versions, the second names none |
| QAGraphLastAttempt | `MCQAGraph` | `ExhaustedRunsEnd` | `docs/superpowers/plans/2026-09-16-ws3-worker-execution.md` line 1412: job FAILED and run FAILED | that of QAGraphAnswers |
| QAGraphUsedThread | `MCQAGraph` | `RoundLimitIsPerRun` | `docs/superpowers/plans/2026-09-16-ws4-real-structured-llm-qa.md` line 27: two rounds per run | 1 execution on a thread whose earlier run retrieved twice, nothing fails |
| EvaluationFixturesStrangers | `EvaluationFixtures` | `CleanupDeletesOnlyOwned` | `cli/evaluation_prepare.py` line 509 and `docs/runbooks/ws8-evaluation-fixtures.md` line 117: only owned fixtures are deleted, others rejected before prepare | 1 project, 1 dataset of each kind, nothing fails |

- *A record without an issue* (IssueCreationLostIssue). The idempotency record is completed
  before the issue commits. The passing run excludes exactly that failure
  (`FaultsAtCommit`) and shows that nothing else loses an issue.
- *Somebody else's result* (IssueThreadResults). `_project` picks the first reference the
  state names, while `execute` resets none of them, so a lookup after a question on the
  same thread reports the answer of that question as its result.
- *No reaper* (JobQueueNoReaper). Nothing constructs `JobReaper` and the compose file sets
  no restart policy, so the job of a worker that died stays RUNNING, even under an operator
  who starts every worker again (`OperatedQueueSpec`). `ServedJobsEnd` says what is left: a
  waiting job ends as long as some worker serves, unless the process that claimed it ended.
- *Two current versions* (DocumentPublicationUnnamed). `supersedes_version_id` is optional
  and `complete_publication` supersedes only what is named. `OneCurrentPerLine` says that
  versions that replace one another, directly or through others, never are current
  together, whatever the uploads name.
- *A run without a job* (QAGraphLastAttempt). `_handle_failure` sees only the exceptions of
  `graph.execute`. When `prepare_execute`, `persist_outcome` or `mark_final_failure` itself
  raises on the last attempt, the job fails and the run stays RUNNING.
  `EveryQuestionIsSettled` names this case and the death of the worker, and nothing else.
- *The limit of another run* (QAGraphUsedThread). `execute` resets neither counter of the
  checkpoint, so that a run on a used thread may be refused with `RETRIEVAL_ROUND_LIMIT`
  without a retrieval of its own.
- *Somebody else's dataset* (EvaluationFixturesStrangers). A plain prepare writes a state
  file; with one, the audit of a later `prepare --with-ragflow` is skipped, `ensure_space`
  adopts whatever has the name, and cleanup deletes it. The same happens to a dataset that
  appears between the audit and the listing of `ensure_space`. `AdoptsOnlyWhatWasNamed` is
  about datasets that the audit did see.

### What the models also show

These are behaviours of the code that a reader should know and that no property forbids,
because no document decides the matter or because a property excludes them by its
statement.

- Queue and runs. An execution whose lease expired can persist a second waiting state
  over a resumed run. `AgentRuns` has the run without a job of QAGraphLastAttempt too, for
  every kind of run; `EveryRunSettles` is stated where only graphs raise.
- Questions. A retried execution inherits the round counter of a rolled-back one just as
  one on a used thread does, and may refuse with `RETRIEVAL_ROUND_LIMIT`. A refusal that
  overwrites a grounded answer keeps that answer's citations, because `save_answer` does
  not touch them.
- Threads. A resume continues whatever run the checkpoint is about: it may store a draft
  that belongs to the other run, or end with SUCCEEDED on the other run's unfinished
  question. The hash of the draft keeps it from creating a wrong issue
  (`IssuesAreTheConfirmedDrafts`). The `result_ref` of a successful creation is its
  candidates artifact, and a refused issue run on a used thread names an old answer.
- Candidates. Only the newest 100 issues are ranked, so in a larger project an older
  exact duplicate is not shown.
- Documents. A publication that
  overlaps a deletion can leave a document in the index. A failed upload may leave an
  object or a staging directory that nobody names, and `delete` of the store has no
  caller.
- Stream. It may close before its terminal event when the run ends between the empty
  page and the status check; the client then reconnects (`TerminalIsDelivered`).
- Evaluation. The answer of a POST may be lost although the run exists; the run is then
  in no artifact. When polling a setup run fails, the failure artifact names the setup
  run. The runner raises on any unexpected side effect, so the two metrics about issues
  never report FAIL: a violation shows as RUNNER_FAILURE and a FAILED pipeline. A runner
  that dies leaves a directory that `report` refuses and `run` does not continue. In the
  fault protocols the draft refers to a run whose row the API may not have committed yet.
- Fixtures. The audit expects the description of a dataset to end in the project's UUID
  and `ensure_space` writes the project's code, so that what a failed prepare left behind
  can be recovered only after somebody edits the description (`Describe`). A plain
  prepare, then one with `--with-ragflow` that is cut short before it writes the state, then
  a plain cleanup erases the rows that name live datasets: the state file shows no provider
  documents, so that nothing demands `--with-ragflow`, and `RowsOutliveTheirSpaces` does not
  cover this cleanup. A repeated POST may leave two datasets of one name.

## Fairness

- Queue: handlers end, because every provider call has a timeout and a bounded
  number of attempts; the event loop schedules every coroutine; and the clock moves. In
  the passing run nobody has to call the reaper, start a worker again, or be on time with
  a heartbeat. The configuration JobQueueNoReaper assumes more, an operator who starts every
  worker again, so that what it shows is the missing reaper.
- Runs: due jobs are claimed and a started handler goes on. No user is required to
  answer.
- Questions: the job is executed until it succeeds or no attempt is left, and an
  execution goes on, since every call of a node has a timeout; it may fail at any
  node. A job whose worker died need not be executed again, as nothing calls the reaper. Nothing requires the model to grade or to draft well.
- Stream: the generator runs while it is connected, the client reconnects until it
  has the terminal event, and the run ends, which `AgentRuns` shows.
- Evaluation: the runner goes on (`WF` on `RunnerStep`); its polls have a deadline, so
  neither the API's commits nor the worker's progress is assumed. It may die at any
  moment, and `EveryCaseIsRecorded` says so.
- Fixtures: a command that was given goes on (`WF` on `CommandStep`); nobody has to give
  one, and the provider need not parse anything, because the wait is bounded.
- Uploads, publication and threads: safety only, no fairness.
- Issue creation: started calls go on, failed attempts are retried, pending
  RECONCILE jobs are claimed. Time and permissions are never required to change.

## Proofs

### Queue

`JobQueueProofs` proves, for every number of jobs, workers, attempts and every lease
and retry setting allowed by `QueueAssumption`, the safety properties of the run
JobQueueAttempts, `AttemptsBounded`, `OwnerRunsCurrentAttempt`,
`SettledByCurrentAttempt` and the refinement of `RetryableJob`, and with them `TypeOK`
and `RowsConsistent`.

The argument is one inductive invariant, `QueueInv`. The property that matters is
`SettledByCurrentAttempt`: `_owned_running` compares worker ids only, so a stale
task could in principle settle a later attempt of the same worker. It cannot,
because a worker that owns a row holds the task of the row's current attempt
(`OwnerRunsCurrentAttempt`). To keep that through `Claim` one needs that the
claiming worker has no tasks left, which is the guard `BatchEnded`, and that a row
that is not RUNNING has no owner, which is `RowsConsistent`; to keep it through
`Complete` and `Fail` one needs that a row that is settled loses its owner in the
same step. `AttemptsBounded` needs that a PENDING row has an attempt left, which
`fail` and `reap_expired` each establish with `should_retry`. The refinement uses
the same invariant: a step of the queue moves each job along `JobStep`.

Each action has its own step in `StepType`, `StepRows`, `StepAttempts` and
`StepOwner`; `Batches` says that a claim takes only due rows and a reap only
overdue ones, whatever the order and the limit.

### Questions

`QAGraphProofs` proves `TypeOK`, `RoundsNeverExceedTwo`, `CitesGovernedEvidence`,
`ContradictionsAreShown` and `AnswerMatchesOutcome` for any number of chunks, executions
and changes and any catalogue, from `EvidenceAssumption` and `QAAssumption`. Four
invariants carry it.

- `QAInv`: the rounds in the database never pass the counter in the checkpoint, and
  those of the session never pass the counter of the graph (`RoundsCounted`). A failure
  throws the session away and may keep a later counter, so the inequality is all that
  survives, and it is enough. That `revise_answer` is entered only with an unused
  revision is needed for the type of the counter.
- `EvidenceTraced`: retrieved chunks are in the scope, governed ones are retrieved and
  current, and a draft that reaches the guard cites something. An accepted label
  names a chunk of the pack (`CitedIsFrozen`).
- `Governed`: the bundle the guard reads is `Pack` of the current chunks. `PackIsFair`
  says that a packed chunk is outranked by none that contradicts it and that
  contradicting equals are both in the pack, whatever `max_evidence` is; the guard
  forces their labels into the disclosure, and `LabelsAreUnique` (positions are strictly
  monotone, by cardinality of finite sets) leads from the label back to the chunk.
- `AnswerSettled`, for `AnswerMatchesOutcome`: the graph refuses only for a reason, the
  rows it ends with and those that are then committed belong to its route (`Settles`),
  and a run with an outcome executes no more, so that nothing overwrites them.

### Run event stream

`AgentRunsProofs`, second part: `StreamTypeOK`, `InOrderWithoutGaps` and
`RepeatsOnlyAfterDisconnect` for every length of the log, page size and number of broken
connections. `StreamInv` says that the cursor of an open connection is the id the client
recorded, that the page holds the consecutive ids after it, and that the client has every
id up to the one it recorded. The number of deliveries is then bounded by the recorded id
and one more for each connection that broke between a delivery and its recording.

The stream assumes that its log grows by one event at a time and ends with its terminal
event. That this is what the handlers write is proved through `RunLog`:
`RunsImplementRunLog` says that the logs of `AgentRuns` implement it in every setting,
expired leases and failing transactions included, `RunsEndIsLast` that the terminal event
is the last one and is there exactly when the row is terminal, and `StreamReadsARunLog`
that the log of the stream is one of these; up to the bound on its length, `AppendEvent`
is `LogNext` (`AppendIsLogStep`). The refinement needs one more invariant than
`StatusMatchesLog`, which speaks of the last event only: a log that holds a terminal event
anywhere belongs to a terminal run (`EndsClose`), since otherwise a run could go on after
its end.

### Uploads

`DocumentUploadProofs`: `TypeOK`, `VersionsKeepTheirBytes`, `VersionNumbersAreDense` and
`VersionsStayInTheirProject` for every set of uploads, projects, documents and object
ids. Bytes: uploads that write have distinct staging directories, and from the rename on
an object never changes. Project: an upload that drafts has a document of its own project,
or one that it creates and nobody else drafts for. Numbers: a maximum that was read is
never above the number of committed versions, an inserted row has the next number, and
two open transactions never insert into one document, which is what the unique constraint
gives; so a commit always extends 1..n by n + 1.

### Publication

`DocumentPublicationProofs`: `TypeOK`, `PublishedIsIndexed` and `AuthorityIsHandedOver`
and
`OneCurrentPerLine` for every number of versions, requests, provider documents and faults,
whatever the uploads name. A request holds the document it uploaded alone until parsing starts, so cleaning
up after one request never removes what another relies on; between the look at the parsed
document and `complete` the document disappears only together with the version. For the
authority, the first version of a line replaces nothing, and once another one of the line is
published the first is never published again (`FirstIsPast`): a version is published only
over one that is current, so that the publication of a second one in the same line needs a
current one to give way.

### Issue creation

`IssueCreationProofs`: `TypeOK`, `OneIssuePerRequest` and `NoLockCycle` for every number
of attempts and faults and up to five reconciliations, and `CompletedRecordIsDurable`
where `FaultsAtCommit` is false, the failure that IssueCreationLostIssue shows. At most one
call has the issue, committed or in its session (`OneWriter`), because the insert takes
the unique row or finds it. The absence of a lock cycle is the deep part. A session that
holds the draft row and waits for the issue row made the reservation itself; from that
reservation to its insert no other call is past the checks and no reconciliation runs
(`ReserverAlone`), because a draft that is neither confirmed nor created lets only the
session that wrote it pass, and a confirmed draft is committed before any reservation only
when a reservation has become impossible.

### Runs

`AgentRunsProofs`: `StatusMatchesLog` and `TerminalIsFinal` in every setting, for every
number of runs, drafts, attempts and failures, from `RunsInv`: every transaction that
sets a status appends the event that announces it, after it looked at the row.
`AnswersAreTakenUp` and `RetriesDecideOnce` follow from `OrderInv`, which is claimed only
where leases hold. A job then has one handler, of its current attempt; a handler at work
holds its run in RUNNING under the event its own prepare logged; so the log is a chain in
which each event is followed by one of its successors and by nothing else, and of the
RESUME jobs of a run at most one is live. On a thread of its own, a run that has waited
never has a checkpoint before the confirmation again, so that no resume asks. The bound
on the number of jobs in `TypeOK` counts resumes over a whole behaviour and is left to TLC;
`Typed` is the rest of `TypeOK`.

### Issue graphs

`IssueThreadProofs`: `IssuesAreTheConfirmedDrafts`, `ShownDraftsAreStored`,
`ShownDraftsRestOnOwnEvidence` and `EarlierDuplicatesAreShown` for every number of runs on
a thread, attempts and failures, every finite tracker and every report. Nothing can be said of the run that a resumed call works for,
since the checkpoint may be anybody's. `ThreadInv` therefore speaks of the calls that
execute a run from the start: their state names their own run and the evidence and draft
they carry are of their own session (`OwnWork`). Only these ask, so what is shown is their
own, and it is committed before it is shown. A run that was answered never asks again,
hence what was once confirmed stays `Confirmed`, wherever the receipt travels: in the
checkpoint, in a session, or as an issue.

`EarlierDuplicatesAreShown` relates the links of a draft to the issues of today, while they
were computed from those of the search, which other runs may have added to since.
`LinksInv` keeps what survives: the candidates a run drafts from are `find_candidates` of
its own report over some set of issues between those that were there at its request and
those that are there now (`IsRanking`), from the search through the session and the waiting
event to the shown draft. The rest is about the ranking alone. `FirstCandidate` says that
if the project fits into the pool and holds an exact duplicate, the first candidate is one,
whatever the candidate limit: the lexicographic order is irreflexive and transitive
(`BeatsOrders`, `RanksOrders`), so in every finite set of matches some issue has none ahead
of it (`SomeIsFirst`, by the least number of issues ahead), and an issue without the error
code always has the duplicate ahead of it. `find_candidates` gives its n-th entry as the
match with n - 1 ahead of it, which is what a sort by a strict order returns; stated as a
recursive sort it would be out of the prover's reach.

### Evaluation

`EvaluationProofs`, first part: `ScoredTrialsAreComplete`, `TracesNameTheirCase`,
`EachRequestIsMadeOnce` and `ReportsAreComplete` for any number of cases and any choice of
protocols. `EvalInv` says for each place of the runner which runs and issues of the current
case may exist and which of them it knows. An artifact is complete because of what is read
in which order: the poll ends only when the run is `Final`, that is terminal or waiting
with no answer given or on its way, and from then on neither the row nor the events change
(`ObservedFits`), so it does not matter that they are read in different statements. That a
resume which the API has not committed yet counts as given (`Resumed`) is the strengthening
that the invariant needs, since the run still shows WAITING_CONFIRMATION. A trace names its
case because `_last_response` is forgotten before every request (`LastFits`). Reports are
made from artifacts that are never rewritten (`Filed`), and a request is made once because the
runner knows which runs of the current case exist (`CasesSoFar`). The value of the fold
`Transitions` is never looked at: an artifact and the run are compared through equal
arguments.

### Fixtures

`EvaluationProofs`, second part: `FixtureTypeOK`, `AdoptsOnlyWhatWasNamed`,
`PrepareKeepsWhatVerifies` and `RowsOutliveTheirSpaces` for any number of projects,
datasets and faults, while somebody else creates datasets under the names of the projects
(that somebody deletes or renames one is not modelled). `FixtureInv` adds what the commands
know at each step: of the datasets that the audit listed, none carries a project's name but
the one that the operator named for it (`AuditHolds`), what a prepare has bound carries the name (`BoundByName`), and a cleanup has
deleted what the rows of the projects behind it name (`DeletedSoFar`). Idempotence rests on
`VerifiesMeans`: a namespace verifies exactly if there is one dataset for each name, the one
that rows and state file agree on, with a document (`OnlyOurs`); then a prepare finds what
is there and has nothing to create, so that none of its steps disturbs it.

### Only model-checked

- The liveness properties: fairness and ENABLED are outside the prover.
- The bound on the number of jobs in `TypeOK` of `AgentRuns`, and what the fold
  `Transitions` of `EvaluationRun` computes, which is an induction over data.
- That `AgentRuns`, `IssueThread`, `QAGraph` and `IssueCreation` agree about the step they
  share: each is proved against its own description of the others.

The invariants behind the theorems were checked by TLC on the instances of the runs before
they were proved.

## Not modelled

Listed with reasons under `components`. Parsing, prompts and formatting have no state of
their own; the chunks of one version and the removal of duplicate chunks are not told
apart by any property. The metrics that average over the contents of answers, and the
scripts that gate on them, compute over finished artifacts and would be restated, not
checked, by a model. The identifier registry is only read, the retention sweep has no
repository, and the rate limiter is not constructed by any process.

## Open work

1. The refinement from `IssueThread` to `AgentRuns` for threads that are not shared, and
   the bound on the jobs of `AgentRuns`.
2. The category table of `document_access` and the mapping cache of the RAGFlow adapter.
