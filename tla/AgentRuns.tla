----------------------------- MODULE AgentRuns -----------------------------
(***************************************************************************)
(* The life of an agent run: the HTTP operations that create and resume it *)
(* (application/services/runs.py), the worker handlers that execute it     *)
(* (workers/run_execution.py), the lifecycle rules they share              *)
(* (application/services/run_execution.py) and the graph executor          *)
(* (workers/run_graph.py) over the checkpoint of the run's thread.         *)
(*                                                                         *)
(* The queue under the handlers is the one JobQueue models, seen through   *)
(* what JobQueue proves: a row is settled by the task of its current       *)
(* attempt (OwnerRunsCurrentAttempt) or by the reaper.  A handler is one   *)
(* transaction per step, and every transaction locks the row of the run.   *)
(***************************************************************************)
EXTENDS Integers, Sequences, FiniteSets

CONSTANTS
    MaxRuns,         \* bound: how many runs are created
    MaxDrafts,       \* bound: how many graph executions reach the confirmation interrupt
    MaxAttempts,     \* EnqueueJobRequest.max_attempts
    Settings         \* the circumstances the runs live in, see SettingType

Runs == 1..MaxRuns
Drafts == 0..MaxDrafts        \* 0 stands for no draft
Jobs == 1..(MaxRuns + MaxDrafts)

\* runs, drafts: the bounds of this setting.
\* shared: clients may start a run on the thread of another run.
\* reaper: expired leases are given back while the old handler still runs.
\* faults: bound on how many handler transactions fail.
SettingType == [runs : 0..MaxRuns, drafts : Drafts, shared : BOOLEAN, reaper : BOOLEAN, faults : Nat]

ASSUME RunsAssumption ==
    /\ MaxRuns \in Nat
    /\ MaxDrafts \in Nat
    /\ MaxAttempts \in Nat \ {0}
    /\ Settings \subseteq SettingType

VARIABLES
    setting,      \* the member of Settings this behaviour lives in
    run,          \* run[r]: the agent_runs row
    events,       \* events[r]: the agent_events rows of r, in the order of sequence_no
    jobs,         \* the background_jobs rows of the run handlers, in the order of insertion
    handlers,     \* the handler calls in progress, of all the workers
    checkpoint,   \* checkpoint[t]: the LangGraph checkpoint of thread t
    drafts,       \* how many drafts were interrupted on
    faults        \* how many transactions failed

runVars == <<setting, run, events, jobs, handlers, checkpoint, drafts, faults>>

Modes == {"qa", "issue_create"}    \* issue_lookup runs behave like qa: they never wait
Terminal == {"SUCCEEDED", "REFUSED", "CANCELLED", "FAILED"}
RunStates == {"ABSENT", "QUEUED", "RUNNING", "WAITING_CONFIRMATION"} \cup Terminal
TerminalEvent == [s \in Terminal |->
    CASE s = "SUCCEEDED" -> "RUN_SUCCEEDED" [] s = "REFUSED" -> "RUN_REFUSED"
      [] s = "CANCELLED" -> "RUN_CANCELLED" [] s = "FAILED" -> "RUN_FAILED"]
EventTypes == {"RUN_QUEUED", "RUN_STARTED", "WAITING_CONFIRMATION", "RUN_RESUME_QUEUED",
               "RUN_RESUMED", "RUN_SUCCEEDED", "RUN_REFUSED", "RUN_CANCELLED", "RUN_FAILED"}
Actions == {"CONFIRM", "CANCEL", "none"}

\* A thread is named by the run that created it.  An event keeps, of its
\* payload, the draft it is about, the action of the user and the run whose
\* graph produced the outcome.
RunRow == [status : RunStates, mode : Modes, thread : Runs]
Event == [type : EventTypes, draft : Drafts, action : Actions, of : Runs]
JobRow == [run : Runs, type : {"EXECUTE", "RESUME"},
           status : {"PENDING", "RUNNING", "SUCCEEDED", "FAILED"}, attempts : 0..MaxAttempts]

\* none: nothing was saved.  midway: between two nodes.  interrupted: in
\* confirm_issue_create, waiting.  done: at END, with the outcome it projects to.
Checkpoint == [at : {"none", "midway", "interrupted", "done"}, of : Runs,
               draft : Drafts, outcome : {"none"} \cup Terminal]
Handler == [job : Jobs, attempt : 1..MaxAttempts,
            at : {"prepare", "start", "graph", "persist", "mark", "return", "raise"},
            seen : Checkpoint,        \* what resume found in the thread
            outcome : {"none", "WAITING_CONFIRMATION"} \cup Terminal,
            draft : Drafts,           \* of the resume payload, then of the outcome
            action : Actions,         \* of the resume payload
            of : Runs]                \* whose graph state the outcome projects

NoCheckpoint(t) == [at |-> "none", of |-> t, draft |-> 0, outcome |-> "none"]

TypeOK ==
    /\ setting \in Settings
    /\ run \in [Runs -> RunRow]
    /\ events \in [Runs -> Seq(Event)]
    /\ jobs \in Seq(JobRow) /\ Len(jobs) <= MaxRuns + MaxDrafts
    /\ handlers \subseteq Handler
    /\ checkpoint \in [Runs -> Checkpoint]
    /\ drafts \in Drafts
    /\ faults \in 0..setting.faults

RunsInit ==
    /\ setting \in Settings
    /\ run = [r \in Runs |-> [status |-> "ABSENT", mode |-> "qa", thread |-> r]]
    /\ events = [r \in Runs |-> <<>>]
    /\ jobs = <<>>
    /\ handlers = {}
    /\ checkpoint = [t \in Runs |-> NoCheckpoint(t)]
    /\ drafts = 0
    /\ faults = 0

-----------------------------------------------------------------------------
(* The run repository. *)

SetStatus(r, s) == run' = [run EXCEPT ![r].status = s]
Log(r, ty, d, a, of) == [type |-> ty, draft |-> d, action |-> a, of |-> of]
append_event(r, e) == events' = [events EXCEPT ![r] = Append(@, e)]
Enqueue(r, ty) ==
    jobs' = Append(jobs, [run |-> r, type |-> ty, status |-> "PENDING", attempts |-> 0])

HasEvent(r, a) == \E i \in DOMAIN events[r] : events[r][i].type = a

\* latest_event_of_type(a) exists and is later than latest_event_of_type(b).
LaterThan(r, a, b) ==
    \E i \in DOMAIN events[r] :
        /\ events[r][i].type = a
        /\ \A k \in DOMAIN events[r] : events[r][k].type = b => k < i

\* The index of latest_event_of_type(a), when there is one.
LatestIndex(r, a) ==
    CHOOSE i \in DOMAIN events[r] :
        /\ events[r][i].type = a
        /\ \A k \in DOMAIN events[r] : events[r][k].type = a => k <= i

-----------------------------------------------------------------------------
(* HTTP operations: one request transaction each. *)

\* create_run: the run, its first event and its job in one transaction, on a
\* new thread or on a thread the client names.
CreateRun(r, mode, thread) ==
    /\ r <= setting.runs
    /\ run[r].status = "ABSENT"
    /\ \A q \in Runs : q < r => run[q].status # "ABSENT"
    /\ \/ thread = r
       \/ setting.shared /\ thread < r /\ run[thread].thread = thread
    /\ run' = [run EXCEPT ![r] = [status |-> "QUEUED", mode |-> mode, thread |-> thread]]
    /\ append_event(r, Log(r, "RUN_QUEUED", 0, "none", r))
    /\ Enqueue(r, "EXECUTE")
    /\ UNCHANGED <<handlers, checkpoint, drafts, faults>>

\* resume_run: refused (nothing changes) unless the run waits and the hash is
\* the one of its latest waiting event.
ResumeRunAnyStatus(r, action, d) ==    \* mutant
    /\ run[r].mode = "issue_create"
    /\ HasEvent(r, "WAITING_CONFIRMATION")
    /\ Len(jobs) < MaxRuns + MaxDrafts
    /\ d = events[r][LatestIndex(r, "WAITING_CONFIRMATION")].draft
    /\ append_event(r, Log(r, "RUN_RESUME_QUEUED", d, action, r))
    /\ SetStatus(r, "QUEUED")
    /\ Enqueue(r, "RESUME")
    /\ UNCHANGED <<handlers, checkpoint, drafts, faults>>
ResumeRun(r, action, d) ==
    /\ run[r].mode = "issue_create"
    /\ run[r].status = "WAITING_CONFIRMATION"
    /\ HasEvent(r, "WAITING_CONFIRMATION")
    /\ d = events[r][LatestIndex(r, "WAITING_CONFIRMATION")].draft
    /\ append_event(r, Log(r, "RUN_RESUME_QUEUED", d, action, r))
    /\ SetStatus(r, "QUEUED")
    /\ Enqueue(r, "RESUME")
    /\ UNCHANGED <<handlers, checkpoint, drafts, faults>>

-----------------------------------------------------------------------------
(* The job queue, as JobQueue proves it to behave. *)

should_retry(n) == n < MaxAttempts

SetJob(j, s) == jobs' = [jobs EXCEPT ![j].status = s]
Current(h) == jobs[h.job].status = "RUNNING" /\ jobs[h.job].attempts = h.attempt
Becomes(h, g) == handlers' = (handlers \ {h}) \cup {g}

Claim(j) ==
    /\ jobs[j].status = "PENDING"
    /\ jobs' = [jobs EXCEPT ![j].status = "RUNNING", ![j].attempts = @ + 1]
    /\ handlers' = handlers \cup
          {[job |-> j, attempt |-> jobs[j].attempts + 1, at |-> "prepare",
            seen |-> NoCheckpoint(jobs[j].run), outcome |-> "none", draft |-> 0,
            action |-> "none", of |-> jobs[j].run]}
    /\ UNCHANGED <<run, events, checkpoint, drafts, faults>>

\* complete and fail; both raise, and change nothing, for a stale handler.
Return(h) ==
    /\ h.at = "return"
    /\ handlers' = handlers \ {h}
    /\ IF Current(h) THEN SetJob(h.job, "SUCCEEDED") ELSE UNCHANGED jobs
    /\ UNCHANGED <<run, events, checkpoint, drafts, faults>>

Raise(h) ==
    /\ h.at = "raise"
    /\ handlers' = handlers \ {h}
    /\ IF Current(h)
       THEN SetJob(h.job, IF should_retry(h.attempt) THEN "PENDING" ELSE "FAILED")
       ELSE UNCHANGED jobs
    /\ UNCHANGED <<run, events, checkpoint, drafts, faults>>

\* The lease of a running job expired; its handler may still be alive.
Reap(j) ==
    /\ setting.reaper
    /\ jobs[j].status = "RUNNING"
    /\ SetJob(j, IF should_retry(jobs[j].attempts) THEN "PENDING" ELSE "FAILED")
    /\ UNCHANGED <<run, events, handlers, checkpoint, drafts, faults>>

-----------------------------------------------------------------------------
(* The handlers. *)

RunOf(h) == jobs[h.job].run
Thread(h) == run[RunOf(h)].thread
Kind(h, ty) == jobs[h.job].type = ty
Step(h, at) == Becomes(h, [h EXCEPT !.at = at])

\* The early returns of prepare_execute.
ExecutesIfLive(r) == run[r].status \in {"QUEUED", "RUNNING"} /\ HasEvent(r, "RUN_QUEUED")    \* mutant
ExecutesOnce(r) == run[r].status = "QUEUED" /\ ~HasEvent(r, "RUN_RESUME_QUEUED")    \* mutant
Executes(r) ==
    /\ run[r].status \in {"QUEUED", "RUNNING"}
    /\ HasEvent(r, "RUN_QUEUED")
    /\ ~LaterThan(r, "RUN_RESUME_QUEUED", "RUN_QUEUED")
    /\ ~LaterThan(r, "RUN_RESUMED", "RUN_QUEUED")

\* The changes prepare_execute makes to the run.
Started(r) ==
    /\ SetStatus(r, "RUNNING")
    /\ IF run[r].status = "QUEUED" /\ ~LaterThan(r, "RUN_STARTED", "RUN_QUEUED")
       THEN append_event(r, Log(r, "RUN_STARTED", 0, "none", r))
       ELSE UNCHANGED events

PrepareExecute(h) ==
    /\ h.at = "prepare" /\ Kind(h, "EXECUTE")
    /\ LET r == RunOf(h) IN
       \/ /\ ~Executes(r)
          /\ Step(h, "return")
          /\ UNCHANGED <<run, events>>
       \/ /\ Executes(r)
          /\ Step(h, "start")
          /\ Started(r)
    /\ UNCHANGED <<jobs, checkpoint, drafts, faults>>

\* The early returns of prepare_resume.
Resumes(r) ==
    /\ run[r].status \in {"QUEUED", "RUNNING"}
    /\ HasEvent(r, "RUN_RESUME_QUEUED")
    /\ LaterThan(r, "RUN_RESUME_QUEUED", "RUN_STARTED")

\* The changes prepare_resume makes to the run.
Resumed(r) ==
    /\ SetStatus(r, "RUNNING")
    /\ IF LaterThan(r, "RUN_RESUMED", "RUN_RESUME_QUEUED")
       THEN UNCHANGED events
       ELSE append_event(r, Log(r, "RUN_RESUMED", 0, "none", r))

PrepareResume(h) ==
    /\ h.at = "prepare" /\ Kind(h, "RESUME")
    /\ LET r == RunOf(h)
           payload == events[r][LatestIndex(r, "RUN_RESUME_QUEUED")]
       IN
       \/ /\ ~Resumes(r)
          /\ Step(h, "return")
          /\ UNCHANGED <<run, events>>
       \/ /\ Resumes(r)
          /\ Becomes(h, [h EXCEPT !.at = "start", !.draft = payload.draft,
                                  !.action = payload.action])
          /\ Resumed(r)
    /\ UNCHANGED <<jobs, checkpoint, drafts, faults>>

\* ainvoke begins: execute restarts the graph on the run's thread; resume
\* continues whatever checkpoint the thread has.
StartGraph(h) ==
    /\ h.at = "start"
    /\ \/ /\ Kind(h, "EXECUTE")
          /\ checkpoint' = [checkpoint EXCEPT ![Thread(h)] =
                [at |-> "midway", of |-> RunOf(h), draft |-> 0, outcome |-> "none"]]
          /\ Step(h, "graph")
       \/ /\ Kind(h, "RESUME")
          /\ Becomes(h, [h EXCEPT !.at = "graph", !.seen = checkpoint[Thread(h)]])
          /\ UNCHANGED checkpoint
    /\ UNCHANGED <<run, events, jobs, drafts, faults>>

\* ainvoke ends with outcome s, about draft d, of the graph state of run q.
GraphEnds(h, s, d, q) ==
    /\ checkpoint' = [checkpoint EXCEPT ![Thread(h)] =
          IF s = "WAITING_CONFIRMATION"
          THEN [at |-> "interrupted", of |-> q, draft |-> d, outcome |-> "none"]
          ELSE [at |-> "done", of |-> q, draft |-> d, outcome |-> s]]
    /\ Becomes(h, [h EXCEPT !.at = "persist", !.outcome = s, !.draft = d, !.of = q])

\* A graph runs to confirm_issue_create on a draft it has just built.
Interrupts(h, q) ==
    /\ drafts < setting.drafts
    /\ drafts' = drafts + 1
    /\ GraphEnds(h, "WAITING_CONFIRMATION", drafts + 1, q)

\* QA answers or refuses; issue creation refuses or waits for confirmation.
Execute(h) ==
    /\ h.at = "graph" /\ Kind(h, "EXECUTE")
    /\ \/ /\ run[RunOf(h)].mode = "issue_create"
          /\ Interrupts(h, RunOf(h))
       \/ /\ \/ GraphEnds(h, "REFUSED", 0, RunOf(h))
             \/ run[RunOf(h)].mode = "qa" /\ GraphEnds(h, "SUCCEEDED", 0, RunOf(h))
          /\ UNCHANGED drafts
    /\ UNCHANGED <<run, events, jobs, faults>>

\* Command(resume): an interrupted graph applies the decision, or refuses one
\* that is expired or bound to another draft; a finished graph returns its
\* final state again; a graph between two nodes goes on from there.
Resume(h) ==
    /\ h.at = "graph" /\ Kind(h, "RESUME") /\ h.seen.at # "none"
    /\ \/ /\ h.seen.at = "interrupted"
          /\ \/ GraphEnds(h, "REFUSED", h.seen.draft, h.seen.of)
             \/ /\ h.seen.draft = h.draft
                /\ GraphEnds(h, IF h.action = "CONFIRM" THEN "SUCCEEDED" ELSE "CANCELLED",
                             h.seen.draft, h.seen.of)
          /\ UNCHANGED drafts
       \/ /\ h.seen.at = "done"
          /\ Becomes(h, [h EXCEPT !.at = "persist", !.outcome = h.seen.outcome,
                                  !.draft = h.seen.draft, !.of = h.seen.of])
          /\ UNCHANGED <<checkpoint, drafts>>
       \/ /\ h.seen.at = "midway"
          /\ \/ h.seen.draft = 0 /\ Interrupts(h, h.seen.of)
             \/ /\ \E s \in {"SUCCEEDED", "REFUSED"} : GraphEnds(h, s, h.seen.draft, h.seen.of)
                /\ UNCHANGED drafts
    /\ UNCHANGED <<run, events, jobs, faults>>

\* The graph raises.  A resumed graph may have saved a checkpoint after
\* confirm_issue_create before it did.
GraphRaises(h) ==
    /\ h.at = "graph"
    /\ Step(h, IF h.attempt >= MaxAttempts THEN "mark" ELSE "raise")
    /\ \/ UNCHANGED checkpoint
       \/ /\ h.seen.at = "interrupted" /\ h.seen.draft = h.draft /\ h.action = "CONFIRM"
          /\ checkpoint' = [checkpoint EXCEPT ![Thread(h)] =
                [at |-> "midway", of |-> h.seen.of, draft |-> h.draft, outcome |-> "none"]]
    /\ UNCHANGED <<run, events, jobs, drafts, faults>>

\* The changes persist_outcome makes to the run.
Persists(h, r) == run[r].status \notin Terminal \cup {"WAITING_CONFIRMATION"}
Persisted(h) ==
    LET r == RunOf(h) IN
    IF ~Persists(h, r)
    THEN UNCHANGED <<run, events>>
    ELSE /\ SetStatus(r, h.outcome)
         /\ append_event(r, Log(r, IF h.outcome = "WAITING_CONFIRMATION" THEN h.outcome
                                   ELSE TerminalEvent[h.outcome], h.draft, "none", h.of))

PersistOutcome(h) ==
    /\ h.at = "persist"
    /\ Persisted(h)
    /\ Step(h, "return")
    /\ UNCHANGED <<jobs, checkpoint, drafts, faults>>

\* The changes mark_final_failure makes to the run.
MarkedAnyway(h) ==    \* mutant
    LET r == RunOf(h) IN
    SetStatus(r, "FAILED") /\ append_event(r, Log(r, "RUN_FAILED", 0, "none", r))
Marked(h) ==
    LET r == RunOf(h) IN
    IF run[r].status \in Terminal
    THEN UNCHANGED <<run, events>>
    ELSE SetStatus(r, "FAILED") /\ append_event(r, Log(r, "RUN_FAILED", 0, "none", r))

MarkFinalFailure(h) ==
    /\ h.at = "mark"
    /\ Marked(h)
    /\ Step(h, "raise")
    /\ UNCHANGED <<jobs, checkpoint, drafts, faults>>

\* A transaction of the handler fails: it is rolled back, or it committed and
\* the acknowledgement was lost.  None of the three is inside the try block.
TransactionFails(h) ==
    /\ faults < setting.faults
    /\ faults' = faults + 1
    /\ \/ h.at \in {"prepare", "persist", "mark"} /\ UNCHANGED <<run, events>>
       \/ h.at = "prepare" /\ Kind(h, "EXECUTE") /\ Executes(RunOf(h)) /\ Started(RunOf(h))
       \/ h.at = "prepare" /\ Kind(h, "RESUME") /\ Resumes(RunOf(h)) /\ Resumed(RunOf(h))
       \/ h.at = "persist" /\ Persisted(h)
       \/ h.at = "mark" /\ Marked(h)
    /\ Step(h, "raise")
    /\ UNCHANGED <<jobs, checkpoint, drafts>>

-----------------------------------------------------------------------------
HandlerStep(h) ==
    \/ PrepareExecute(h) \/ PrepareResume(h) \/ StartGraph(h) \/ Execute(h) \/ Resume(h)
    \/ GraphRaises(h) \/ PersistOutcome(h) \/ MarkFinalFailure(h) \/ Return(h) \/ Raise(h)

RunsNext ==
    /\ \/ \E r \in Runs, mode \in Modes, thread \in Runs : CreateRun(r, mode, thread)
       \/ \E r \in Runs, action \in {"CONFIRM", "CANCEL"}, d \in Drafts : ResumeRun(r, action, d)
       \/ \E j \in DOMAIN jobs : Claim(j) \/ Reap(j)
       \/ \E h \in handlers : HandlerStep(h) \/ TransactionFails(h)
    /\ UNCHANGED setting

RunsSpec == RunsInit /\ [][RunsNext]_runVars

\* Workers claim due jobs again and again, and a handler that runs goes on to
\* its end.  No user is obliged to answer a confirmation.
RunsFairness ==
    /\ \A j \in Jobs : WF_runVars(j \in DOMAIN jobs /\ Claim(j) /\ UNCHANGED setting)
    /\ \A j \in Jobs :
          WF_runVars(\E h \in handlers : h.job = j /\ HandlerStep(h) /\ UNCHANGED setting)

FairRunsSpec == RunsSpec /\ RunsFairness

-----------------------------------------------------------------------------
(* Properties. *)

LastType(r) == events[r][Len(events[r])].type

\* The status of a run and its event log never disagree, although they are
\* written by different transactions of different jobs: the last event is the
\* one that announced the status.  SSE clients see only the log, GET sees only
\* the status.
StatusMatchesLog ==
    \A r \in Runs :
        CASE run[r].status = "ABSENT" -> events[r] = <<>>
          [] run[r].status = "QUEUED" ->
                events[r] # <<>> /\ LastType(r) \in {"RUN_QUEUED", "RUN_RESUME_QUEUED"}
          [] run[r].status = "RUNNING" ->
                events[r] # <<>> /\ LastType(r) \in {"RUN_STARTED", "RUN_RESUMED"}
          [] run[r].status = "WAITING_CONFIRMATION" ->
                events[r] # <<>> /\ LastType(r) = "WAITING_CONFIRMATION"
          [] OTHER -> events[r] # <<>> /\ LastType(r) = TerminalEvent[run[r].status]

\* A terminal run is closed: whatever stale or repeated handler still works
\* for it, its status stays and nothing is appended to its log.
TerminalIsFinal ==
    [][\A r \in Runs : run[r].status \in Terminal =>
          run'[r] = run[r] /\ events'[r] = events[r]]_runVars

\* Each confirmation is answered at most once, and each answer is taken up by a
\* resume before anything else is logged: a retried EXECUTE job does nothing
\* once the user has answered.  On a shared thread a resume may ask again, and
\* the retry of one whose commit was not acknowledged then competes with the next.
AnswersAreTakenUp ==
    ~setting.reaper /\ (setting.shared => setting.faults = 0) =>
      \A r \in Runs : \A i \in DOMAIN events[r] :
        events[r][i].type = "RUN_RESUME_QUEUED" =>
            /\ i > 1
            /\ events[r][i - 1].type = "WAITING_CONFIRMATION"
            /\ events[r][i - 1].draft = events[r][i].draft
            /\ i < Len(events[r]) => events[r][i + 1].type = "RUN_RESUMED"

\* A run asks for at most one decision, so that one run creates at most one
\* issue: a repeated execution never puts a second draft before the user.
OneDecisionPerRun ==
    \A r \in Runs : \A i, k \in DOMAIN events[r] :
        events[r][i].type = "RUN_RESUME_QUEUED" /\ events[r][k].type = "RUN_RESUME_QUEUED" =>
            i = k

\* Retries alone never ask twice; only an execution that outlived its lease can,
\* or a resume that finds the graph of another run on its thread.
RetriesDecideOnce == ~setting.reaper /\ ~setting.shared => OneDecisionPerRun

\* What a reader sees of each run: only the log and whether the row is terminal.
TerminalTypes == {TerminalEvent[s] : s \in Terminal}
LogOf(r) == [length |-> Len(events[r]),
             state |-> IF run[r].status \in Terminal THEN "closed" ELSE "open",
             ends |-> {i \in DOMAIN events[r] : events[r][i].type \in TerminalTypes}]
VisibleLogs == [r \in Runs |-> LogOf(r)]
RunLogs == INSTANCE RunLog WITH LogRuns <- Runs, log <- VisibleLogs

\* Whatever handlers of different jobs do to a run, each transaction adds at most
\* one event to one log, and the one that ends the run writes the terminal status
\* and the terminal event together and leaves the log closed.
ImplementsRunLog == RunLogs!LogSpec

\* A run that was accepted ends or waits, whatever its graph raises on each
\* attempt, when the transactions around the graph succeed.
EveryRunSettles ==
    \A r \in Runs :
        ~setting.reaper /\ setting.faults = 0 /\ run[r].status \in {"QUEUED", "RUNNING"} ~>
            run[r].status \in Terminal \cup {"WAITING_CONFIRMATION"}
=============================================================================
