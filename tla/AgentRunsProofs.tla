--------------------------- MODULE AgentRunsProofs ---------------------------
(***************************************************************************)
(* The safety of the run lifecycle, proved for every number of runs,       *)
(* drafts, attempts and failing transactions and every set of settings,    *)
(* and of the event stream over the log of a run, for every length of the  *)
(* log, page size and number of broken connections.                        *)
(*                                                                         *)
(* Status and log: a status is written with the event that announces it,   *)
(* in one transaction that first looks at the row, so the two fit in every *)
(* setting, leases that expire included (RunsInv).                         *)
(*                                                                         *)
(* Answers and decisions: these need that no handler outlives its lease.   *)
(* A job then has one handler, of its current attempt, and a handler at    *)
(* work holds its run in RUNNING, under the event its own prepare logged,  *)
(* so that the log is a chain in which every event has a fixed successor   *)
(* (OrderInv).  On a thread of its own a run that has waited never has a   *)
(* checkpoint before its confirmation again, and so asks once (AskedOnce). *)
(*                                                                         *)
(* Writers and readers meet in RunLog: AgentRuns implements it, because a  *)
(* log that holds a terminal event belongs to a terminal run (EndsClose),  *)
(* and the writers that RunEventStream assumes are exactly those of RunLog.*)
(*                                                                         *)
(* The stream: while a connection is open the cursor is the id the client  *)
(* recorded (CursorIsRecorded), the page holds the consecutive ids that    *)
(* follow the cursor (PageFollowsCursor), and the client has received      *)
(* every id up to the one it recorded (RecordedPrefix).  The number of     *)
(* deliveries is then bounded by the recorded id and one delivery for each *)
(* broken connection (DeliveriesBounded).                                  *)
(***************************************************************************)
EXTENDS AgentRuns, RunEventStream, FiniteSetTheorems, SequenceTheorems, WellFoundedInduction,
        TLAPS

\* A handler that works for one of the jobs there are.
HandlerRow == [job : Nat \ {0}, attempt : 1..MaxAttempts,
               at : {"prepare", "start", "graph", "persist", "mark", "return", "raise"},
               seen : Checkpoint, outcome : {"none", "WAITING_CONFIRMATION"} \cup Terminal,
               draft : Drafts, action : Actions, of : Runs]

Typed ==
    /\ setting \in Settings
    /\ run \in [Runs -> RunRow]
    /\ events \in [Runs -> Seq(Event)]
    /\ jobs \in Seq(JobRow)
    /\ handlers \subseteq HandlerRow
    /\ checkpoint \in [Runs -> Checkpoint]
    /\ drafts \in Drafts
    /\ faults \in 0..setting.faults
    /\ \A h \in handlers : h.job \in DOMAIN jobs

\* The type of the event that announced a status.
Fits(s, ty) ==
    \/ s = "QUEUED" /\ ty \in {"RUN_QUEUED", "RUN_RESUME_QUEUED"}
    \/ s = "RUNNING" /\ ty \in {"RUN_STARTED", "RUN_RESUMED"}
    \/ s = "WAITING_CONFIRMATION" /\ ty = "WAITING_CONFIRMATION"
    \/ s \in Terminal /\ ty = TerminalEvent[s]
LogFits ==
    \A r \in Runs :
        /\ run[r].status = "ABSENT" => events[r] = <<>>
        /\ run[r].status # "ABSENT" => events[r] # <<>> /\ Fits(run[r].status, LastType(r))

\* RUN_QUEUED is the first event of a log and only that.
QueuedFirst ==
    \A r \in Runs : \A i \in 1..Len(events[r]) : events[r][i].type = "RUN_QUEUED" <=> i = 1

\* Jobs are of runs that were created, and a pending one has an attempt left.
JobsSane ==
    \A j \in DOMAIN jobs :
        /\ run[jobs[j].run].status # "ABSENT"
        /\ jobs[j].status = "PENDING" => jobs[j].attempts < MaxAttempts

\* A run has one EXECUTE job.
OneExecuteJob ==
    \A i, j \in DOMAIN jobs :
        jobs[i].type = "EXECUTE" /\ jobs[j].type = "EXECUTE" /\ jobs[i].run = jobs[j].run => i = j

\* A graph that ended has an outcome.
OutcomesKnown ==
    /\ \A h \in handlers :
          /\ h.at = "persist" => h.outcome # "none"
          /\ h.seen.at = "done" => h.seen.outcome # "none"
    /\ \A t \in Runs : checkpoint[t].at = "done" => checkpoint[t].outcome # "none"

RunsInv ==
    Typed /\ LogFits /\ QueuedFirst /\ JobsSane /\ OneExecuteJob /\ OutcomesKnown

-----------------------------------------------------------------------------
(* The status and the log of a run. *)

\* Run r gets status s, announced by event e; the other runs keep theirs.
Advances(r, s, e) ==
    /\ run[r].status \notin Terminal \cup {"ABSENT"}
    /\ s \in RunStates /\ e \in Event
    /\ Fits(s, e.type) /\ e.type # "RUN_QUEUED"
    /\ SetStatus(r, s)
    /\ append_event(r, e)

\* What an appended event leaves of a log.
LEMMA Appended ==
    ASSUME Typed, NEW r \in Runs, NEW e \in Event, append_event(r, e)
    PROVE  /\ events' \in [Runs -> Seq(Event)]
           /\ \A q \in Runs \ {r} : events'[q] = events[q]
           /\ Len(events'[r]) = Len(events[r]) + 1
           /\ events'[r][Len(events[r]) + 1] = e
           /\ \A i \in 1..Len(events[r]) : events'[r][i] = events[r][i]
  BY DEF Typed, append_event

LEMMA StatusSet ==
    ASSUME Typed, NEW r \in Runs, NEW s \in RunStates, SetStatus(r, s)
    PROVE  /\ run' \in [Runs -> RunRow]
           /\ \A q \in Runs \ {r} : run'[q] = run[q]
           /\ run'[r].status = s /\ run'[r].mode = run[r].mode /\ run'[r].thread = run[r].thread
           /\ run[r].status = s => run' = run
<1>1. run[r] \in RunRow
  BY DEF Typed
<1>2. [run[r] EXCEPT !.status = s] \in RunRow
  BY <1>1 DEF RunRow
<1>3. run' = [run EXCEPT ![r] = [run[r] EXCEPT !.status = s]]
  BY DEF SetStatus
<1>4. /\ run' \in [Runs -> RunRow]
      /\ \A q \in Runs \ {r} : run'[q] = run[q]
      /\ run'[r] = [run[r] EXCEPT !.status = s]
  BY <1>2, <1>3 DEF Typed
<1>5. run[r].status = s => [run[r] EXCEPT !.status = s] = run[r]
  BY <1>1 DEF RunRow
<1>6. run[r].status = s => run' = run
  BY <1>3, <1>5 DEF Typed
<1>7. QED
  BY <1>1, <1>4, <1>6 DEF RunRow

\* Status and log stay in step.
LEMMA AdvanceFits ==
    ASSUME Typed, LogFits, QueuedFirst, NEW r \in Runs, NEW s, NEW e, Advances(r, s, e)
    PROVE  /\ run' \in [Runs -> RunRow] /\ events' \in [Runs -> Seq(Event)]
           /\ LogFits' /\ QueuedFirst'
<1>1. /\ s \in RunStates /\ e \in Event /\ Fits(s, e.type) /\ e.type # "RUN_QUEUED"
      /\ SetStatus(r, s) /\ append_event(r, e) /\ run[r].status # "ABSENT"
  BY DEF Advances
<1>2. s # "ABSENT"
  BY <1>1 DEF Fits, Terminal
<1>3. events[r] # <<>> /\ Len(events[r]) \in Nat
  BY <1>1 DEF LogFits, Typed
<1>4. LogFits'
  <2>1. run'[r].status = s /\ events'[r] # <<>> /\ LastType(r)' = e.type
    BY <1>1, <1>3, Appended, StatusSet DEF LastType
  <2>2. \A q \in Runs \ {r} : LastType(q)' = LastType(q)
    BY <1>1, Appended DEF LastType
  <2>3. Fits(run'[r].status, LastType(r)')
    BY <1>1, <2>1
  <2>4. QED
    BY <1>1, <1>2, <2>1, <2>2, <2>3, Appended, StatusSet DEF LogFits
<1>5. QueuedFirst'
  <2>1. Len(events[r]) >= 1
    BY <1>3 DEF Typed
  <2>2. \A i \in 1..Len(events'[r]) : events'[r][i].type = "RUN_QUEUED" <=> i = 1
    BY <1>1, <1>3, <2>1, Appended DEF QueuedFirst
  <2>3. \A q \in Runs \ {r} : events'[q] = events[q]
    BY <1>1, Appended
  <2>4. ASSUME NEW q \in Runs
        PROVE  \A i \in 1..Len(events'[q]) : events'[q][i].type = "RUN_QUEUED" <=> i = 1
    BY <2>2, <2>3 DEF QueuedFirst
  <2>5. QED
    BY <2>4 DEF QueuedFirst
<1>6. QED
  BY <1>1, <1>4, <1>5, Appended, StatusSet

\* The last event of a log.
LEMMA LastEvent ==
    ASSUME Typed, LogFits, NEW r \in Runs, run[r].status # "ABSENT"
    PROVE  /\ Len(events[r]) \in Nat /\ Len(events[r]) >= 1
           /\ Len(events[r]) \in DOMAIN events[r] /\ DOMAIN events[r] = 1..Len(events[r])
           /\ Fits(run[r].status, LastType(r))
  BY DEF Typed, LogFits

\* prepare_execute changes a queued run that was never answered, and no other.
LEMMA StartedEffect ==
    ASSUME Typed, LogFits, QueuedFirst, NEW r \in Runs, Executes(r), Started(r)
    PROVE  \/ /\ run[r].status = "RUNNING" /\ LastType(r) = "RUN_STARTED"
              /\ UNCHANGED <<run, events>>
           \/ /\ run[r].status = "QUEUED" /\ LastType(r) = "RUN_QUEUED"
              /\ Advances(r, "RUNNING", Log(r, "RUN_STARTED", 0, "none", r))
<1> DEFINE n == Len(events[r])
<1>1. run[r].status \in {"QUEUED", "RUNNING"}
  BY DEF Executes
<1>2. /\ n \in Nat /\ n >= 1 /\ n \in DOMAIN events[r] /\ DOMAIN events[r] = 1..n
      /\ Fits(run[r].status, LastType(r))
  BY <1>1, LastEvent
<1>3. \A k \in DOMAIN events[r] : events[r][k].type = "RUN_QUEUED" => k = 1
  BY <1>2 DEF QueuedFirst
<1>4. LastType(r) = events[r][n].type
  BY DEF LastType
<1>5. LastType(r) \notin {"RUN_RESUME_QUEUED", "RUN_RESUMED"}
  <2>1. events[r][1].type = "RUN_QUEUED"
    BY <1>2 DEF QueuedFirst
  <2>2. SUFFICES ASSUME LastType(r) \in {"RUN_RESUME_QUEUED", "RUN_RESUMED"} PROVE FALSE
    OBVIOUS
  <2>3. n > 1
    BY <1>2, <1>4, <2>1, <2>2
  <2>4. LaterThan(r, "RUN_RESUME_QUEUED", "RUN_QUEUED") \/ LaterThan(r, "RUN_RESUMED", "RUN_QUEUED")
    BY <1>2, <1>3, <1>4, <2>2, <2>3 DEF LaterThan
  <2>5. QED
    BY <2>4 DEF Executes
<1>6. CASE run[r].status = "RUNNING"
  <2>1. LastType(r) = "RUN_STARTED"
    BY <1>2, <1>5, <1>6 DEF Fits, Terminal
  <2>2. UNCHANGED <<run, events>>
    BY <1>6, StatusSet DEF Started, RunStates
  <2>3. QED
    BY <1>6, <2>1, <2>2
<1>7. CASE run[r].status = "QUEUED"
  <2>1. LastType(r) = "RUN_QUEUED"
    BY <1>2, <1>5, <1>7 DEF Fits, Terminal
  <2>2. n = 1
    BY <1>2, <1>3, <1>4, <2>1
  <2>3. ~LaterThan(r, "RUN_STARTED", "RUN_QUEUED")
    <3>1. \A i \in DOMAIN events[r] : i = n
      BY <1>2, <2>2
    <3>2. \A i \in DOMAIN events[r] : events[r][i].type = "RUN_QUEUED"
      BY <1>4, <2>1, <3>1
    <3>3. QED
      BY <3>2 DEF LaterThan
  <2>4. Advances(r, "RUNNING", Log(r, "RUN_STARTED", 0, "none", r))
    BY <1>7, <2>3, RunsAssumption
       DEF Started, Advances, Log, Event, EventTypes, RunStates, Terminal, Drafts, Actions, Fits
  <2>5. QED
    BY <1>7, <2>1, <2>4
<1>8. QED
  BY <1>1, <1>6, <1>7

\* prepare_resume changes a run whose latest event is the answer, and no other.
LEMMA ResumedEffect ==
    ASSUME Typed, LogFits, QueuedFirst, NEW r \in Runs, Resumes(r), Resumed(r)
    PROVE  \/ /\ run[r].status = "RUNNING" /\ LastType(r) = "RUN_RESUMED"
              /\ UNCHANGED <<run, events>>
           \/ /\ run[r].status = "QUEUED" /\ LastType(r) = "RUN_RESUME_QUEUED"
              /\ Advances(r, "RUNNING", Log(r, "RUN_RESUMED", 0, "none", r))
<1> DEFINE n == Len(events[r])
<1>1. run[r].status \in {"QUEUED", "RUNNING"}
  BY DEF Resumes
<1>2. /\ n \in Nat /\ n >= 1 /\ n \in DOMAIN events[r] /\ DOMAIN events[r] = 1..n
      /\ Fits(run[r].status, LastType(r))
  BY <1>1, LastEvent
<1>3. \A k \in DOMAIN events[r] : events[r][k].type = "RUN_QUEUED" => k = 1
  BY <1>2 DEF QueuedFirst
<1>4. LastType(r) = events[r][n].type
  BY DEF LastType
<1>5. PICK i \in DOMAIN events[r] :
         /\ events[r][i].type = "RUN_RESUME_QUEUED"
         /\ \A k \in DOMAIN events[r] : events[r][k].type = "RUN_STARTED" => k < i
  BY DEF Resumes, LaterThan
<1>6. LastType(r) \notin {"RUN_STARTED", "RUN_QUEUED"}
  BY <1>2, <1>3, <1>4, <1>5
<1>7. CASE run[r].status = "RUNNING"
  <2>1. LastType(r) = "RUN_RESUMED"
    BY <1>2, <1>6, <1>7 DEF Fits, Terminal
  <2>2. LaterThan(r, "RUN_RESUMED", "RUN_RESUME_QUEUED")
    <3>1. \A k \in DOMAIN events[r] : events[r][k].type = "RUN_RESUME_QUEUED" => k < n
      <4>1. \A k \in DOMAIN events[r] : events[r][k].type = "RUN_RESUME_QUEUED" => k # n
        BY <1>4, <2>1
      <4>2. QED
        BY <1>2, <4>1
    <3>2. QED
      BY <1>2, <1>4, <2>1, <3>1 DEF LaterThan
  <2>3. UNCHANGED <<run, events>>
    BY <1>7, <2>2, StatusSet DEF Resumed, RunStates
  <2>4. QED
    BY <1>7, <2>1, <2>3
<1>8. CASE run[r].status = "QUEUED"
  <2>1. LastType(r) = "RUN_RESUME_QUEUED"
    BY <1>2, <1>6, <1>8 DEF Fits, Terminal
  <2>2. ~LaterThan(r, "RUN_RESUMED", "RUN_RESUME_QUEUED")
    <3>1. n \in DOMAIN events[r] /\ events[r][n].type = "RUN_RESUME_QUEUED"
      BY <1>2, <1>4, <2>1
    <3>2. \A k \in DOMAIN events[r] : ~(n < k)
      BY <1>2
    <3>3. QED
      BY <3>1, <3>2 DEF LaterThan
  <2>3. Advances(r, "RUNNING", Log(r, "RUN_RESUMED", 0, "none", r))
    BY <1>8, <2>2, RunsAssumption
       DEF Resumed, Advances, Log, Event, EventTypes, RunStates, Terminal, Drafts, Actions, Fits
  <2>4. QED
    BY <1>8, <2>1, <2>3
<1>9. QED
  BY <1>1, <1>7, <1>8

\* The event persist_outcome appends for handler h.
OutcomeEvent(h) ==
    Log(RunOf(h), IF h.outcome = "WAITING_CONFIRMATION" THEN h.outcome
                  ELSE TerminalEvent[h.outcome], h.draft, "none", h.of)

LEMMA PersistedEffect ==
    ASSUME Typed, JobsSane, NEW h \in handlers, RunOf(h) \in Runs,
           h.outcome \in {"WAITING_CONFIRMATION"} \cup Terminal, Persisted(h)
    PROVE  \/ UNCHANGED <<run, events>>
           \/ /\ run[RunOf(h)].status \in {"QUEUED", "RUNNING"}
              /\ Advances(RunOf(h), h.outcome, OutcomeEvent(h))
<1> DEFINE r == RunOf(h)
<1>1. run[r].status \in RunStates /\ run[r].status # "ABSENT"
  BY DEF Typed, JobsSane, RunOf, RunRow
<1>2. h.draft \in Drafts /\ h.of \in Runs
  BY DEF Typed, HandlerRow
<1>3. CASE ~Persists(h, r)
  BY <1>3 DEF Persisted
<1>4. CASE Persists(h, r)
  <2>1. run[r].status \in {"QUEUED", "RUNNING"}
    BY <1>1, <1>4 DEF Persists, RunStates
  <2>2. OutcomeEvent(h) \in Event
    BY <1>2 DEF OutcomeEvent, Log, Event, EventTypes, Actions, Terminal, TerminalEvent
  <2>3. Fits(h.outcome, OutcomeEvent(h).type) /\ OutcomeEvent(h).type # "RUN_QUEUED"
    BY DEF OutcomeEvent, Log, Fits, Terminal, TerminalEvent
  <2>4. SetStatus(r, h.outcome) /\ append_event(r, OutcomeEvent(h))
    BY <1>4 DEF Persisted, OutcomeEvent
  <2>5. h.outcome \in RunStates
    BY DEF RunStates
  <2>6. QED
    BY <2>1, <2>2, <2>3, <2>4, <2>5 DEF Advances, Terminal
<1>5. QED
  BY <1>3, <1>4

LEMMA MarkedEffect ==
    ASSUME Typed, JobsSane, NEW h \in handlers, RunOf(h) \in Runs, Marked(h)
    PROVE  \/ UNCHANGED <<run, events>>
           \/ Advances(RunOf(h), "FAILED", Log(RunOf(h), "RUN_FAILED", 0, "none", RunOf(h)))
<1> DEFINE r == RunOf(h)
<1>1. run[r].status \in RunStates /\ run[r].status # "ABSENT"
  BY DEF Typed, JobsSane, RunOf, RunRow
<1>2. CASE run[r].status \in Terminal
  BY <1>2 DEF Marked
<1>3. CASE run[r].status \notin Terminal
  BY <1>1, <1>3, RunsAssumption
     DEF Marked, Advances, Log, Event, EventTypes, RunStates, Terminal, TerminalEvent, Drafts,
         Actions, Fits
<1>4. QED
  BY <1>2, <1>3

\* A log that has an event of a type has a latest one.
LEMMA LatestExists ==
    ASSUME Typed, NEW r \in Runs, NEW a, HasEvent(r, a)
    PROVE  /\ LatestIndex(r, a) \in DOMAIN events[r] /\ events[r][LatestIndex(r, a)].type = a
           /\ \A k \in DOMAIN events[r] : events[r][k].type = a => k <= LatestIndex(r, a)
<1> DEFINE n == Len(events[r])
           T == {n - i : i \in {k \in 1..n : events[r][k].type = a}}
           R == OpToRel(<, Nat)
<1>1. n \in Nat /\ DOMAIN events[r] = 1..n
  BY DEF Typed
<1>2. T \subseteq Nat /\ T # {}
  <2>1. \A i \in 1..n : n - i \in Nat
    BY <1>1
  <2>2. PICK i \in 1..n : events[r][i].type = a
    BY <1>1 DEF HasEvent
  <2>3. n - i \in T
    BY <2>2
  <2> HIDE DEF n
  <2>4. QED
    BY <2>1, <2>3
<1>3. PICK m \in T : \A y \in T : ~(<<y, m>> \in R)
  <2>1. IsWellFoundedOn(R, Nat)
    BY NatLessThanWellFounded
  <2> HIDE DEF T, R
  <2>2. QED
    BY <1>2, <2>1, WFMin
<1>4. \A y \in T : m <= y
  <2>1. ASSUME NEW y \in T, y < m PROVE FALSE
    <3>1. y \in Nat /\ m \in Nat
      BY <1>2
    <3>2. <<y, m>> \in R
      BY <2>1, <3>1 DEF OpToRel
    <3>3. QED
      BY <1>3, <3>2
  <2>2. \A y \in T : y \in Nat /\ m \in Nat
    BY <1>2
  <2> HIDE DEF T
  <2>3. QED
    BY <2>1, <2>2
<1>5. PICK i \in 1..n : events[r][i].type = a /\ m = n - i
  BY <1>3
<1>6. \A k \in 1..n : events[r][k].type = a => k <= i
  <2>1. ASSUME NEW k \in 1..n, events[r][k].type = a PROVE k <= i
    <3>1. n - k \in T
      BY <2>1
    <3>2. n - i <= n - k
      BY <1>4, <1>5, <3>1
    <3> HIDE DEF n, T
    <3>3. QED
      BY <1>1, <3>2
  <2>2. QED
    BY <2>1
<1>7. QED
  BY <1>1, <1>5, <1>6 DEF LatestIndex

\* The run of a handler.
LEMMA RunOfHandler ==
    ASSUME Typed, NEW h \in handlers
    PROVE  /\ h \in HandlerRow /\ h.job \in DOMAIN jobs /\ jobs[h.job] \in JobRow
           /\ RunOf(h) \in Runs /\ RunOf(h) = jobs[h.job].run
<1>1. h \in HandlerRow /\ h.job \in DOMAIN jobs
  BY DEF Typed
<1>2. jobs[h.job] \in JobRow
  BY <1>1 DEF Typed
<1>3. QED
  BY <1>1, <1>2 DEF RunOf, JobRow

\* What a step does to the runs and their logs.
LEMMA RunChange ==
    ASSUME RunsInv, RunsNext
    PROVE  \/ UNCHANGED <<run, events>>
           \/ \E r \in Runs, mode \in Modes, thread \in Runs : CreateRun(r, mode, thread)
           \/ \E r \in Runs, s \in RunStates, e \in Event : Advances(r, s, e)
<1> DEFINE Changes == \E r \in Runs, s \in RunStates, e \in Event : Advances(r, s, e)
<1> USE DEF RunsInv
<1>1. ASSUME NEW r \in Runs, NEW action \in {"CONFIRM", "CANCEL"}, NEW d \in Drafts,
             ResumeRun(r, action, d)
      PROVE  Changes
  <2>1. Advances(r, "QUEUED", Log(r, "RUN_RESUME_QUEUED", d, action, r))
    BY <1>1 DEF ResumeRun, Advances, Log, Event, EventTypes, RunStates, Terminal, Actions, Fits
  <2>2. QED
    BY <2>1 DEF Advances
<1>2. ASSUME NEW h \in handlers, PrepareExecute(h)
      PROVE  UNCHANGED <<run, events>> \/ Changes
  <2>1. CASE Executes(RunOf(h)) /\ Started(RunOf(h))
    BY <2>1, RunOfHandler, StartedEffect DEF Advances
  <2>2. QED
    BY <1>2, <2>1 DEF PrepareExecute
<1>3. ASSUME NEW h \in handlers, PrepareResume(h)
      PROVE  UNCHANGED <<run, events>> \/ Changes
  <2>1. CASE Resumes(RunOf(h)) /\ Resumed(RunOf(h))
    BY <2>1, RunOfHandler, ResumedEffect DEF Advances
  <2>2. QED
    BY <1>3, <2>1 DEF PrepareResume
<1>4. ASSUME NEW h \in handlers, h.at = "persist", Persisted(h)
      PROVE  UNCHANGED <<run, events>> \/ Changes
  <2>1. h.outcome \in {"WAITING_CONFIRMATION"} \cup Terminal
    BY <1>4, RunOfHandler DEF OutcomesKnown, HandlerRow
  <2>2. QED
    BY <1>4, <2>1, RunOfHandler, PersistedEffect DEF Advances
<1>5. ASSUME NEW h \in handlers, Marked(h)
      PROVE  UNCHANGED <<run, events>> \/ Changes
  BY <1>5, RunOfHandler, MarkedEffect DEF Advances
<1>6. ASSUME NEW h \in handlers, HandlerStep(h)
      PROVE  UNCHANGED <<run, events>> \/ Changes
  BY <1>2, <1>3, <1>4, <1>5, <1>6
     DEF HandlerStep, StartGraph, Execute, Resume, GraphRaises, PersistOutcome, MarkFinalFailure,
         Return, Raise
<1>7. ASSUME NEW h \in handlers, TransactionFails(h)
      PROVE  UNCHANGED <<run, events>> \/ Changes
  <2>1. CASE Executes(RunOf(h)) /\ Started(RunOf(h))
    BY <2>1, RunOfHandler, StartedEffect DEF Advances
  <2>2. CASE Resumes(RunOf(h)) /\ Resumed(RunOf(h))
    BY <2>2, RunOfHandler, ResumedEffect DEF Advances
  <2>3. QED
    BY <1>4, <1>5, <1>7, <2>1, <2>2 DEF TransactionFails
<1>8. QED
  BY <1>1, <1>6, <1>7 DEF RunsNext, Claim, Reap

\* Status and log of the runs after a step.
LEMMA RunsFit ==
    ASSUME RunsInv, RunsNext
    PROVE  /\ run' \in [Runs -> RunRow] /\ events' \in [Runs -> Seq(Event)]
           /\ LogFits' /\ QueuedFirst'
           /\ \A r \in Runs : run[r].status # "ABSENT" => run'[r].status # "ABSENT"
           /\ \A r \in Runs : run[r].status \in Terminal =>
                 run'[r] = run[r] /\ events'[r] = events[r]
<1>1. Typed /\ LogFits /\ QueuedFirst
  BY DEF RunsInv
<1>2. CASE UNCHANGED <<run, events>>
  BY <1>1, <1>2 DEF Typed, LogFits, QueuedFirst, LastType
<1>3. CASE \E r \in Runs, mode \in Modes, thread \in Runs : CreateRun(r, mode, thread)
  <2>1. PICK r \in Runs, mode \in Modes, thread \in Runs : CreateRun(r, mode, thread)
    BY <1>3
  <2> DEFINE row == [status |-> "QUEUED", mode |-> mode, thread |-> thread]
             e == Log(r, "RUN_QUEUED", 0, "none", r)
  <2>2. row \in RunRow /\ e \in Event
    BY RunsAssumption
       DEF RunRow, RunStates, Terminal, Event, Log, EventTypes, Drafts, Actions
  <2>3. run[r].status = "ABSENT" /\ events[r] = <<>>
    BY <1>1, <2>1 DEF CreateRun, LogFits
  <2>4. run' = [run EXCEPT ![r] = row] /\ append_event(r, e)
    BY <2>1 DEF CreateRun
  <2>5. e.type = "RUN_QUEUED" /\ row.status = "QUEUED"
    BY DEF Log
  <2> HIDE DEF row, e
  <2>6. /\ events' \in [Runs -> Seq(Event)] /\ \A q \in Runs \ {r} : events'[q] = events[q]
        /\ Len(events'[r]) = 1 /\ events'[r][1] = e
    <3>1. Len(events[r]) = 0
      BY <2>3
    <3>2. /\ events' \in [Runs -> Seq(Event)] /\ \A q \in Runs \ {r} : events'[q] = events[q]
          /\ Len(events'[r]) = Len(events[r]) + 1 /\ events'[r][Len(events[r]) + 1] = e
      BY <1>1, <2>2, <2>4, Appended
    <3>3. Len(events[r]) + 1 = 1
      BY <3>1
    <3>4. QED
      BY <3>2, <3>3
  <2>7. /\ run' \in [Runs -> RunRow] /\ run'[r] = row
        /\ \A q \in Runs \ {r} : run'[q] = run[q]
    BY <1>1, <2>2, <2>4 DEF Typed
  <2>8. LogFits'
    <3>1. LastType(r)' = "RUN_QUEUED"
      BY <2>5, <2>6 DEF LastType
    <3>2. events'[r] # <<>>
      <4>1. Len(<< >>) # 1
        OBVIOUS
      <4>2. QED
        BY <2>6, <4>1
    <3>3. \A q \in Runs \ {r} : LastType(q)' = LastType(q)
      BY <2>6 DEF LastType
    <3>4. ASSUME NEW q \in Runs
          PROVE  /\ run'[q].status = "ABSENT" => events'[q] = <<>>
                 /\ run'[q].status # "ABSENT" =>
                       events'[q] # <<>> /\ Fits(run'[q].status, LastType(q)')
      <4>1. CASE q = r
        <5>1. run'[q].status = "QUEUED"
          BY <2>5, <2>7, <4>1
        <5>2. Fits("QUEUED", "RUN_QUEUED")
          BY DEF Fits
        <5>3. QED
          BY <3>1, <3>2, <4>1, <5>1, <5>2
      <4>2. CASE q # r
        BY <1>1, <2>6, <2>7, <3>3, <4>2 DEF LogFits
      <4>3. QED
        BY <4>1, <4>2
    <3>5. QED
      BY <3>4 DEF LogFits, Fits
  <2>9. QueuedFirst'
    <3>1. ASSUME NEW q \in Runs \ {r}
          PROVE  \A i \in 1..Len(events'[q]) : events'[q][i].type = "RUN_QUEUED" <=> i = 1
      BY <1>1, <2>6 DEF QueuedFirst
    <3>2. \A i \in 1..Len(events'[r]) : i = 1 /\ events'[r][i].type = "RUN_QUEUED"
      BY <2>5, <2>6
    <3>3. QED
      BY <3>1, <3>2 DEF QueuedFirst
  <2>10. QED
    BY <2>3, <2>5, <2>6, <2>7, <2>8, <2>9 DEF Terminal
<1>4. CASE \E r \in Runs, s \in RunStates, e \in Event : Advances(r, s, e)
  <2>1. PICK r \in Runs, s \in RunStates, e \in Event : Advances(r, s, e)
    BY <1>4
  <2>2. s # "ABSENT" /\ run[r].status \notin Terminal
    BY <2>1 DEF Advances, Fits, Terminal
  <2>3. \A q \in Runs \ {r} : run'[q] = run[q] /\ events'[q] = events[q]
    BY <1>1, <2>1, StatusSet, Appended DEF Advances
  <2>4. run'[r].status = s
    BY <1>1, <2>1, StatusSet DEF Advances
  <2>5. QED
    BY <1>1, <2>1, <2>2, <2>3, <2>4, AdvanceFits
<1>5. QED
  BY <1>2, <1>3, <1>4, RunChange

-----------------------------------------------------------------------------
(* The jobs. *)

LEMMA JobUpdated ==
    ASSUME Typed, NEW j \in DOMAIN jobs, NEW row \in JobRow, jobs' = [jobs EXCEPT ![j] = row]
    PROVE  /\ jobs' \in Seq(JobRow) /\ DOMAIN jobs' = DOMAIN jobs
           /\ jobs'[j] = row
           /\ \A i \in DOMAIN jobs \ {j} : jobs'[i] = jobs[i]
<1>1. jobs \in Seq(JobRow)
  BY DEF Typed
<1>2. jobs' \in Seq(JobRow)
  BY <1>1
<1>3. QED
  BY <1>1, <1>2

LEMMA JobSet ==
    ASSUME Typed, NEW j \in DOMAIN jobs, NEW s \in {"PENDING", "RUNNING", "SUCCEEDED", "FAILED"},
           SetJob(j, s)
    PROVE  /\ jobs' \in Seq(JobRow) /\ DOMAIN jobs' = DOMAIN jobs
           /\ \A i \in DOMAIN jobs \ {j} : jobs'[i] = jobs[i]
           /\ jobs'[j].run = jobs[j].run /\ jobs'[j].type = jobs[j].type
           /\ jobs'[j].status = s /\ jobs'[j].attempts = jobs[j].attempts
<1> DEFINE row == [jobs[j] EXCEPT !.status = s]
<1>1. jobs[j] \in JobRow
  BY DEF Typed
<1>2. row \in JobRow
  BY <1>1 DEF JobRow
<1>3. jobs' = [jobs EXCEPT ![j] = row]
  BY DEF SetJob
<1>4. /\ row.run = jobs[j].run /\ row.type = jobs[j].type
      /\ row.status = s /\ row.attempts = jobs[j].attempts
  BY <1>1 DEF JobRow
<1> HIDE DEF row
<1>5. QED
  BY <1>2, <1>3, <1>4, JobUpdated

LEMMA JobClaimed ==
    ASSUME Typed, JobsSane, NEW j \in DOMAIN jobs, Claim(j)
    PROVE  /\ jobs' \in Seq(JobRow) /\ DOMAIN jobs' = DOMAIN jobs
           /\ \A i \in DOMAIN jobs \ {j} : jobs'[i] = jobs[i]
           /\ jobs'[j].run = jobs[j].run /\ jobs'[j].type = jobs[j].type
           /\ jobs'[j].status = "RUNNING" /\ jobs'[j].attempts = jobs[j].attempts + 1
           /\ jobs[j].attempts + 1 \in 1..MaxAttempts
<1> DEFINE row == [jobs[j] EXCEPT !.status = "RUNNING", !.attempts = @ + 1]
<1>1. jobs[j] \in JobRow
  BY DEF Typed
<1>2. jobs[j].attempts \in 0..MaxAttempts /\ jobs[j].attempts < MaxAttempts
  BY <1>1 DEF Claim, JobsSane, JobRow
<1>3. jobs[j].attempts + 1 \in 1..MaxAttempts
  BY <1>2, RunsAssumption
<1>4. row \in JobRow
  <2>1. jobs[j].attempts + 1 \in 0..MaxAttempts
    BY <1>2, <1>3
  <2>2. QED
    BY <1>1, <2>1 DEF JobRow
<1>5. jobs' = [jobs EXCEPT ![j] = row]
  BY DEF Claim
<1>6. /\ row.run = jobs[j].run /\ row.type = jobs[j].type
      /\ row.status = "RUNNING" /\ row.attempts = jobs[j].attempts + 1
  BY <1>1 DEF JobRow
<1> HIDE DEF row
<1>7. QED
  BY <1>3, <1>4, <1>5, <1>6, JobUpdated

LEMMA JobAdded ==
    ASSUME Typed, NEW r \in Runs, NEW ty \in {"EXECUTE", "RESUME"}, Enqueue(r, ty)
    PROVE  /\ jobs' \in Seq(JobRow) /\ Len(jobs') = Len(jobs) + 1
           /\ DOMAIN jobs = 1..Len(jobs) /\ DOMAIN jobs' = 1..(Len(jobs) + 1)
           /\ \A i \in DOMAIN jobs : jobs'[i] = jobs[i]
           /\ jobs'[Len(jobs) + 1] =
                 [run |-> r, type |-> ty, status |-> "PENDING", attempts |-> 0]
<1> DEFINE row == [run |-> r, type |-> ty, status |-> "PENDING", attempts |-> 0]
<1>1. row \in JobRow
  BY RunsAssumption DEF JobRow
<1>2. jobs' = Append(jobs, row) /\ jobs \in Seq(JobRow)
  BY DEF Enqueue, Typed
<1> HIDE DEF row
<1>3. QED
  BY <1>1, <1>2 DEF row

\* What a step does to the jobs.
LEMMA JobChange ==
    ASSUME RunsInv, RunsNext
    PROVE  \/ UNCHANGED jobs
           \/ \E r \in Runs, ty \in {"EXECUTE", "RESUME"} :
                 /\ Enqueue(r, ty) /\ run'[r].status # "ABSENT"
                 /\ ty = "EXECUTE" => run[r].status = "ABSENT"
           \/ \E j \in DOMAIN jobs, s \in {"PENDING", "SUCCEEDED", "FAILED"} :
                 SetJob(j, s) /\ (s = "PENDING" => jobs[j].attempts < MaxAttempts)
           \/ \E j \in DOMAIN jobs : Claim(j)
<1> DEFINE Settles == \E j \in DOMAIN jobs, s \in {"PENDING", "SUCCEEDED", "FAILED"} :
                 SetJob(j, s) /\ (s = "PENDING" => jobs[j].attempts < MaxAttempts)
           Adds == \E r \in Runs, ty \in {"EXECUTE", "RESUME"} :
                 /\ Enqueue(r, ty) /\ run'[r].status # "ABSENT"
                 /\ ty = "EXECUTE" => run[r].status = "ABSENT"
<1>1. Typed /\ JobsSane
  BY DEF RunsInv
<1>2. ASSUME NEW r \in Runs, NEW mode \in Modes, NEW thread \in Runs, CreateRun(r, mode, thread)
      PROVE  Adds
  BY <1>1, <1>2 DEF CreateRun, Typed
<1>3. ASSUME NEW r \in Runs, NEW action \in {"CONFIRM", "CANCEL"}, NEW d \in Drafts,
             ResumeRun(r, action, d)
      PROVE  Adds
  BY <1>1, <1>3, StatusSet DEF ResumeRun, RunStates
<1>4. ASSUME NEW j \in DOMAIN jobs, Reap(j)
      PROVE  Settles
  BY <1>4 DEF Reap, should_retry
<1>5. ASSUME NEW h \in handlers, Return(h)
      PROVE  UNCHANGED jobs \/ Settles
  BY <1>1, <1>5, RunOfHandler DEF Return
<1>6. ASSUME NEW h \in handlers, Raise(h)
      PROVE  UNCHANGED jobs \/ Settles
  BY <1>1, <1>6, RunOfHandler DEF Raise, Current, should_retry
<1>7. ASSUME NEW h \in handlers, HandlerStep(h)
      PROVE  UNCHANGED jobs \/ Settles
  BY <1>5, <1>6, <1>7
     DEF HandlerStep, PrepareExecute, PrepareResume, StartGraph, Execute, Resume, GraphRaises,
         PersistOutcome, MarkFinalFailure
<1>8. QED
  BY <1>2, <1>3, <1>4, <1>7 DEF RunsNext, TransactionFails

\* The jobs after a step: none disappears or changes hands.
LEMMA JobsFit ==
    ASSUME RunsInv, RunsNext
    PROVE  /\ jobs' \in Seq(JobRow) /\ JobsSane' /\ OneExecuteJob'
           /\ \A j \in DOMAIN jobs :
                 /\ j \in DOMAIN jobs'
                 /\ jobs'[j].run = jobs[j].run /\ jobs'[j].type = jobs[j].type
<1>1. Typed /\ JobsSane /\ OneExecuteJob
  BY DEF RunsInv
<1>2. \A r \in Runs : run[r].status # "ABSENT" => run'[r].status # "ABSENT"
  BY RunsFit
<1>3. \A j \in DOMAIN jobs : jobs[j].run \in Runs
  <2>1. \A j \in DOMAIN jobs : jobs[j] \in JobRow
    BY <1>1 DEF Typed
  <2>2. QED
    BY <2>1 DEF JobRow
<1>4. CASE UNCHANGED jobs
  BY <1>1, <1>2, <1>3, <1>4 DEF Typed, JobsSane, OneExecuteJob
<1>5. CASE \E r \in Runs, ty \in {"EXECUTE", "RESUME"} :
              /\ Enqueue(r, ty) /\ run'[r].status # "ABSENT"
              /\ ty = "EXECUTE" => run[r].status = "ABSENT"
  <2>1. PICK r \in Runs, ty \in {"EXECUTE", "RESUME"} :
           /\ Enqueue(r, ty) /\ run'[r].status # "ABSENT"
           /\ ty = "EXECUTE" => run[r].status = "ABSENT"
    BY <1>5
  <2> DEFINE n == Len(jobs)
  <2>2. /\ jobs' \in Seq(JobRow) /\ n \in Nat
        /\ DOMAIN jobs = 1..n /\ DOMAIN jobs' = 1..(n + 1)
        /\ \A i \in DOMAIN jobs : jobs'[i] = jobs[i]
        /\ jobs'[n + 1] = [run |-> r, type |-> ty, status |-> "PENDING", attempts |-> 0]
    <3>1. n \in Nat
      BY <1>1 DEF Typed
    <3>2. QED
      BY <1>1, <2>1, <3>1, JobAdded
  <2> HIDE DEF n
  <2>3. \A j \in DOMAIN jobs' : j \in DOMAIN jobs \/ j = n + 1
    BY <2>2
  <2>4. 0 < MaxAttempts
    BY RunsAssumption
  <2>5. JobsSane'
    BY <1>1, <1>2, <1>3, <2>1, <2>2, <2>3, <2>4 DEF JobsSane
  <2>6. OneExecuteJob'
    <3>1. ty = "EXECUTE" => \A i \in DOMAIN jobs : jobs[i].run # r
      BY <1>1, <2>1 DEF JobsSane
    <3>2. QED
      BY <1>1, <2>2, <2>3, <3>1 DEF OneExecuteJob
  <2>7. QED
    BY <2>2, <2>5, <2>6
<1>6. CASE \E j \in DOMAIN jobs, s \in {"PENDING", "SUCCEEDED", "FAILED"} :
              SetJob(j, s) /\ (s = "PENDING" => jobs[j].attempts < MaxAttempts)
  <2>1. PICK j \in DOMAIN jobs, s \in {"PENDING", "SUCCEEDED", "FAILED"} :
           SetJob(j, s) /\ (s = "PENDING" => jobs[j].attempts < MaxAttempts)
    BY <1>6
  <2>2. /\ jobs' \in Seq(JobRow) /\ DOMAIN jobs' = DOMAIN jobs
        /\ \A i \in DOMAIN jobs \ {j} : jobs'[i] = jobs[i]
        /\ jobs'[j].run = jobs[j].run /\ jobs'[j].type = jobs[j].type
        /\ jobs'[j].status = s /\ jobs'[j].attempts = jobs[j].attempts
    BY <1>1, <2>1, JobSet
  <2>3. OneExecuteJob'
    BY <1>1, <2>2 DEF OneExecuteJob
  <2>4. QED
    BY <1>1, <1>2, <1>3, <2>1, <2>2, <2>3 DEF JobsSane
<1>7. CASE \E j \in DOMAIN jobs : Claim(j)
  <2>1. PICK j \in DOMAIN jobs : Claim(j)
    BY <1>7
  <2>2. /\ jobs' \in Seq(JobRow) /\ DOMAIN jobs' = DOMAIN jobs
        /\ \A i \in DOMAIN jobs \ {j} : jobs'[i] = jobs[i]
        /\ jobs'[j].run = jobs[j].run /\ jobs'[j].type = jobs[j].type
        /\ jobs'[j].status = "RUNNING"
    BY <1>1, <2>1, JobClaimed
  <2>3. OneExecuteJob'
    BY <1>1, <2>2 DEF OneExecuteJob
  <2>4. QED
    BY <1>1, <1>2, <1>3, <2>2, <2>3 DEF JobsSane
<1>8. QED
  BY <1>4, <1>5, <1>6, <1>7, JobChange

-----------------------------------------------------------------------------
(* The handlers and the checkpoints. *)

SoundCheckpoint(c) == c \in Checkpoint /\ (c.at = "done" => c.outcome # "none")
SoundHandler(h) ==
    /\ h \in HandlerRow
    /\ h.at = "persist" => h.outcome # "none"
    /\ SoundCheckpoint(h.seen)

\* A handler takes a step and stays the handler of its job and attempt.
Continues(h, g) ==
    /\ Becomes(h, g)
    /\ SoundHandler(g) /\ g.job = h.job /\ g.attempt = h.attempt

LEMMA StepContinues ==
    ASSUME NEW h, SoundHandler(h),
           NEW a \in {"prepare", "start", "graph", "mark", "return", "raise"}, Step(h, a)
    PROVE  \E g \in HandlerRow : Continues(h, g) /\ g.at = a /\ g.seen = h.seen
<1> DEFINE g == [h EXCEPT !.at = a]
<1>1. h \in HandlerRow
  BY DEF SoundHandler
<1>2. g \in HandlerRow
  BY <1>1 DEF HandlerRow
<1>3. g.at = a /\ g.seen = h.seen /\ g.job = h.job /\ g.attempt = h.attempt
  BY <1>1 DEF HandlerRow
<1>4. Becomes(h, g)
  BY DEF Step
<1> HIDE DEF g
<1>5. Continues(h, g)
  BY <1>2, <1>3, <1>4 DEF SoundHandler, Continues
<1>6. QED
  BY <1>2, <1>3, <1>5

\* The checkpoint of a thread is replaced.
LEMMA CheckpointSet ==
    ASSUME Typed, OutcomesKnown, NEW t \in Runs, NEW c, SoundCheckpoint(c),
           checkpoint' = [checkpoint EXCEPT ![t] = c]
    PROVE  /\ checkpoint' \in [Runs -> Checkpoint] /\ \A q \in Runs : SoundCheckpoint(checkpoint'[q])
           /\ checkpoint'[t] = c /\ \A q \in Runs \ {t} : checkpoint'[q] = checkpoint[q]
  BY DEF Typed, OutcomesKnown, SoundCheckpoint

\* A handler between prepare and its end, and whether its run is at its event.
Active(h) == h.at \in {"start", "graph", "persist", "mark"}
AtWork(h) ==
    /\ run[RunOf(h)].status = "RUNNING"
    /\ LastType(RunOf(h)) = IF Kind(h, "EXECUTE") THEN "RUN_STARTED" ELSE "RUN_RESUMED"

\* A checkpoint before the confirmation, and one that waits with a draft.
Fresh(c) == c.at = "midway" /\ c.draft = 0
Named(c) == c.at = "interrupted" => c.draft # 0
Waits(h) == h.at = "persist" /\ h.outcome = "WAITING_CONFIRMATION"

\* The log of the run: prepare begins it, persist_outcome and mark_final_failure end it.
Begins(h) ==
    \E e \in Event :
        /\ Advances(RunOf(h), "RUNNING", e)
        /\ run[RunOf(h)].status = "QUEUED"
        /\ \/ Kind(h, "EXECUTE") /\ LastType(RunOf(h)) = "RUN_QUEUED" /\ e.type = "RUN_STARTED"
           \/ Kind(h, "RESUME") /\ LastType(RunOf(h)) = "RUN_RESUME_QUEUED" /\ e.type = "RUN_RESUMED"
Ends(h) ==
    \E s \in {"WAITING_CONFIRMATION"} \cup Terminal, e \in Event :
        /\ Advances(RunOf(h), s, e)
        /\ s = "WAITING_CONFIRMATION" => Waits(h) /\ e.draft = h.draft
MovesLog(h, g) ==
    \/ UNCHANGED <<run, events>> /\ (Active(g) => Active(h) \/ AtWork(h))
    \/ Begins(h) /\ ~Active(h)
    \/ /\ Ends(h) /\ Active(h) /\ ~Active(g)
       /\ setting.faults = 0 /\ Waits(h) => g.at = "return"

\* The checkpoint of the thread, and what the handler takes from it.
MovesGraph(h, g) ==
    /\ \/ UNCHANGED checkpoint
       \/ /\ Active(h) /\ UNCHANGED <<run, events>>
          /\ \E c : /\ SoundCheckpoint(c) /\ Named(c)
                    /\ checkpoint' = [checkpoint EXCEPT ![Thread(h)] = c]
                    /\ Named(h.seen) /\ Fresh(c) => Kind(h, "EXECUTE")
    /\ g.seen = h.seen \/ (Active(h) /\ g.seen = checkpoint[Thread(h)])
    /\ g.at = "graph" /\ Kind(h, "RESUME") => Active(h) /\ g.seen = checkpoint[Thread(h)]
    /\ Waits(g) =>
          /\ h.at = "graph" /\ checkpoint'[Thread(h)].at = "interrupted"
          /\ Kind(h, "EXECUTE") \/ (Kind(h, "RESUME") /\ Fresh(h.seen))
    /\ IF Waits(g) THEN drafts' = drafts + 1 /\ g.draft = drafts' ELSE UNCHANGED drafts

\* A step of handler h that makes it g.
Moved(h, g) ==
    /\ Continues(h, g) /\ UNCHANGED jobs
    /\ h.at # "return"
    /\ MovesLog(h, g)
    /\ MovesGraph(h, g)

\* The outcome of a graph run.
LEMMA GraphEndsEffect ==
    ASSUME Typed, NEW h \in handlers, SoundHandler(h), Thread(h) \in Runs, h.at = "graph",
           NEW s \in {"WAITING_CONFIRMATION"} \cup Terminal, NEW d \in Drafts, NEW q \in Runs,
           GraphEnds(h, s, d, q), UNCHANGED <<run, events, jobs>>,
           IF s = "WAITING_CONFIRMATION"
           THEN /\ drafts' = drafts + 1 /\ d = drafts + 1
                /\ Kind(h, "EXECUTE") \/ (Kind(h, "RESUME") /\ Fresh(h.seen))
           ELSE UNCHANGED drafts
    PROVE  \E g \in HandlerRow : Moved(h, g)
<1> DEFINE c == IF s = "WAITING_CONFIRMATION"
                THEN [at |-> "interrupted", of |-> q, draft |-> d, outcome |-> "none"]
                ELSE [at |-> "done", of |-> q, draft |-> d, outcome |-> s]
<1>1. SoundCheckpoint(c) /\ ~Fresh(c)
  BY DEF SoundCheckpoint, Checkpoint, Terminal, Fresh
<1>2. checkpoint' = [checkpoint EXCEPT ![Thread(h)] = c] /\ checkpoint'[Thread(h)] = c
  BY DEF GraphEnds, Typed
<1>3. s = "WAITING_CONFIRMATION" => c.at = "interrupted" /\ d # 0
  BY DEF Typed, Drafts
<1>4. Named(c)
  BY <1>3 DEF Named
<1> HIDE DEF c
<1>5. PICK g \in HandlerRow :
         /\ Continues(h, g)
         /\ g.at = "persist" /\ g.seen = h.seen /\ g.outcome = s /\ g.draft = d
  <2> DEFINE g == [h EXCEPT !.at = "persist", !.outcome = s, !.draft = d, !.of = q]
  <2>1. Becomes(h, g)
    BY DEF GraphEnds
  <2>2. h \in HandlerRow /\ s # "none"
    BY DEF SoundHandler, Terminal
  <2>3. g \in HandlerRow
    BY <2>2 DEF HandlerRow
  <2>4. /\ g.at = "persist" /\ g.outcome = s /\ g.draft = d
        /\ g.seen = h.seen /\ g.job = h.job /\ g.attempt = h.attempt
    BY <2>2 DEF HandlerRow
  <2> HIDE DEF g
  <2>5. QED
    BY <2>1, <2>2, <2>3, <2>4 DEF SoundHandler, Continues
<1>6. Waits(g) <=> s = "WAITING_CONFIRMATION"
  BY <1>5 DEF Waits
<1>7. Active(h) /\ h.at # "return"
  BY DEF Active
<1>8. MovesLog(h, g)
  BY <1>7 DEF MovesLog
<1>9. MovesGraph(h, g)
  BY <1>1, <1>2, <1>3, <1>4, <1>5, <1>6, <1>7 DEF MovesGraph
<1>10. QED
  BY <1>5, <1>7, <1>8, <1>9 DEF Moved

\* What a step does to a handler that goes on.
LEMMA HandlerChange ==
    ASSUME RunsInv, NEW h \in handlers, HandlerStep(h) \/ TransactionFails(h)
    PROVE  Return(h) \/ Raise(h) \/ \E g \in HandlerRow : Moved(h, g)
<1> DEFINE Moves == \E g \in HandlerRow : Moved(h, g)
           r == RunOf(h)
<1>1. Typed /\ OutcomesKnown /\ LogFits /\ QueuedFirst /\ JobsSane
  BY DEF RunsInv
<1>2. h \in HandlerRow /\ r \in Runs
  BY <1>1, RunOfHandler
<1>3. SoundHandler(h) /\ h.seen \in Checkpoint
  BY <1>1, <1>2 DEF OutcomesKnown, SoundHandler, SoundCheckpoint, HandlerRow
<1>4. Thread(h) \in Runs
  <2>1. run[r] \in RunRow
    BY <1>1, <1>2 DEF Typed
  <2>2. QED
    BY <2>1 DEF Thread, RunRow
<1>5. Kind(h, "EXECUTE") \/ Kind(h, "RESUME")
  BY <1>1, RunOfHandler DEF Kind, JobRow
<1>6. drafts \in Drafts /\ setting.drafts \in Drafts
  BY <1>1, RunsAssumption DEF Typed, SettingType
<1>7. ASSUME NEW a \in {"start", "mark", "return", "raise"}, Step(h, a),
             UNCHANGED <<jobs, checkpoint, drafts>>, h.at # "return",
             \A g \in HandlerRow : g.at = a => MovesLog(h, g)
      PROVE  Moves
  <2>1. PICK g \in HandlerRow : Continues(h, g) /\ g.at = a /\ g.seen = h.seen
    BY <1>3, <1>7, StepContinues
  <2>2. ~Waits(g) /\ g.at # "graph"
    BY <2>1 DEF Waits
  <2>3. MovesGraph(h, g)
    BY <1>7, <2>1, <2>2 DEF MovesGraph
  <2>4. QED
    BY <1>7, <2>1, <2>3 DEF Moved
<1>8. ASSUME h.at = "prepare", Kind(h, "EXECUTE"), Executes(r), Started(r)
      PROVE  /\ UNCHANGED <<run, events>> => AtWork(h)
             /\ UNCHANGED <<run, events>> \/ (Begins(h) /\ ~Active(h))
  <2>1. ~Active(h)
    BY <1>8 DEF Active
  <2>2. CASE run[r].status = "RUNNING" /\ LastType(r) = "RUN_STARTED" /\ UNCHANGED <<run, events>>
    BY <1>8, <2>2 DEF AtWork
  <2>3. CASE /\ run[r].status = "QUEUED" /\ LastType(r) = "RUN_QUEUED"
             /\ Advances(r, "RUNNING", Log(r, "RUN_STARTED", 0, "none", r))
    <3>1. run'[r].status = "RUNNING"
      BY <1>1, <1>2, <2>3, StatusSet DEF Advances
    <3>2. Log(r, "RUN_STARTED", 0, "none", r).type = "RUN_STARTED"
      BY DEF Log
    <3>3. Begins(h)
      BY <1>8, <2>3, <3>2 DEF Begins, Advances
    <3>4. QED
      BY <2>1, <2>3, <3>1, <3>3
  <2>4. QED
    BY <1>1, <1>2, <1>8, <2>2, <2>3, StartedEffect
<1>9. ASSUME h.at = "prepare", Kind(h, "RESUME"), Resumes(r), Resumed(r)
      PROVE  /\ UNCHANGED <<run, events>> => AtWork(h)
             /\ UNCHANGED <<run, events>> \/ (Begins(h) /\ ~Active(h))
  <2>1. ~Active(h)
    BY <1>9 DEF Active
  <2>2. CASE run[r].status = "RUNNING" /\ LastType(r) = "RUN_RESUMED" /\ UNCHANGED <<run, events>>
    BY <1>9, <2>2 DEF AtWork, Kind
  <2>3. CASE /\ run[r].status = "QUEUED" /\ LastType(r) = "RUN_RESUME_QUEUED"
             /\ Advances(r, "RUNNING", Log(r, "RUN_RESUMED", 0, "none", r))
    <3>1. run'[r].status = "RUNNING"
      BY <1>1, <1>2, <2>3, StatusSet DEF Advances
    <3>2. Log(r, "RUN_RESUMED", 0, "none", r).type = "RUN_RESUMED"
      BY DEF Log
    <3>3. Begins(h)
      BY <1>9, <2>3, <3>2 DEF Begins, Advances
    <3>4. QED
      BY <2>1, <2>3, <3>1, <3>3
  <2>4. QED
    BY <1>1, <1>2, <1>9, <2>2, <2>3, ResumedEffect
<1>10. ASSUME h.at = "persist", Persisted(h)
       PROVE  UNCHANGED <<run, events>> \/ Ends(h)
  <2>1. h.outcome \in {"WAITING_CONFIRMATION"} \cup Terminal
    BY <1>1, <1>2, <1>10 DEF OutcomesKnown, HandlerRow
  <2>2. OutcomeEvent(h).draft = h.draft
    BY DEF OutcomeEvent, Log
  <2>3. CASE Advances(r, h.outcome, OutcomeEvent(h))
    BY <1>10, <2>1, <2>2, <2>3 DEF Ends, Waits, Advances
  <2>4. QED
    BY <1>1, <1>2, <1>10, <2>1, <2>3, PersistedEffect
<1>11. ASSUME h.at = "mark", Marked(h)
       PROVE  UNCHANGED <<run, events>> \/ Ends(h)
  <2>1. CASE Advances(r, "FAILED", Log(r, "RUN_FAILED", 0, "none", r))
    BY <2>1 DEF Ends, Advances, Terminal
  <2>2. QED
    BY <1>1, <1>2, <1>11, <2>1, MarkedEffect
<1>12. ASSUME NEW s \in Terminal, NEW d \in Drafts, NEW q \in Runs, h.at = "graph",
              GraphEnds(h, s, d, q), UNCHANGED <<run, events, jobs, drafts>>
       PROVE  Moves
  BY <1>1, <1>3, <1>4, <1>12, GraphEndsEffect DEF Terminal
<1>13. ASSUME NEW q \in Runs, h.at = "graph", Interrupts(h, q), UNCHANGED <<run, events, jobs>>,
              Kind(h, "EXECUTE") \/ (Kind(h, "RESUME") /\ Fresh(h.seen))
       PROVE  Moves
  <2>1. drafts + 1 \in Drafts
    BY <1>6, <1>13, RunsAssumption DEF Interrupts, Drafts
  <2>2. GraphEnds(h, "WAITING_CONFIRMATION", drafts + 1, q) /\ drafts' = drafts + 1
    BY <1>13 DEF Interrupts
  <2>3. QED
    BY <1>1, <1>3, <1>4, <1>13, <2>1, <2>2, GraphEndsEffect
<1>14. CASE PrepareExecute(h)
  <2>1. CASE UNCHANGED <<run, events>> /\ Step(h, "return")
    BY <1>7, <1>14, <2>1 DEF PrepareExecute, MovesLog, Active
  <2>2. CASE Executes(r) /\ Step(h, "start") /\ Started(r)
    BY <1>7, <1>8, <1>14, <2>2 DEF PrepareExecute, MovesLog
  <2>3. QED
    BY <1>14, <2>1, <2>2 DEF PrepareExecute
<1>15. CASE PrepareResume(h)
  <2> DEFINE p == events[r][LatestIndex(r, "RUN_RESUME_QUEUED")]
  <2>1. CASE UNCHANGED <<run, events>> /\ Step(h, "return")
    BY <1>7, <1>15, <2>1 DEF PrepareResume, MovesLog, Active
  <2>2. CASE /\ Resumes(r) /\ Resumed(r)
             /\ Becomes(h, [h EXCEPT !.at = "start", !.draft = p.draft, !.action = p.action])
    <3> DEFINE i == LatestIndex(r, "RUN_RESUME_QUEUED")
               g == [h EXCEPT !.at = "start", !.draft = p.draft, !.action = p.action]
    <3>1. i \in DOMAIN events[r]
      BY <1>1, <1>2, <2>2, LatestExists DEF Resumes
    <3>2. p \in Event
      BY <1>1, <1>2, <3>1 DEF Typed
    <3>3. p.draft \in Drafts /\ p.action \in Actions
      BY <3>2 DEF Event
    <3>4. g \in HandlerRow
      BY <1>2, <3>3 DEF HandlerRow
    <3>5. g.at = "start" /\ g.seen = h.seen /\ g.job = h.job /\ g.attempt = h.attempt
      BY <1>2 DEF HandlerRow
    <3>6. Becomes(h, g)
      BY <2>2
    <3> HIDE DEF g
    <3>7. Continues(h, g)
      BY <1>3, <3>4, <3>5, <3>6 DEF Continues, SoundHandler
    <3>8. MovesLog(h, g)
      BY <1>9, <1>15, <2>2 DEF PrepareResume, MovesLog
    <3>9. MovesGraph(h, g)
      BY <1>15, <3>5 DEF PrepareResume, MovesGraph, Waits
    <3>10. QED
      BY <1>15, <3>4, <3>7, <3>8, <3>9 DEF Moved, PrepareResume
  <2>3. QED
    BY <1>15, <2>1, <2>2 DEF PrepareResume
<1>16. CASE StartGraph(h)
  <2>1. Active(h) /\ h.at # "return" /\ UNCHANGED <<run, events, jobs, drafts>>
    BY <1>16 DEF StartGraph, Active
  <2>2. CASE Kind(h, "EXECUTE") /\ Step(h, "graph") /\
             checkpoint' = [checkpoint EXCEPT ![Thread(h)] =
                [at |-> "midway", of |-> r, draft |-> 0, outcome |-> "none"]]
    <3> DEFINE c == [at |-> "midway", of |-> r, draft |-> 0, outcome |-> "none"]
    <3>1. SoundCheckpoint(c) /\ Named(c)
      BY <1>2, RunsAssumption DEF SoundCheckpoint, Checkpoint, Drafts, Named
    <3>2. PICK g \in HandlerRow : Continues(h, g) /\ g.at = "graph" /\ g.seen = h.seen
      BY <1>3, <2>2, StepContinues
    <3>3. ~Waits(g) /\ ~Kind(h, "RESUME")
      BY <2>2, <3>2 DEF Waits, Kind
    <3>4. checkpoint' = [checkpoint EXCEPT ![Thread(h)] = c]
      BY <2>2
    <3> HIDE DEF c
    <3>5. MovesGraph(h, g)
      BY <2>1, <2>2, <3>1, <3>2, <3>3, <3>4 DEF MovesGraph
    <3>6. QED
      BY <2>1, <3>2, <3>5 DEF Moved, MovesLog
  <2>3. CASE /\ Becomes(h, [h EXCEPT !.at = "graph", !.seen = checkpoint[Thread(h)]])
             /\ UNCHANGED checkpoint
    <3> DEFINE g == [h EXCEPT !.at = "graph", !.seen = checkpoint[Thread(h)]]
    <3>1. SoundCheckpoint(checkpoint[Thread(h)]) /\ checkpoint[Thread(h)] \in Checkpoint
      BY <1>1, <1>4 DEF SoundCheckpoint, Typed, OutcomesKnown
    <3>2. g \in HandlerRow
      BY <1>2, <3>1 DEF HandlerRow
    <3>3. g.at = "graph" /\ g.seen = checkpoint[Thread(h)] /\ g.job = h.job
          /\ g.attempt = h.attempt
      BY <1>2 DEF HandlerRow
    <3>4. Becomes(h, g)
      BY <2>3
    <3> HIDE DEF g
    <3>5. Continues(h, g) /\ ~Waits(g)
      BY <3>1, <3>2, <3>3, <3>4 DEF Continues, SoundHandler, Waits
    <3>6. MovesGraph(h, g)
      BY <2>1, <2>3, <3>3, <3>5 DEF MovesGraph
    <3>7. QED
      BY <2>1, <3>2, <3>5, <3>6 DEF Moved, MovesLog
  <2>4. QED
    BY <1>16, <2>2, <2>3 DEF StartGraph
<1>17. CASE Execute(h)
  <2>1. 0 \in Drafts
    BY RunsAssumption DEF Drafts
  <2>2. h.at = "graph" /\ Kind(h, "EXECUTE") /\ UNCHANGED <<run, events, jobs>>
    BY <1>17 DEF Execute
  <2>3. CASE Interrupts(h, r)
    BY <1>2, <1>13, <2>2, <2>3
  <2>4. CASE GraphEnds(h, "REFUSED", 0, r) /\ UNCHANGED drafts
    BY <1>2, <1>12, <2>1, <2>2, <2>4 DEF Terminal
  <2>5. CASE GraphEnds(h, "SUCCEEDED", 0, r) /\ UNCHANGED drafts
    BY <1>2, <1>12, <2>1, <2>2, <2>5 DEF Terminal
  <2>6. QED
    BY <1>17, <2>3, <2>4, <2>5 DEF Execute
<1>18. CASE Resume(h)
  <2>1. h.seen.draft \in Drafts /\ h.seen.of \in Runs /\ h.seen.outcome \in {"none"} \cup Terminal
    BY <1>3 DEF Checkpoint
  <2>2. h.at = "graph" /\ Kind(h, "RESUME") /\ UNCHANGED <<run, events, jobs>>
    BY <1>18 DEF Resume
  <2>3. ASSUME NEW s \in Terminal, GraphEnds(h, s, h.seen.draft, h.seen.of), UNCHANGED drafts
        PROVE  Moves
    BY <1>12, <2>1, <2>2, <2>3
  <2>4. CASE /\ h.seen.at = "done"
             /\ Becomes(h, [h EXCEPT !.at = "persist", !.outcome = h.seen.outcome,
                                     !.draft = h.seen.draft, !.of = h.seen.of])
             /\ UNCHANGED <<checkpoint, drafts>>
    <3>1. h.seen.outcome \in Terminal
      BY <1>3, <2>1, <2>4 DEF SoundHandler, SoundCheckpoint
    <3>2. h.seen.outcome \in {"WAITING_CONFIRMATION"} \cup Terminal
      BY <3>1
    <3>3. PICK g \in HandlerRow :
             /\ Continues(h, g)
             /\ g.at = "persist" /\ g.seen = h.seen /\ g.outcome = h.seen.outcome
      <4> DEFINE g == [h EXCEPT !.at = "persist", !.outcome = h.seen.outcome,
                                !.draft = h.seen.draft, !.of = h.seen.of]
      <4>1. Becomes(h, g)
        BY <2>4
      <4>2. g \in HandlerRow
        BY <1>2, <2>1, <3>2 DEF HandlerRow
      <4>3. /\ g.at = "persist" /\ g.outcome = h.seen.outcome
            /\ g.seen = h.seen /\ g.job = h.job /\ g.attempt = h.attempt
        BY <1>2 DEF HandlerRow
      <4>4. h.seen.outcome # "none"
        BY <3>1 DEF Terminal
      <4> HIDE DEF g
      <4>5. QED
        BY <1>3, <4>1, <4>2, <4>3, <4>4 DEF SoundHandler, Continues
    <3>4. ~Waits(g) /\ Active(h)
      BY <2>2, <3>1, <3>3 DEF Waits, Terminal, Active
    <3>5. MovesGraph(h, g)
      BY <2>4, <3>3, <3>4 DEF MovesGraph
    <3>6. QED
      BY <2>2, <3>3, <3>4, <3>5 DEF Moved, MovesLog
  <2>5. CASE h.seen.at = "midway" /\ h.seen.draft = 0 /\ Interrupts(h, h.seen.of)
    BY <1>13, <2>1, <2>2, <2>5 DEF Fresh
  <2>6. QED
    BY <1>18, <2>3, <2>4, <2>5 DEF Resume, Terminal
<1>19. CASE GraphRaises(h)
  <2>1. Active(h) /\ h.at # "return" /\ UNCHANGED <<run, events, jobs, drafts>>
    BY <1>19 DEF GraphRaises, Active
  <2>2. CASE UNCHANGED checkpoint
    BY <1>7, <1>19, <2>1, <2>2 DEF GraphRaises, MovesLog
  <2>3. CASE /\ h.seen.at = "interrupted" /\ h.seen.draft = h.draft
             /\ checkpoint' = [checkpoint EXCEPT ![Thread(h)] =
                   [at |-> "midway", of |-> h.seen.of, draft |-> h.draft, outcome |-> "none"]]
    <3> DEFINE c == [at |-> "midway", of |-> h.seen.of, draft |-> h.draft, outcome |-> "none"]
    <3>1. SoundCheckpoint(c)
      BY <1>2, <1>3 DEF SoundCheckpoint, Checkpoint, HandlerRow
    <3>2. Named(c) /\ (Fresh(c) => ~Named(h.seen))
      BY <2>3 DEF Named, Fresh
    <3>3. PICK g \in HandlerRow :
             Continues(h, g) /\ g.at \in {"mark", "raise"} /\ g.seen = h.seen
      BY <1>3, <1>19, StepContinues DEF GraphRaises
    <3>4. checkpoint' = [checkpoint EXCEPT ![Thread(h)] = c]
      BY <2>3
    <3> HIDE DEF c
    <3>5. ~Waits(g) /\ g.at # "graph"
      BY <3>3 DEF Waits
    <3>6. MovesGraph(h, g)
      BY <2>1, <3>1, <3>2, <3>3, <3>4, <3>5 DEF MovesGraph
    <3>7. QED
      BY <2>1, <3>3, <3>6 DEF Moved, MovesLog
  <2>4. QED
    BY <1>19, <2>2, <2>3 DEF GraphRaises
<1>20. CASE PersistOutcome(h)
  <2>1. Active(h) /\ h.at # "return"
    BY <1>20 DEF PersistOutcome, Active
  <2>2. QED
    BY <1>7, <1>10, <1>20, <2>1 DEF PersistOutcome, MovesLog, Active
<1>21. CASE MarkFinalFailure(h)
  <2>1. Active(h) /\ ~Waits(h) /\ h.at # "return"
    BY <1>21 DEF MarkFinalFailure, Active, Waits
  <2>2. QED
    BY <1>7, <1>11, <1>21, <2>1 DEF MarkFinalFailure, MovesLog, Active
<1>22. CASE TransactionFails(h)
  <2>1. setting.faults # 0 /\ h.at # "return" /\ UNCHANGED <<jobs, checkpoint, drafts>>
    BY <1>1, <1>22 DEF TransactionFails, Typed
  <2>2. ASSUME NEW g \in HandlerRow, g.at = "raise" PROVE MovesLog(h, g)
    <3>1. ~Active(g)
      BY <2>2 DEF Active
    <3>2. CASE UNCHANGED <<run, events>>
      BY <3>1, <3>2 DEF MovesLog
    <3>3. CASE h.at = "prepare" /\ Kind(h, "EXECUTE") /\ Executes(r) /\ Started(r)
      BY <1>8, <3>1, <3>3 DEF MovesLog
    <3>4. CASE h.at = "prepare" /\ Kind(h, "RESUME") /\ Resumes(r) /\ Resumed(r)
      BY <1>9, <3>1, <3>4 DEF MovesLog
    <3>5. CASE h.at = "persist" /\ Persisted(h)
      BY <1>10, <2>1, <3>1, <3>5 DEF MovesLog, Active
    <3>6. CASE h.at = "mark" /\ Marked(h)
      BY <1>11, <2>1, <3>1, <3>6 DEF MovesLog, Active
    <3>7. QED
      BY <1>22, <3>2, <3>3, <3>4, <3>5, <3>6 DEF TransactionFails
  <2>3. QED
    BY <1>7, <1>22, <2>1, <2>2 DEF TransactionFails
<1>23. QED
  BY <1>14, <1>15, <1>16, <1>17, <1>18, <1>19, <1>20, <1>21, <1>22 DEF HandlerStep

\* The checkpoints and the drafts after a handler's step.
LEMMA MovedFit ==
    ASSUME RunsInv, NEW h \in handlers, NEW g \in HandlerRow, Moved(h, g),
           drafts' = drafts + 1 => drafts < setting.drafts
    PROVE  /\ checkpoint' \in [Runs -> Checkpoint]
           /\ \A t \in Runs : SoundCheckpoint(checkpoint'[t])
           /\ drafts' \in Drafts
<1>1. Typed /\ OutcomesKnown
  BY DEF RunsInv
<1>2. RunOf(h) \in Runs
  BY <1>1, RunOfHandler
<1>3. run[RunOf(h)] \in RunRow
  BY <1>1, <1>2 DEF Typed
<1>4. Thread(h) \in Runs
  BY <1>3 DEF Thread, RunRow
<1>5. \A t \in Runs : SoundCheckpoint(checkpoint[t])
  BY <1>1 DEF Typed, OutcomesKnown, SoundCheckpoint
<1>6. drafts \in Drafts /\ setting.drafts \in Drafts
  BY <1>1, RunsAssumption DEF Typed, SettingType
<1>7. drafts' \in Drafts
  BY <1>6, RunsAssumption DEF Moved, MovesGraph, Drafts
<1>8. CASE UNCHANGED checkpoint
  BY <1>1, <1>5, <1>7, <1>8 DEF Typed
<1>9. CASE \E c : SoundCheckpoint(c) /\ checkpoint' = [checkpoint EXCEPT ![Thread(h)] = c]
  BY <1>1, <1>4, <1>7, <1>9, CheckpointSet
<1>10. QED
  BY <1>8, <1>9 DEF Moved, MovesGraph

\* The handlers and the checkpoints after a step.
LEMMA HandlersFit ==
    ASSUME RunsInv, RunsNext
    PROVE  /\ handlers' \subseteq HandlerRow /\ \A h \in handlers' : h.job \in DOMAIN jobs'
           /\ checkpoint' \in [Runs -> Checkpoint]
           /\ drafts' \in Drafts
           /\ faults' \in 0..setting'.faults /\ setting' \in Settings
           /\ OutcomesKnown'
<1>1. Typed /\ OutcomesKnown /\ JobsSane
  BY DEF RunsInv
<1>2. \A j \in DOMAIN jobs : j \in DOMAIN jobs'
  BY JobsFit
<1>3. setting' = setting /\ setting \in Settings /\ setting.faults \in Nat
  BY <1>1, RunsAssumption DEF RunsNext, Typed, SettingType
<1>4. faults' \in 0..setting'.faults
  <2>1. faults' = faults \/ (faults < setting.faults /\ faults' = faults + 1)
    <3>1. \A h \in handlers : HandlerStep(h) => faults' = faults
      BY DEF HandlerStep, PrepareExecute, PrepareResume, StartGraph, Execute, Resume, GraphRaises,
             PersistOutcome, MarkFinalFailure, Return, Raise
    <3>2. \A h \in handlers : TransactionFails(h) => faults < setting.faults /\ faults' = faults + 1
      BY DEF TransactionFails
    <3>3. /\ \A r, mode, thread : CreateRun(r, mode, thread) => faults' = faults
          /\ \A r, action, d : ResumeRun(r, action, d) => faults' = faults
          /\ \A j : Claim(j) \/ Reap(j) => faults' = faults
      BY DEF CreateRun, ResumeRun, Claim, Reap
    <3>4. QED
      BY <3>1, <3>2, <3>3 DEF RunsNext
  <2>2. faults \in 0..setting.faults
    BY <1>1 DEF Typed
  <2>3. QED
    BY <1>3, <2>1, <2>2
<1> DEFINE Fit == /\ handlers' \subseteq HandlerRow /\ \A h \in handlers' : h.job \in DOMAIN jobs'
                  /\ checkpoint' \in [Runs -> Checkpoint]
                  /\ drafts' \in Drafts
                  /\ OutcomesKnown'
<1>5. UNCHANGED <<handlers, checkpoint, drafts>> => Fit
  BY <1>1, <1>2 DEF Typed, OutcomesKnown
<1>6. ASSUME NEW j \in DOMAIN jobs, Claim(j)
      PROVE  Fit
  <2> DEFINE g == [job |-> j, attempt |-> jobs[j].attempts + 1, at |-> "prepare",
                   seen |-> NoCheckpoint(jobs[j].run), outcome |-> "none", draft |-> 0,
                   action |-> "none", of |-> jobs[j].run]
  <2>1. handlers' = handlers \cup {g} /\ UNCHANGED <<checkpoint, drafts>>
    BY <1>6 DEF Claim
  <2>2. jobs[j] \in JobRow /\ j \in Nat \ {0}
    BY <1>1 DEF Typed
  <2>3. jobs[j].run \in Runs /\ jobs[j].attempts + 1 \in 1..MaxAttempts
    BY <1>1, <1>6, <2>2, JobClaimed DEF JobRow
  <2>4. NoCheckpoint(jobs[j].run) \in Checkpoint /\ NoCheckpoint(jobs[j].run).at = "none"
    BY <2>3, RunsAssumption DEF NoCheckpoint, Checkpoint, Drafts
  <2>5. g \in HandlerRow
    BY <2>2, <2>3, <2>4, RunsAssumption DEF HandlerRow, Drafts, Actions
  <2>6. g.at = "prepare" /\ g.seen.at = "none" /\ g.job = j
    BY <2>4
  <2> HIDE DEF g
  <2>7. QED
    BY <1>1, <1>2, <2>1, <2>5, <2>6 DEF Typed, OutcomesKnown
<1>7. ASSUME NEW h \in handlers, HandlerStep(h) \/ TransactionFails(h)
      PROVE  Fit
  <2>1. drafts' = drafts \/ drafts < setting.drafts
    BY <1>7 DEF HandlerStep, PrepareExecute, PrepareResume, StartGraph, Execute, Resume, Interrupts,
                GraphRaises, PersistOutcome, MarkFinalFailure, Return, Raise, TransactionFails
  <2>2. CASE Return(h) \/ Raise(h)
    BY <1>1, <1>2, <2>2 DEF Typed, OutcomesKnown, Return, Raise
  <2>3. CASE \E g \in HandlerRow : Moved(h, g)
    <3>1. PICK g \in HandlerRow : Moved(h, g) /\ Continues(h, g)
      BY <2>3 DEF Moved
    <3>2. drafts \in Nat
      BY <1>1, RunsAssumption DEF Typed, Drafts
    <3>3. /\ checkpoint' \in [Runs -> Checkpoint]
          /\ \A t \in Runs : SoundCheckpoint(checkpoint'[t])
          /\ drafts' \in Drafts
      BY <2>1, <3>1, <3>2, MovedFit
    <3>4. handlers' = (handlers \ {h}) \cup {g} /\ g.job \in DOMAIN jobs'
      BY <1>1, <1>2, <3>1, RunOfHandler DEF Continues, Becomes
    <3>5. /\ g.at = "persist" => g.outcome # "none"
          /\ g.seen.at = "done" => g.seen.outcome # "none"
      BY <3>1 DEF Continues, SoundHandler, SoundCheckpoint
    <3>6. OutcomesKnown'
      BY <1>1, <3>3, <3>4, <3>5 DEF OutcomesKnown, SoundCheckpoint
    <3>7. QED
      BY <1>1, <1>2, <3>3, <3>4, <3>6 DEF Typed
  <2>4. QED
    BY <1>7, <2>2, <2>3, HandlerChange
<1>8. Fit
  BY <1>5, <1>6, <1>7 DEF RunsNext, CreateRun, ResumeRun, Reap
<1>9. QED
  BY <1>3, <1>4, <1>8

-----------------------------------------------------------------------------
LEMMA RunsInitially == RunsInit => RunsInv
<1> SUFFICES ASSUME RunsInit PROVE RunsInv
  OBVIOUS
<1>1. \A r \in Runs : [status |-> "ABSENT", mode |-> "qa", thread |-> r] \in RunRow
  BY DEF RunRow, RunStates, Modes
<1>2. \A t \in Runs : NoCheckpoint(t) \in Checkpoint /\ NoCheckpoint(t).at = "none"
  BY RunsAssumption DEF NoCheckpoint, Checkpoint, Drafts
<1>3. setting.faults \in Nat
  BY RunsAssumption DEF RunsInit, SettingType
<1>4. Typed
  BY <1>1, <1>2, <1>3, RunsAssumption DEF RunsInit, Typed, Drafts
<1>5. LogFits /\ QueuedFirst /\ JobsSane /\ OneExecuteJob
  BY DEF RunsInit, LogFits, QueuedFirst, JobsSane, OneExecuteJob
<1>6. OutcomesKnown
  BY <1>2 DEF RunsInit, OutcomesKnown
<1>7. QED
  BY <1>4, <1>5, <1>6 DEF RunsInv

LEMMA RunsStep == RunsInv /\ [RunsNext]_runVars => RunsInv'
<1> SUFFICES ASSUME RunsInv, [RunsNext]_runVars PROVE RunsInv'
  OBVIOUS
<1>1. CASE RunsNext
  BY <1>1, RunsFit, JobsFit, HandlersFit DEF RunsInv, Typed
<1>2. CASE UNCHANGED runVars
  BY <1>2 DEF runVars, RunsInv, Typed, LogFits, QueuedFirst, JobsSane, OneExecuteJob, OutcomesKnown,
              LastType
<1>3. QED
  BY <1>1, <1>2

LEMMA RunsInvariant == RunsSpec => []RunsInv
  BY RunsInitially, RunsStep, PTL DEF RunsSpec

\* SSE clients and GET never disagree: in every setting the status of a run is
\* the one its last event announced.
THEOREM RunsStatusMatchesLog == RunsSpec => []StatusMatchesLog
<1>1. RunsInv => StatusMatchesLog
  BY DEF RunsInv, Typed, LogFits, StatusMatchesLog, Fits, Terminal, RunRow, RunStates
<1>2. QED
  BY <1>1, RunsInvariant, PTL

\* A terminal run is closed, in every setting: no retried, reaped or concurrent
\* handler changes its status or appends to its log.
THEOREM RunsTerminalIsFinal == RunsSpec => TerminalIsFinal
<1>1. RunsInv /\ [RunsNext]_runVars =>
        [\A r \in Runs : run[r].status \in Terminal =>
            run'[r] = run[r] /\ events'[r] = events[r]]_runVars
  BY RunsFit
<1>2. QED
  BY <1>1, RunsInvariant, PTL DEF RunsSpec, TerminalIsFinal

-----------------------------------------------------------------------------
(* Where no handler outlives its lease and no retry meets a shared thread. *)

Orderly == ~setting.reaper /\ (setting.shared => setting.faults = 0)

\* What may follow an event in a log.
Outcomes == {"WAITING_CONFIRMATION", "RUN_SUCCEEDED", "RUN_REFUSED", "RUN_CANCELLED", "RUN_FAILED"}
Follows(a, b) ==
    \/ a.type = "RUN_QUEUED" /\ b.type = "RUN_STARTED"
    \/ a.type \in {"RUN_STARTED", "RUN_RESUMED"} /\ b.type \in Outcomes
    \/ a.type = "WAITING_CONFIRMATION" /\ b.type = "RUN_RESUME_QUEUED" /\ a.draft = b.draft
    \/ a.type = "RUN_RESUME_QUEUED" /\ b.type = "RUN_RESUMED"
LogChain ==
    \A r \in Runs :
        /\ \A i \in 1..(Len(events[r]) - 1) : Follows(events[r][i], events[r][i + 1])
        /\ \A i \in 1..Len(events[r]) : events[r][i].type = "RUN_STARTED" => i = 2

\* A job has one handler, of its current attempt.
OneHandlerPerJob ==
    /\ \A h \in handlers : Current(h)
    /\ \A g, h \in handlers : g.job = h.job => g = h

\* A handler between prepare and its end works on a running run, for the event
\* that its own prepare logged.
ActiveRuns == \A h \in handlers : Active(h) => AtWork(h)

\* A job that may still run a graph.  A RESUME job is of a run that was
\* answered, and at most one of them is live.
Live(j) == jobs[j].status = "PENDING" \/ \E h \in handlers : h.job = j /\ h.at # "return"
ResumesAnswer ==
    \A j \in DOMAIN jobs : jobs[j].type = "RESUME" =>
        /\ HasEvent(jobs[j].run, "RUN_RESUME_QUEUED")
        /\ \A i \in DOMAIN jobs :
              jobs[i].type = "RESUME" /\ jobs[i].run = jobs[j].run /\ Live(i) /\ Live(j) => i = j
        /\ setting.faults = 0 /\ Live(j) => run[jobs[j].run].status # "WAITING_CONFIRMATION"

\* On a thread of its own a run that was answered never waits again: once it
\* has waited, its checkpoint is never back before the confirmation.
AskedOnce ==
    /\ \A r \in Runs :
          /\ run[r].thread = r
          /\ HasEvent(r, "RUN_RESUME_QUEUED") => run[r].status # "WAITING_CONFIRMATION"
          /\ HasEvent(r, "WAITING_CONFIRMATION") => ~Fresh(checkpoint[r])
          /\ Named(checkpoint[r])
    /\ \A h \in handlers :
          /\ Named(h.seen)
          /\ Waits(h) => Kind(h, "EXECUTE") /\ checkpoint[RunOf(h)].at = "interrupted"
          /\ h.at = "graph" /\ Kind(h, "RESUME") => ~Fresh(h.seen)
    /\ OneDecisionPerRun

OrderInv ==
    Orderly =>
        /\ LogChain /\ OneHandlerPerJob /\ ActiveRuns /\ ResumesAnswer
        /\ ~setting.shared => AskedOnce

\* What Advances and CreateRun do, event by event.
LEMMA AdvanceEffect ==
    ASSUME Typed, LogFits, NEW r \in Runs, NEW s, NEW e, Advances(r, s, e)
    PROVE  /\ \A q \in Runs \ {r} : run'[q] = run[q] /\ events'[q] = events[q]
           /\ run'[r].status = s /\ run'[r].thread = run[r].thread
           /\ Len(events[r]) \in Nat /\ Len(events[r]) >= 1
           /\ Len(events'[r]) = Len(events[r]) + 1
           /\ events'[r][Len(events[r]) + 1] = e
           /\ \A i \in 1..Len(events[r]) : events'[r][i] = events[r][i]
           /\ DOMAIN events[r] = 1..Len(events[r])
           /\ DOMAIN events'[r] = 1..(Len(events[r]) + 1)
           /\ LastType(r)' = e.type
<1>1. /\ s \in RunStates /\ e \in Event /\ SetStatus(r, s) /\ append_event(r, e)
      /\ run[r].status # "ABSENT"
  BY DEF Advances
<1>2. /\ events' \in [Runs -> Seq(Event)]
      /\ \A q \in Runs \ {r} : events'[q] = events[q]
      /\ Len(events'[r]) = Len(events[r]) + 1
      /\ events'[r][Len(events[r]) + 1] = e
      /\ \A i \in 1..Len(events[r]) : events'[r][i] = events[r][i]
  BY <1>1, Appended
<1>3. /\ \A q \in Runs \ {r} : run'[q] = run[q]
      /\ run'[r].status = s /\ run'[r].thread = run[r].thread
  BY <1>1, StatusSet
<1>4. Len(events[r]) \in Nat /\ Len(events[r]) >= 1 /\ DOMAIN events[r] = 1..Len(events[r])
  BY <1>1, LastEvent
<1>5. DOMAIN events'[r] = 1..(Len(events[r]) + 1)
  BY <1>2
<1>6. LastType(r)' = e.type
  BY <1>2 DEF LastType
<1>7. QED
  BY <1>2, <1>3, <1>4, <1>5, <1>6

LEMMA CreateEffect ==
    ASSUME Typed, LogFits, NEW r \in Runs, NEW mode \in Modes, NEW thread \in Runs,
           CreateRun(r, mode, thread)
    PROVE  /\ \A q \in Runs \ {r} : run'[q] = run[q] /\ events'[q] = events[q]
           /\ run'[r].status = "QUEUED" /\ run'[r].thread = thread
           /\ Len(events'[r]) = 1 /\ DOMAIN events'[r] = 1..1 /\ events'[r][1].type = "RUN_QUEUED"
           /\ run[r].status = "ABSENT" /\ events[r] = <<>>
<1> DEFINE e == Log(r, "RUN_QUEUED", 0, "none", r)
<1>1. e \in Event /\ e.type = "RUN_QUEUED"
  BY RunsAssumption DEF Event, Log, EventTypes, Drafts, Actions
<1>2. run[r].status = "ABSENT" /\ events[r] = <<>>
  BY DEF CreateRun, LogFits
<1>3. append_event(r, e)
  BY DEF CreateRun
<1>4. Len(events[r]) = 0 /\ Len(events[r]) + 1 = 1
  BY <1>2
<1> HIDE DEF e
<1>5. /\ events' \in [Runs -> Seq(Event)]
      /\ \A q \in Runs \ {r} : events'[q] = events[q]
      /\ Len(events'[r]) = Len(events[r]) + 1
      /\ events'[r][Len(events[r]) + 1] = e
  BY <1>1, <1>3, Appended
<1>6. /\ \A q \in Runs \ {r} : run'[q] = run[q]
      /\ run'[r].status = "QUEUED" /\ run'[r].thread = thread
  BY DEF CreateRun, Typed
<1>7. Len(events'[r]) = 1 /\ events'[r][1] = e
  BY <1>4, <1>5
<1>8. DOMAIN events'[r] = 1..1
  BY <1>5, <1>7
<1>9. QED
  BY <1>1, <1>2, <1>5, <1>6, <1>7, <1>8

LEMMA ResumeEffect ==
    ASSUME Typed, LogFits, NEW r \in Runs, NEW action \in {"CONFIRM", "CANCEL"}, NEW d \in Drafts,
           ResumeRun(r, action, d)
    PROVE  \E e \in Event :
              /\ Advances(r, "QUEUED", e) /\ e.type = "RUN_RESUME_QUEUED" /\ e.draft = d
              /\ run[r].status = "WAITING_CONFIRMATION"
              /\ LastType(r) = "WAITING_CONFIRMATION" /\ events[r][Len(events[r])].draft = d
<1> DEFINE e == Log(r, "RUN_RESUME_QUEUED", d, action, r)
           n == Len(events[r])
<1>1. e \in Event /\ e.type = "RUN_RESUME_QUEUED" /\ e.draft = d
  BY DEF Event, Log, EventTypes, Actions
<1>2. Advances(r, "QUEUED", e)
  BY <1>1 DEF ResumeRun, Advances, RunStates, Terminal, Fits
<1>3. run[r].status = "WAITING_CONFIRMATION"
  BY DEF ResumeRun
<1>4. LastType(r) = "WAITING_CONFIRMATION" /\ n \in DOMAIN events[r] /\ DOMAIN events[r] = 1..n
      /\ n \in Nat
  BY <1>3, LastEvent DEF Fits, Terminal
<1>5. LatestIndex(r, "WAITING_CONFIRMATION") = n
  <2>1. HasEvent(r, "WAITING_CONFIRMATION")
    BY DEF ResumeRun
  <2>2. events[r][n].type = "WAITING_CONFIRMATION"
    BY <1>4 DEF LastType
  <2>3. /\ LatestIndex(r, "WAITING_CONFIRMATION") \in 1..n
        /\ n <= LatestIndex(r, "WAITING_CONFIRMATION")
    BY <1>4, <2>1, <2>2, LatestExists
  <2>4. QED
    BY <1>4, <2>3
<1>6. events[r][n].draft = d
  BY <1>5 DEF ResumeRun
<1> HIDE DEF e
<1>7. QED
  BY <1>1, <1>2, <1>3, <1>4, <1>6

\* The kinds of step there are.
LEMMA StepKinds ==
    ASSUME RunsInv, RunsNext
    PROVE  \/ \E r \in Runs, mode \in Modes, thread \in Runs : CreateRun(r, mode, thread)
           \/ \E r \in Runs, action \in {"CONFIRM", "CANCEL"}, d \in Drafts : ResumeRun(r, action, d)
           \/ \E j \in DOMAIN jobs : Claim(j) \/ Reap(j)
           \/ \E h \in handlers : Return(h) \/ Raise(h)
           \/ \E h \in handlers, g \in HandlerRow : Moved(h, g)
  BY HandlerChange DEF RunsNext

\* A handler that keeps its job keeps its run and its kind.
LEMMA HandlerFrame ==
    ASSUME RunsInv, RunsNext, NEW h \in handlers, NEW g, g.job = h.job
    PROVE  /\ RunOf(g)' = RunOf(h) /\ RunOf(g) = RunOf(h)
           /\ \A ty : Kind(g, ty)' <=> Kind(h, ty)
           /\ \A ty : Kind(g, ty) <=> Kind(h, ty)
<1>1. Typed
  BY DEF RunsInv
<1>2. h.job \in DOMAIN jobs
  BY <1>1, RunOfHandler
<1>3. jobs'[h.job].run = jobs[h.job].run /\ jobs'[h.job].type = jobs[h.job].type
  BY <1>2, JobsFit
<1>4. QED
  BY <1>3 DEF RunOf, Kind

LEMMA NewHandler ==
    ASSUME NEW j \in DOMAIN jobs, Claim(j)
    PROVE  \E g : /\ handlers' = handlers \cup {g}
                  /\ g.job = j /\ g.attempt = jobs[j].attempts + 1
                  /\ g.at = "prepare" /\ g.seen.at = "none"
<1> DEFINE g == [job |-> j, attempt |-> jobs[j].attempts + 1, at |-> "prepare",
                 seen |-> NoCheckpoint(jobs[j].run), outcome |-> "none", draft |-> 0,
                 action |-> "none", of |-> jobs[j].run]
<1>1. handlers' = handlers \cup {g}
  BY DEF Claim
<1>2. /\ g.job = j /\ g.attempt = jobs[j].attempts + 1
      /\ g.at = "prepare" /\ g.seen.at = "none"
  BY DEF NoCheckpoint
<1> HIDE DEF g
<1>3. QED
  BY <1>1, <1>2

\* No reaper: a job that is claimed has no handler yet.
LEMMA OneHandlerStep ==
    ASSUME RunsInv, RunsNext, ~setting.reaper, OneHandlerPerJob
    PROVE  OneHandlerPerJob'
<1>1. Typed /\ JobsSane
  BY DEF RunsInv
<1>2. \A h \in handlers : h.job \in DOMAIN jobs
  BY <1>1 DEF Typed
<1>3. CASE \/ \E r \in Runs, mode \in Modes, thread \in Runs : CreateRun(r, mode, thread)
           \/ \E r \in Runs, action \in {"CONFIRM", "CANCEL"}, d \in Drafts : ResumeRun(r, action, d)
  <2>1. PICK r \in Runs, ty \in {"EXECUTE", "RESUME"} : Enqueue(r, ty) /\ UNCHANGED handlers
    BY <1>3 DEF CreateRun, ResumeRun
  <2>2. \A i \in DOMAIN jobs : jobs'[i] = jobs[i]
    BY <1>1, <2>1, JobAdded
  <2>3. QED
    BY <1>2, <2>1, <2>2 DEF OneHandlerPerJob, Current
<1>4. CASE \E j \in DOMAIN jobs : Claim(j)
  <2>1. PICK j \in DOMAIN jobs : Claim(j)
    BY <1>4
  <2>2. \A h \in handlers : h.job # j
    BY <2>1 DEF OneHandlerPerJob, Current, Claim
  <2>3. PICK g : /\ handlers' = handlers \cup {g}
                 /\ g.job = j /\ g.attempt = jobs[j].attempts + 1
    BY <2>1, NewHandler
  <2>4. /\ \A i \in DOMAIN jobs \ {j} : jobs'[i] = jobs[i]
        /\ jobs'[j].status = "RUNNING" /\ jobs'[j].attempts = jobs[j].attempts + 1
    BY <1>1, <2>1, JobClaimed
  <2>5. Current(g)'
    BY <2>3, <2>4 DEF Current
  <2>6. \A h \in handlers : Current(h)'
    BY <1>2, <2>2, <2>4 DEF OneHandlerPerJob, Current
  <2>7. QED
    BY <2>2, <2>3, <2>5, <2>6 DEF OneHandlerPerJob
<1>5. CASE \E h \in handlers : Return(h) \/ Raise(h)
  <2>1. PICK h \in handlers : Return(h) \/ Raise(h)
    BY <1>5
  <2>2. handlers' = handlers \ {h}
    BY <2>1 DEF Return, Raise
  <2>3. UNCHANGED jobs \/ \E s \in {"PENDING", "SUCCEEDED", "FAILED"} : SetJob(h.job, s)
    BY <2>1 DEF Return, Raise
  <2>4. \A i \in DOMAIN jobs \ {h.job} : jobs'[i] = jobs[i]
    BY <1>1, <1>2, <2>3, JobSet
  <2>5. QED
    BY <1>2, <2>2, <2>4 DEF OneHandlerPerJob, Current
<1>6. CASE \E h \in handlers, g \in HandlerRow : Moved(h, g)
  <2>1. PICK h \in handlers, g \in HandlerRow : Moved(h, g)
    BY <1>6
  <2>2. /\ handlers' = (handlers \ {h}) \cup {g} /\ UNCHANGED jobs
        /\ g.job = h.job /\ g.attempt = h.attempt
    BY <2>1 DEF Moved, Continues, Becomes
  <2>3. QED
    BY <2>2 DEF OneHandlerPerJob, Current
<1>7. QED
  BY <1>3, <1>4, <1>5, <1>6, StepKinds DEF Reap

\* A run has at most one active handler.
LEMMA SoleActive ==
    ASSUME RunsInv, OneHandlerPerJob, ActiveRuns, ResumesAnswer,
           NEW g \in handlers, NEW h \in handlers, Active(g), Active(h), RunOf(g) = RunOf(h)
    PROVE  g = h
<1>1. Typed /\ OneExecuteJob
  BY DEF RunsInv
<1>2. AtWork(g) /\ AtWork(h)
  BY DEF ActiveRuns
<1>3. g.job \in DOMAIN jobs /\ h.job \in DOMAIN jobs /\ jobs[g.job].run = jobs[h.job].run
  BY <1>1, RunOfHandler
<1>4. /\ jobs[g.job].type \in {"EXECUTE", "RESUME"} /\ jobs[h.job].type \in {"EXECUTE", "RESUME"}
  BY <1>1, RunOfHandler DEF JobRow
<1>5. jobs[g.job].type = jobs[h.job].type
  BY <1>2, <1>4 DEF AtWork, Kind
<1>6. Live(g.job) /\ Live(h.job)
  BY DEF Live, Active
<1>7. g.job = h.job
  BY <1>1, <1>3, <1>4, <1>5, <1>6 DEF OneExecuteJob, ResumesAnswer
<1>8. QED
  BY <1>7 DEF OneHandlerPerJob

LEMMA ActiveStep ==
    ASSUME RunsInv, RunsNext, ~setting.reaper, OneHandlerPerJob, ActiveRuns, ResumesAnswer
    PROVE  ActiveRuns'
<1>1. Typed /\ LogFits /\ JobsSane
  BY DEF RunsInv
<1>2. \A f \in handlers : RunOf(f) \in Runs /\ run[RunOf(f)].status # "ABSENT"
  BY <1>1, RunOfHandler DEF JobsSane
<1>3. ASSUME NEW f \in handlers, AtWork(f), run'[RunOf(f)] = run[RunOf(f)],
             events'[RunOf(f)] = events[RunOf(f)]
      PROVE  AtWork(f)'
  BY <1>3, HandlerFrame DEF AtWork, LastType
<1>4. CASE \E r \in Runs, mode \in Modes, thread \in Runs : CreateRun(r, mode, thread)
  <2>1. PICK r \in Runs, mode \in Modes, thread \in Runs : CreateRun(r, mode, thread)
    BY <1>4
  <2>2. handlers' = handlers
    BY <2>1 DEF CreateRun
  <2>3. \A f \in handlers : RunOf(f) \in Runs \ {r}
    BY <1>2, <2>1 DEF CreateRun
  <2>4. QED
    BY <1>1, <1>3, <2>1, <2>2, <2>3, CreateEffect DEF ActiveRuns, Active
<1>5. CASE \E r \in Runs, action \in {"CONFIRM", "CANCEL"}, d \in Drafts : ResumeRun(r, action, d)
  <2>1. PICK r \in Runs, action \in {"CONFIRM", "CANCEL"}, d \in Drafts : ResumeRun(r, action, d)
    BY <1>5
  <2>2. handlers' = handlers
    BY <2>1 DEF ResumeRun
  <2>3. PICK e \in Event : Advances(r, "QUEUED", e) /\ run[r].status = "WAITING_CONFIRMATION"
    BY <1>1, <2>1, ResumeEffect
  <2>4. \A f \in handlers : AtWork(f) => RunOf(f) \in Runs \ {r}
    BY <1>2, <2>3 DEF AtWork
  <2>5. QED
    BY <1>1, <1>3, <2>2, <2>3, <2>4, AdvanceEffect DEF ActiveRuns, Active
<1>6. CASE \E j \in DOMAIN jobs : Claim(j)
  <2>1. PICK j \in DOMAIN jobs : Claim(j)
    BY <1>6
  <2>2. PICK g : handlers' = handlers \cup {g} /\ g.at = "prepare"
    BY <2>1, NewHandler
  <2>3. UNCHANGED <<run, events>>
    BY <2>1 DEF Claim
  <2>4. QED
    BY <1>3, <2>2, <2>3 DEF ActiveRuns, Active
<1>7. CASE \E h \in handlers : Return(h) \/ Raise(h)
  <2>1. handlers' \subseteq handlers /\ UNCHANGED <<run, events>>
    BY <1>7 DEF Return, Raise
  <2>2. QED
    BY <1>3, <2>1 DEF ActiveRuns, Active
<1>8. CASE \E h \in handlers, g \in HandlerRow : Moved(h, g)
  <2>1. PICK h \in handlers, g \in HandlerRow : Moved(h, g)
    BY <1>8
  <2> DEFINE r == RunOf(h)
  <2>2. /\ handlers' = (handlers \ {h}) \cup {g} /\ g.job = h.job
        /\ MovesLog(h, g) /\ UNCHANGED jobs
    BY <2>1 DEF Moved, Continues, Becomes
  <2>3. RunOf(g)' = r /\ (Kind(g, "EXECUTE")' <=> Kind(h, "EXECUTE"))
    BY <2>2, HandlerFrame
  <2>4. r \in Runs
    BY <1>2
  <2>5. CASE UNCHANGED <<run, events>> /\ (Active(g) => Active(h) \/ AtWork(h))
    <3>1. \A f \in handlers \ {h} : Active(f) => AtWork(f)'
      BY <1>3, <2>5 DEF ActiveRuns
    <3>2. Active(g) => AtWork(g)'
      BY <2>3, <2>5 DEF ActiveRuns, AtWork, LastType
    <3>3. QED
      BY <2>2, <3>1, <3>2 DEF ActiveRuns, Active
  <2>6. CASE Begins(h)
    <3>1. PICK e \in Event :
             /\ Advances(r, "RUNNING", e) /\ run[r].status = "QUEUED"
             /\ e.type = IF Kind(h, "EXECUTE") THEN "RUN_STARTED" ELSE "RUN_RESUMED"
      BY <2>6 DEF Begins, Kind
    <3>2. \A f \in handlers : AtWork(f) => RunOf(f) \in Runs \ {r}
      BY <1>2, <3>1 DEF AtWork
    <3>3. \A f \in handlers : Active(f) => AtWork(f)'
      BY <1>1, <1>3, <2>4, <3>1, <3>2, AdvanceEffect DEF ActiveRuns
    <3>4. run'[r].status = "RUNNING" /\ events'[r][Len(events'[r])].type = e.type
      BY <1>1, <2>4, <3>1, AdvanceEffect
    <3>5. AtWork(g)'
      BY <2>3, <3>1, <3>4 DEF AtWork, LastType
    <3>6. QED
      BY <2>2, <3>3, <3>5 DEF ActiveRuns, Active
  <2>7. CASE Ends(h) /\ Active(h) /\ ~Active(g)
    <3>1. PICK s, e : Advances(r, s, e)
      BY <2>7 DEF Ends
    <3>2. \A f \in handlers \ {h} : Active(f) => RunOf(f) \in Runs \ {r}
      BY <1>2, <2>7, SoleActive
    <3>3. \A f \in handlers \ {h} : Active(f) => AtWork(f)'
      BY <1>1, <1>3, <2>4, <3>1, <3>2, AdvanceEffect DEF ActiveRuns
    <3>4. QED
      BY <2>2, <2>7, <3>3 DEF ActiveRuns, Active
  <2>8. QED
    BY <2>2, <2>5, <2>6, <2>7 DEF MovesLog
<1>9. QED
  BY <1>4, <1>5, <1>6, <1>7, <1>8, StepKinds DEF Reap

\* The chain is extended by an event that may follow its last one.
LEMMA ChainExtends ==
    ASSUME Typed, LogFits, LogChain, NEW r \in Runs, NEW s, NEW e, Advances(r, s, e),
           Follows(events[r][Len(events[r])], e), e.type = "RUN_STARTED" => Len(events[r]) = 1
    PROVE  LogChain'
<1> DEFINE n == Len(events[r])
<1>1. /\ n \in Nat /\ n >= 1 /\ Len(events'[r]) = n + 1 /\ events'[r][n + 1] = e
      /\ \A i \in 1..n : events'[r][i] = events[r][i]
      /\ \A q \in Runs \ {r} : events'[q] = events[q]
  BY AdvanceEffect
<1>2. /\ \A i \in 1..(n - 1) : Follows(events[r][i], events[r][i + 1])
      /\ \A i \in 1..n : events[r][i].type = "RUN_STARTED" => i = 2
  BY DEF LogChain
<1>3. Follows(events[r][n], e)
  OBVIOUS
<1>4. e.type = "RUN_STARTED" => n = 1
  OBVIOUS
<1> HIDE DEF n
<1>5. ASSUME NEW i \in 1..(Len(events'[r]) - 1)
      PROVE  Follows(events'[r][i], events'[r][i + 1])
  <2>1. i \in 1..n
    BY <1>1
  <2>2. CASE i = n
    BY <1>1, <1>3, <2>1, <2>2
  <2>3. CASE i # n
    <3>1. i \in 1..(n - 1) /\ i + 1 \in 1..n
      BY <1>1, <2>1, <2>3
    <3>2. QED
      BY <1>1, <1>2, <2>1, <3>1
  <2>4. QED
    BY <2>2, <2>3
<1>6. ASSUME NEW i \in 1..Len(events'[r]), events'[r][i].type = "RUN_STARTED"
      PROVE  i = 2
  <2>1. CASE i = n + 1
    BY <1>1, <1>4, <1>6, <2>1
  <2>2. CASE i \in 1..n
    BY <1>1, <1>2, <1>6, <2>2
  <2>3. QED
    BY <1>1, <2>1, <2>2
<1>7. \A q \in Runs \ {r} :
         /\ \A i \in 1..(Len(events'[q]) - 1) : Follows(events'[q][i], events'[q][i + 1])
         /\ \A i \in 1..Len(events'[q]) : events'[q][i].type = "RUN_STARTED" => i = 2
  BY <1>1 DEF LogChain
<1>8. LogChain' <=> \A q \in Runs :
         /\ \A i \in 1..(Len(events'[q]) - 1) : Follows(events'[q][i], events'[q][i + 1])
         /\ \A i \in 1..Len(events'[q]) : events'[q][i].type = "RUN_STARTED" => i = 2
  BY DEF LogChain, Follows
<1>9. QED
  BY <1>5, <1>6, <1>7, <1>8

\* What a handler that ends its run logs.
LEMMA EndsWith ==
    ASSUME NEW s \in {"WAITING_CONFIRMATION"} \cup Terminal, NEW r, NEW e, Advances(r, s, e)
    PROVE  /\ e.type \in Outcomes
           /\ e.type = "WAITING_CONFIRMATION" <=> s = "WAITING_CONFIRMATION"
  BY DEF Advances, Fits, Terminal, TerminalEvent, Outcomes

LEMMA ChainStep ==
    ASSUME RunsInv, RunsNext, ~setting.reaper, LogChain, ActiveRuns
    PROVE  LogChain'
<1>1. Typed /\ LogFits /\ QueuedFirst
  BY DEF RunsInv
<1>2. CASE UNCHANGED events
  BY <1>2 DEF LogChain, Follows
<1>3. CASE \E r \in Runs, mode \in Modes, thread \in Runs : CreateRun(r, mode, thread)
  <2>1. PICK r \in Runs, mode \in Modes, thread \in Runs : CreateRun(r, mode, thread)
    BY <1>3
  <2>2. /\ \A q \in Runs \ {r} : events'[q] = events[q]
        /\ Len(events'[r]) = 1 /\ events'[r][1].type = "RUN_QUEUED"
    BY <1>1, <2>1, CreateEffect
  <2>3. \A i \in 1..Len(events'[r]) : events'[r][i].type = "RUN_QUEUED"
    BY <2>2
  <2>4. \A i \in 1..(Len(events'[r]) - 1) : FALSE
    BY <2>2
  <2>5. ASSUME NEW q \in Runs
        PROVE  /\ \A i \in 1..(Len(events'[q]) - 1) : Follows(events'[q][i], events'[q][i + 1])
               /\ \A i \in 1..Len(events'[q]) : events'[q][i].type = "RUN_STARTED" => i = 2
    <3>1. CASE q = r
      BY <2>3, <2>4, <3>1
    <3>2. CASE q # r
      BY <2>2, <3>2 DEF LogChain
    <3>3. QED
      BY <3>1, <3>2
  <2>6. QED
    BY <2>5 DEF LogChain, Follows
<1>4. CASE \E r \in Runs, action \in {"CONFIRM", "CANCEL"}, d \in Drafts : ResumeRun(r, action, d)
  <2>1. PICK r \in Runs, action \in {"CONFIRM", "CANCEL"}, d \in Drafts : ResumeRun(r, action, d)
    BY <1>4
  <2>2. PICK e \in Event :
           /\ Advances(r, "QUEUED", e) /\ e.type = "RUN_RESUME_QUEUED" /\ e.draft = d
           /\ LastType(r) = "WAITING_CONFIRMATION" /\ events[r][Len(events[r])].draft = d
    BY <1>1, <2>1, ResumeEffect
  <2>3. Follows(events[r][Len(events[r])], e)
    BY <2>2 DEF Follows, LastType
  <2>4. QED
    BY <1>1, <2>2, <2>3, ChainExtends
<1>5. CASE \E h \in handlers, g \in HandlerRow : Moved(h, g)
  <2>1. PICK h \in handlers, g \in HandlerRow : MovesLog(h, g)
    BY <1>5 DEF Moved
  <2>2. PICK r \in Runs : r = RunOf(h)
    BY <1>1, RunOfHandler
  <2>3. CASE Begins(h)
    <3>1. PICK e \in Event :
             /\ Advances(r, "RUNNING", e)
             /\ \/ LastType(r) = "RUN_QUEUED" /\ e.type = "RUN_STARTED"
                \/ LastType(r) = "RUN_RESUME_QUEUED" /\ e.type = "RUN_RESUMED"
      BY <2>2, <2>3 DEF Begins
    <3>2. Follows(events[r][Len(events[r])], e)
      BY <3>1 DEF Follows, LastType
    <3>3. e.type = "RUN_STARTED" => Len(events[r]) = 1
      <4>1. Len(events[r]) \in Nat /\ Len(events[r]) >= 1
        BY <1>1, <3>1, AdvanceEffect
      <4>2. Len(events[r]) \in 1..Len(events[r])
        BY <4>1
      <4>3. e.type = "RUN_STARTED" => events[r][Len(events[r])].type = "RUN_QUEUED"
        BY <3>1 DEF LastType
      <4>4. QED
        BY <1>1, <4>2, <4>3 DEF QueuedFirst
    <3>4. QED
      BY <1>1, <3>1, <3>2, <3>3, ChainExtends
  <2>4. CASE Ends(h) /\ Active(h)
    <3>1. PICK s \in {"WAITING_CONFIRMATION"} \cup Terminal, e \in Event : Advances(r, s, e)
      BY <2>2, <2>4 DEF Ends
    <3>2. e.type \in Outcomes /\ e.type # "RUN_STARTED"
      BY <3>1, EndsWith DEF Outcomes
    <3>3. LastType(r) \in {"RUN_STARTED", "RUN_RESUMED"}
      BY <2>2, <2>4 DEF ActiveRuns, AtWork
    <3>4. Follows(events[r][Len(events[r])], e)
      BY <3>2, <3>3 DEF Follows, LastType
    <3>5. QED
      BY <1>1, <3>1, <3>2, <3>4, ChainExtends
  <2>5. QED
    BY <1>2, <2>1, <2>3, <2>4 DEF MovesLog
<1>6. QED
  BY <1>2, <1>3, <1>4, <1>5, StepKinds DEF Claim, Reap, Return, Raise

\* Only a new job comes to life.
LEMMA LiveStep ==
    ASSUME RunsInv, RunsNext, ~setting.reaper, NEW j \in DOMAIN jobs, Live(j)'
    PROVE  Live(j)
<1>1. Typed /\ JobsSane
  BY DEF RunsInv
<1>2. CASE \/ \E r \in Runs, mode \in Modes, thread \in Runs : CreateRun(r, mode, thread)
           \/ \E r \in Runs, action \in {"CONFIRM", "CANCEL"}, d \in Drafts : ResumeRun(r, action, d)
  <2>1. PICK r \in Runs, ty \in {"EXECUTE", "RESUME"} : Enqueue(r, ty) /\ UNCHANGED handlers
    BY <1>2 DEF CreateRun, ResumeRun
  <2>2. QED
    BY <1>1, <2>1, JobAdded DEF Live
<1>3. CASE \E i \in DOMAIN jobs : Claim(i)
  <2>1. PICK i \in DOMAIN jobs : Claim(i)
    BY <1>3
  <2>2. CASE i = j
    BY <2>1, <2>2 DEF Live, Claim
  <2>3. CASE i # j
    <3>1. jobs'[j] = jobs[j]
      BY <1>1, <2>1, <2>3, JobClaimed
    <3>2. PICK g : handlers' = handlers \cup {g} /\ g.job = i
      BY <2>1, NewHandler
    <3>3. QED
      BY <2>3, <3>1, <3>2 DEF Live
  <2>4. QED
    BY <2>2, <2>3
<1>4. CASE \E h \in handlers : Return(h) \/ Raise(h)
  <2>1. PICK h \in handlers : Return(h) \/ Raise(h)
    BY <1>4
  <2>2. handlers' = handlers \ {h} /\ h.job \in DOMAIN jobs
    BY <1>1, <2>1, RunOfHandler DEF Return, Raise
  <2>3. CASE UNCHANGED jobs
    BY <2>2, <2>3 DEF Live
  <2>4. CASE \E s \in {"PENDING", "SUCCEEDED", "FAILED"} :
                SetJob(h.job, s) /\ (s = "PENDING" => h.at # "return")
    <3>1. PICK s \in {"PENDING", "SUCCEEDED", "FAILED"} :
             SetJob(h.job, s) /\ (s = "PENDING" => h.at # "return")
      BY <2>4
    <3>2. /\ \A i \in DOMAIN jobs \ {h.job} : jobs'[i] = jobs[i]
          /\ jobs'[h.job].status = s
      BY <1>1, <2>2, <3>1, JobSet
    <3>3. QED
      BY <2>2, <3>1, <3>2 DEF Live
  <2>5. QED
    BY <2>1, <2>3, <2>4 DEF Return, Raise
<1>5. CASE \E h \in handlers, g \in HandlerRow : Moved(h, g)
  <2>1. PICK h \in handlers, g \in HandlerRow : Moved(h, g)
    BY <1>5
  <2>2. /\ handlers' = (handlers \ {h}) \cup {g} /\ UNCHANGED jobs
        /\ g.job = h.job /\ h.at # "return"
    BY <2>1 DEF Moved, Continues, Becomes
  <2>3. QED
    BY <2>2 DEF Live
<1>6. QED
  BY <1>2, <1>3, <1>4, <1>5, StepKinds DEF Reap

\* Events stay in the log.
LEMMA EventsStay ==
    ASSUME RunsInv, RunsNext, NEW r \in Runs, NEW a, HasEvent(r, a)
    PROVE  HasEvent(r, a)'
<1>1. Typed /\ LogFits
  BY DEF RunsInv
<1>2. CASE UNCHANGED <<run, events>>
  BY <1>2 DEF HasEvent
<1>3. CASE \E q \in Runs, mode \in Modes, thread \in Runs : CreateRun(q, mode, thread)
  <2>1. PICK q \in Runs, mode \in Modes, thread \in Runs : CreateRun(q, mode, thread)
    BY <1>3
  <2>2. r # q /\ events'[r] = events[r]
    BY <1>1, <2>1, CreateEffect DEF HasEvent
  <2>3. QED
    BY <2>2 DEF HasEvent
<1>4. CASE \E q \in Runs, s \in RunStates, e \in Event : Advances(q, s, e)
  <2>1. PICK q \in Runs, s \in RunStates, e \in Event : Advances(q, s, e)
    BY <1>4
  <2>2. CASE q = r
    BY <1>1, <2>1, <2>2, AdvanceEffect DEF HasEvent
  <2>3. CASE q # r
    BY <1>1, <2>1, <2>3, AdvanceEffect DEF HasEvent
  <2>4. QED
    BY <2>2, <2>3
<1>5. QED
  BY <1>2, <1>3, <1>4, RunChange

\* An execution that has just started is on a run that was never asked.
LEMMA NotYetAsked ==
    ASSUME RunsInv, LogChain, NEW r \in Runs, run[r].status # "ABSENT", LastType(r) = "RUN_STARTED"
    PROVE  ~HasEvent(r, "RUN_RESUME_QUEUED") /\ ~HasEvent(r, "WAITING_CONFIRMATION")
<1> DEFINE n == Len(events[r])
<1>1. n \in Nat /\ n \in 1..n /\ DOMAIN events[r] = 1..n
  BY LastEvent DEF RunsInv
<1>2. n = 2
  BY <1>1 DEF LogChain, LastType
<1>3. events[r][1].type = "RUN_QUEUED" /\ events[r][2].type = "RUN_STARTED"
  BY <1>1, <1>2 DEF RunsInv, QueuedFirst, LastType
<1>4. \A i \in DOMAIN events[r] : i = 1 \/ i = 2
  BY <1>1, <1>2
<1>5. QED
  BY <1>3, <1>4 DEF HasEvent

\* At most one resume of a run is live: when an answer arrives, no earlier
\* resume is, because the run waits.
LEMMA ResumesStep ==
    ASSUME RunsInv, RunsNext, Orderly, LogChain, OneHandlerPerJob, ActiveRuns, ResumesAnswer,
           ~setting.shared => AskedOnce
    PROVE  ResumesAnswer'
<1>1. Typed /\ LogFits /\ JobsSane
  BY DEF RunsInv
<1>2. ~setting.reaper /\ setting' = setting
  BY DEF Orderly, RunsNext
<1>3. \A j \in DOMAIN jobs : jobs[j].run \in Runs
  <2>1. \A j \in DOMAIN jobs : jobs[j] \in JobRow
    BY <1>1 DEF Typed
  <2>2. QED
    BY <2>1 DEF JobRow
<1>4. \A j \in DOMAIN jobs :
         j \in DOMAIN jobs' /\ jobs'[j].run = jobs[j].run /\ jobs'[j].type = jobs[j].type
  BY JobsFit
<1>5. \A j \in DOMAIN jobs : jobs[j].type = "RESUME" => HasEvent(jobs[j].run, "RUN_RESUME_QUEUED")'
  <2>1. ASSUME NEW j \in DOMAIN jobs, jobs[j].type = "RESUME", NEW q \in Runs, q = jobs[j].run
        PROVE  HasEvent(q, "RUN_RESUME_QUEUED")'
    BY <2>1, EventsStay DEF ResumesAnswer
  <2>2. QED
    BY <1>3, <1>4, <2>1 DEF HasEvent
<1>6. \A j \in DOMAIN jobs : Live(j)' => Live(j)
  BY <1>2, LiveStep
<1>7. ASSUME DOMAIN jobs' = DOMAIN jobs,
             ASSUME NEW j \in DOMAIN jobs, jobs[j].type = "RESUME", setting.faults = 0, Live(j)'
             PROVE  run'[jobs[j].run].status # "WAITING_CONFIRMATION"
      PROVE  ResumesAnswer'
  <2>1. \A i \in DOMAIN jobs' : jobs'[i].run = jobs[i].run /\ jobs'[i].type = jobs[i].type
    BY <1>4, <1>7
  <2>2. ASSUME NEW j \in DOMAIN jobs', jobs'[j].type = "RESUME"
        PROVE  /\ HasEvent(jobs[j].run, "RUN_RESUME_QUEUED")'
               /\ \A i \in DOMAIN jobs' :
                     jobs'[i].type = "RESUME" /\ jobs'[i].run = jobs'[j].run /\ Live(i)' /\ Live(j)'
                        => i = j
               /\ setting'.faults = 0 /\ Live(j)' =>
                     run'[jobs'[j].run].status # "WAITING_CONFIRMATION"
    BY <1>2, <1>5, <1>6, <1>7, <2>1, <2>2 DEF ResumesAnswer
  <2>3. QED
    BY <2>2 DEF ResumesAnswer
<1>8. CASE \E r \in Runs, mode \in Modes, thread \in Runs : CreateRun(r, mode, thread)
  <2>1. PICK r \in Runs, mode \in Modes, thread \in Runs : CreateRun(r, mode, thread)
    BY <1>8
  <2> DEFINE n == Len(jobs)
  <2>2. /\ n \in Nat /\ DOMAIN jobs = 1..n /\ DOMAIN jobs' = 1..(n + 1)
        /\ jobs'[n + 1].type = "EXECUTE"
    <3>1. n \in Nat
      BY <1>1 DEF Typed
    <3>2. Enqueue(r, "EXECUTE")
      BY <2>1 DEF CreateRun
    <3>3. /\ DOMAIN jobs = 1..n /\ DOMAIN jobs' = 1..(n + 1)
          /\ jobs'[n + 1] = [run |-> r, type |-> "EXECUTE", status |-> "PENDING", attempts |-> 0]
      BY <1>1, <3>2, JobAdded
    <3> HIDE DEF n
    <3>4. QED
      BY <3>1, <3>3
  <2> HIDE DEF n
  <2>3. \A j \in DOMAIN jobs' : jobs'[j].type = "RESUME" => j \in DOMAIN jobs
    BY <2>2
  <2>4. /\ \A q \in Runs \ {r} : run'[q] = run[q]
        /\ run'[r].status = "QUEUED"
    BY <1>1, <2>1, CreateEffect
  <2>5. QED
    BY <1>2, <1>3, <1>4, <1>5, <1>6, <2>3, <2>4 DEF ResumesAnswer
<1>9. CASE \E r \in Runs, action \in {"CONFIRM", "CANCEL"}, d \in Drafts : ResumeRun(r, action, d)
  <2>1. PICK r \in Runs, action \in {"CONFIRM", "CANCEL"}, d \in Drafts : ResumeRun(r, action, d)
    BY <1>9
  <2>2. PICK e \in Event :
           /\ Advances(r, "QUEUED", e) /\ e.type = "RUN_RESUME_QUEUED"
           /\ run[r].status = "WAITING_CONFIRMATION"
    BY <1>1, <2>1, ResumeEffect
  <2> DEFINE n == Len(jobs)
  <2>3. /\ n \in Nat /\ DOMAIN jobs = 1..n /\ DOMAIN jobs' = 1..(n + 1)
        /\ jobs'[n + 1].run = r
    <3>1. n \in Nat
      BY <1>1 DEF Typed
    <3>2. Enqueue(r, "RESUME")
      BY <2>1 DEF ResumeRun
    <3>3. /\ DOMAIN jobs = 1..n /\ DOMAIN jobs' = 1..(n + 1)
          /\ jobs'[n + 1] = [run |-> r, type |-> "RESUME", status |-> "PENDING", attempts |-> 0]
      BY <1>1, <3>2, JobAdded
    <3> HIDE DEF n
    <3>4. QED
      BY <3>1, <3>3
  <2> HIDE DEF n
  <2>4. \A j \in DOMAIN jobs' : j \in DOMAIN jobs \/ j = n + 1
    BY <2>3
  <2>5. HasEvent(r, "RUN_RESUME_QUEUED")'
    BY <1>1, <2>2, AdvanceEffect DEF HasEvent
  <2>6. \A j \in DOMAIN jobs : jobs[j].type = "RESUME" /\ jobs[j].run = r => ~Live(j)
    <3>1. setting.faults = 0 \/ ~setting.shared
      BY DEF Orderly
    <3>2. CASE setting.faults = 0
      BY <2>2, <3>2 DEF ResumesAnswer
    <3>3. CASE ~setting.shared
      <4>1. ~HasEvent(r, "RUN_RESUME_QUEUED")
        BY <2>2, <3>3 DEF AskedOnce
      <4>2. QED
        BY <4>1 DEF ResumesAnswer
    <3>4. QED
      BY <3>1, <3>2, <3>3
  <2>7. /\ \A q \in Runs \ {r} : run'[q] = run[q]
        /\ run'[r].status = "QUEUED"
    BY <1>1, <2>2, AdvanceEffect
  <2>8. ASSUME NEW j \in DOMAIN jobs', jobs'[j].type = "RESUME"
        PROVE  HasEvent(jobs[j].run, "RUN_RESUME_QUEUED")'
    BY <1>4, <1>5, <2>3, <2>4, <2>5, <2>8 DEF HasEvent
  <2>9. ASSUME NEW j \in DOMAIN jobs', jobs'[j].type = "RESUME",
               NEW i \in DOMAIN jobs', jobs'[i].type = "RESUME", jobs'[i].run = jobs'[j].run,
               Live(i)', Live(j)'
        PROVE  i = j
    BY <1>4, <1>6, <2>3, <2>4, <2>6, <2>9 DEF ResumesAnswer
  <2>10. ASSUME NEW j \in DOMAIN jobs', jobs'[j].type = "RESUME", setting.faults = 0, Live(j)'
         PROVE  run'[jobs'[j].run].status # "WAITING_CONFIRMATION"
    BY <1>3, <1>4, <1>6, <2>3, <2>4, <2>7, <2>10 DEF ResumesAnswer
  <2>11. QED
    BY <1>2, <2>8, <2>9, <2>10 DEF ResumesAnswer
<1>10. CASE (\E j \in DOMAIN jobs : Claim(j)) \/ (\E h \in handlers : Return(h) \/ Raise(h))
  <2>1. DOMAIN jobs' = DOMAIN jobs
    BY <1>1, <1>10, JobClaimed, JobSet, RunOfHandler DEF Return, Raise
  <2>2. UNCHANGED run
    BY <1>10 DEF Claim, Return, Raise
  <2>3. QED
    BY <1>6, <1>7, <2>1, <2>2 DEF ResumesAnswer
<1>11. CASE \E h \in handlers, g \in HandlerRow : Moved(h, g)
  <2>1. PICK h \in handlers, g \in HandlerRow : Moved(h, g)
    BY <1>11
  <2>2. /\ handlers' = (handlers \ {h}) \cup {g} /\ UNCHANGED jobs
        /\ g.job = h.job /\ MovesLog(h, g)
    BY <2>1 DEF Moved, Continues, Becomes
  <2>3. PICK r \in Runs : r = RunOf(h)
    BY <1>1, RunOfHandler
  <2>4. ASSUME NEW j \in DOMAIN jobs, jobs[j].type = "RESUME", setting.faults = 0, Live(j)'
        PROVE  run'[jobs[j].run].status # "WAITING_CONFIRMATION"
    <3>1. Live(j) /\ run[jobs[j].run].status # "WAITING_CONFIRMATION"
      BY <1>6, <2>4 DEF ResumesAnswer
    <3>2. CASE UNCHANGED <<run, events>>
      BY <3>1, <3>2
    <3>3. CASE Begins(h)
      <4>1. PICK e : Advances(r, "RUNNING", e)
        BY <2>3, <3>3 DEF Begins
      <4>2. QED
        BY <1>1, <1>3, <3>1, <4>1, AdvanceEffect
    <3>4. CASE Ends(h) /\ Active(h) /\ (setting.faults = 0 /\ Waits(h) => g.at = "return")
      <4>1. PICK s \in {"WAITING_CONFIRMATION"} \cup Terminal, e \in Event :
               Advances(r, s, e) /\ (s = "WAITING_CONFIRMATION" => Waits(h))
        BY <2>3, <3>4 DEF Ends
      <4>2. /\ \A q \in Runs \ {r} : run'[q] = run[q]
            /\ run'[r].status = s
        BY <1>1, <4>1, AdvanceEffect
      <4>3. SUFFICES ASSUME jobs[j].run = r, Waits(h), g.at = "return" PROVE FALSE
        BY <1>3, <2>4, <3>1, <3>4, <4>1, <4>2
      <4>4. AtWork(h) /\ run[r].status # "ABSENT"
        BY <2>3, <3>4 DEF ActiveRuns, AtWork
      <4>5. ~Kind(h, "EXECUTE")
        <5>1. HasEvent(r, "RUN_RESUME_QUEUED")
          BY <2>4, <4>3 DEF ResumesAnswer
        <5>2. QED
          BY <2>3, <4>4, <5>1, NotYetAsked DEF AtWork
      <4>6. h.job \in DOMAIN jobs /\ jobs[h.job].type = "RESUME" /\ jobs[h.job].run = r
        BY <1>1, <2>3, <4>5, RunOfHandler DEF Kind, JobRow
      <4>7. Live(h.job)
        BY <3>4 DEF Live, Active
      <4>8. h.job = j
        BY <2>4, <3>1, <4>3, <4>6, <4>7 DEF ResumesAnswer
      <4>9. \A f \in handlers' : f.job = j => f = g
        BY <2>2, <4>8 DEF OneHandlerPerJob
      <4>10. jobs'[j].status # "PENDING"
        BY <2>2, <4>8 DEF OneHandlerPerJob, Current
      <4>11. QED
        BY <2>4, <4>3, <4>9, <4>10 DEF Live
    <3>5. QED
      BY <2>2, <3>2, <3>3, <3>4 DEF MovesLog
  <2>5. QED
    BY <1>7, <2>2, <2>4
<1>12. QED
  BY <1>2, <1>8, <1>9, <1>10, <1>11, StepKinds DEF Reap

\* An answer in the log comes after the confirmation it answers.
LEMMA AskedBefore ==
    ASSUME Typed, QueuedFirst, LogChain, NEW r \in Runs, HasEvent(r, "RUN_RESUME_QUEUED")
    PROVE  HasEvent(r, "WAITING_CONFIRMATION")
<1>1. PICK i \in 1..Len(events[r]) : events[r][i].type = "RUN_RESUME_QUEUED"
  BY DEF HasEvent, Typed
<1>2. i # 1
  BY <1>1 DEF QueuedFirst
<1>3. i - 1 \in 1..(Len(events[r]) - 1) /\ (i - 1) + 1 = i /\ i - 1 \in DOMAIN events[r]
  BY <1>1, <1>2 DEF Typed
<1>4. Follows(events[r][i - 1], events[r][i])
  BY <1>3 DEF LogChain
<1>5. QED
  BY <1>1, <1>3, <1>4 DEF Follows, HasEvent, Outcomes

\* The facts about the threads of their own, for a step that changes no thread,
\* log or checkpoint, and no handler that is active.
LEMMA AskedOnceStep ==
    ASSUME RunsInv, RunsNext, ~setting.reaper, ~setting.shared, LogChain, OneHandlerPerJob,
           ActiveRuns, ResumesAnswer, AskedOnce
    PROVE  AskedOnce'
<1>1. Typed /\ LogFits /\ QueuedFirst /\ JobsSane
  BY DEF RunsInv
<1>2. \A f \in handlers : RunOf(f) \in Runs /\ run[RunOf(f)].status # "ABSENT"
  BY <1>1, RunOfHandler DEF JobsSane
<1>3. \A f \in handlers : Thread(f) = RunOf(f)
  BY <1>2 DEF AskedOnce, Thread
<1> DEFINE RunAsked(q) ==
             /\ run'[q].thread = q
             /\ HasEvent(q, "RUN_RESUME_QUEUED")' => run'[q].status # "WAITING_CONFIRMATION"
             /\ HasEvent(q, "WAITING_CONFIRMATION")' => ~Fresh(checkpoint'[q])
             /\ Named(checkpoint'[q])
             /\ \A i, k \in DOMAIN events'[q] :
                   events'[q][i].type = "RUN_RESUME_QUEUED" /\ events'[q][k].type = "RUN_RESUME_QUEUED"
                      => i = k
           HandlerAsked(f) ==
             /\ Named(f.seen)
             /\ Waits(f) => Kind(f, "EXECUTE")' /\ checkpoint'[RunOf(f)'].at = "interrupted"
             /\ f.at = "graph" /\ Kind(f, "RESUME")' => ~Fresh(f.seen)
<1>4. SUFFICES (\A q \in Runs : RunAsked(q)) /\ (\A f \in handlers' : HandlerAsked(f))
  BY DEF AskedOnce, OneDecisionPerRun, Waits, Named, Fresh
<1>5. ASSUME NEW q \in Runs, run'[q] = run[q], events'[q] = events[q],
             checkpoint'[q] = checkpoint[q]
      PROVE  RunAsked(q)
  BY <1>5 DEF AskedOnce, OneDecisionPerRun, HasEvent
<1>6. ASSUME NEW f \in handlers, checkpoint'[RunOf(f)] = checkpoint[RunOf(f)]
      PROVE  HandlerAsked(f)
  <2>1. RunOf(f)' = RunOf(f) /\ \A ty : Kind(f, ty)' <=> Kind(f, ty)
    BY HandlerFrame
  <2>2. QED
    BY <1>6, <2>1 DEF AskedOnce
<1>7. CASE \E r \in Runs, mode \in Modes, thread \in Runs : CreateRun(r, mode, thread)
  <2>1. PICK r \in Runs, mode \in Modes, thread \in Runs : CreateRun(r, mode, thread)
    BY <1>7
  <2>2. /\ \A q \in Runs \ {r} : run'[q] = run[q] /\ events'[q] = events[q]
        /\ run'[r].status = "QUEUED" /\ run'[r].thread = thread
        /\ DOMAIN events'[r] = 1..1 /\ events'[r][1].type = "RUN_QUEUED"
    BY <1>1, <2>1, CreateEffect
  <2>3. thread = r /\ UNCHANGED <<handlers, checkpoint>>
    BY <2>1 DEF CreateRun
  <2>4. \A i \in DOMAIN events'[r] : events'[r][i].type = "RUN_QUEUED"
    BY <2>2
  <2>5. ~HasEvent(r, "RUN_RESUME_QUEUED")' /\ ~HasEvent(r, "WAITING_CONFIRMATION")'
    BY <2>4 DEF HasEvent
  <2>6. RunAsked(r)
    BY <2>2, <2>3, <2>4, <2>5 DEF AskedOnce
  <2>7. QED
    BY <1>5, <1>6, <2>2, <2>3, <2>6
<1>8. CASE \E r \in Runs, action \in {"CONFIRM", "CANCEL"}, d \in Drafts : ResumeRun(r, action, d)
  <2>1. PICK r \in Runs, action \in {"CONFIRM", "CANCEL"}, d \in Drafts : ResumeRun(r, action, d)
    BY <1>8
  <2>2. PICK e \in Event :
           /\ Advances(r, "QUEUED", e) /\ e.type = "RUN_RESUME_QUEUED"
           /\ run[r].status = "WAITING_CONFIRMATION" /\ LastType(r) = "WAITING_CONFIRMATION"
    BY <1>1, <2>1, ResumeEffect
  <2> DEFINE n == Len(events[r])
  <2>3. /\ \A q \in Runs \ {r} : run'[q] = run[q] /\ events'[q] = events[q]
        /\ run'[r].status = "QUEUED" /\ run'[r].thread = run[r].thread
        /\ n \in Nat /\ n >= 1 /\ events'[r][n + 1] = e
        /\ \A i \in 1..n : events'[r][i] = events[r][i]
        /\ DOMAIN events[r] = 1..n /\ DOMAIN events'[r] = 1..(n + 1)
    BY <1>1, <2>2, AdvanceEffect
  <2>4. UNCHANGED <<handlers, checkpoint>>
    BY <2>1 DEF ResumeRun
  <2>5. \A i \in 1..n : events[r][i].type # "RUN_RESUME_QUEUED"
    BY <2>2, <2>3 DEF AskedOnce, HasEvent
  <2>6. HasEvent(r, "WAITING_CONFIRMATION")
    BY <2>1 DEF ResumeRun
  <2> HIDE DEF n
  <2>7. \A i \in DOMAIN events'[r] : events'[r][i].type = "RUN_RESUME_QUEUED" => i = n + 1
    <3>1. \A i \in DOMAIN events'[r] : i \in 1..n \/ i = n + 1
      BY <2>3
    <3>2. QED
      BY <2>3, <2>5, <3>1
  <2>8. RunAsked(r)
    BY <2>3, <2>4, <2>6, <2>7 DEF AskedOnce
  <2>9. QED
    BY <1>5, <1>6, <2>3, <2>4, <2>8
<1>9. CASE \E j \in DOMAIN jobs : Claim(j)
  <2>1. PICK j \in DOMAIN jobs : Claim(j)
    BY <1>9
  <2>2. PICK g : handlers' = handlers \cup {g} /\ g.at = "prepare" /\ g.seen.at = "none"
    BY <2>1, NewHandler
  <2>3. UNCHANGED <<run, events, checkpoint>>
    BY <2>1 DEF Claim
  <2>4. HandlerAsked(g)
    BY <2>2 DEF Waits, Named
  <2>5. QED
    BY <1>5, <1>6, <2>2, <2>3, <2>4
<1>10. CASE \E h \in handlers : Return(h) \/ Raise(h)
  <2>1. handlers' \subseteq handlers /\ UNCHANGED <<run, events, checkpoint>>
    BY <1>10 DEF Return, Raise
  <2>2. QED
    BY <1>5, <1>6, <2>1
<1>11. CASE \E h \in handlers, g \in HandlerRow : Moved(h, g)
  <2>1. PICK h \in handlers, g \in HandlerRow : Moved(h, g)
    BY <1>11
  <2>2. PICK r \in Runs : r = RunOf(h) /\ r = Thread(h) /\ run[r].status # "ABSENT"
    BY <1>2, <1>3
  <2>3. /\ handlers' = (handlers \ {h}) \cup {g} /\ g.job = h.job
        /\ MovesLog(h, g) /\ MovesGraph(h, g)
    BY <2>1 DEF Moved, Continues, Becomes
  <2>4. RunOf(g)' = r /\ \A ty : Kind(g, ty)' <=> Kind(h, ty)
    BY <2>2, <2>3, HandlerFrame
  <2>5. Active(h) /\ Kind(h, "EXECUTE") =>
           ~HasEvent(r, "RUN_RESUME_QUEUED") /\ ~HasEvent(r, "WAITING_CONFIRMATION")
    BY <2>2, NotYetAsked DEF ActiveRuns, AtWork
  <2>6. Active(h) /\ Kind(h, "RESUME") => HasEvent(r, "WAITING_CONFIRMATION")
    <3>1. SUFFICES ASSUME Kind(h, "RESUME") PROVE HasEvent(r, "WAITING_CONFIRMATION")
      OBVIOUS
    <3>2. HasEvent(r, "RUN_RESUME_QUEUED")
      BY <1>1, <2>2, <3>1, RunOfHandler DEF ResumesAnswer, Kind
    <3>3. QED
      BY <1>1, <2>2, <3>2, AskedBefore
  <2>7. /\ \A q \in Runs \ {r} : run'[q] = run[q] /\ events'[q] = events[q]
        /\ run'[r].thread = run[r].thread
    <3>1. (\E s, e : Advances(r, s, e)) \/ UNCHANGED <<run, events>>
      BY <2>2, <2>3 DEF MovesLog, Begins, Ends
    <3>2. QED
      BY <1>1, <3>1, AdvanceEffect
  <2>8. checkpoint \in [Runs -> Checkpoint] /\ \A q \in Runs \ {r} : checkpoint'[q] = checkpoint[q]
    BY <1>1, <2>2, <2>3 DEF MovesGraph, Typed
  <2>9. \A q \in Runs \ {r} : RunAsked(q)
    BY <1>5, <2>7, <2>8
  <2>10. RunAsked(r)
    <3>1. CASE UNCHANGED <<run, events>>
      <4>1. CASE UNCHANGED checkpoint
        BY <1>5, <3>1, <4>1
      <4>2. CASE /\ Active(h)
                 /\ \E c : /\ Named(c) /\ checkpoint' = [checkpoint EXCEPT ![r] = c]
                           /\ Named(h.seen) /\ Fresh(c) => Kind(h, "EXECUTE")
        <5>1. PICK c : /\ Named(c) /\ checkpoint' = [checkpoint EXCEPT ![r] = c]
                       /\ Named(h.seen) /\ Fresh(c) => Kind(h, "EXECUTE")
          BY <4>2
        <5>2. checkpoint'[r] = c
          BY <2>8, <5>1
        <5>3. Named(h.seen)
          BY DEF AskedOnce
        <5>4. HasEvent(r, "WAITING_CONFIRMATION") => ~Fresh(c)
          BY <2>5, <4>2, <5>1, <5>3
        <5>5. QED
          BY <3>1, <5>1, <5>2, <5>4 DEF AskedOnce, OneDecisionPerRun, HasEvent
      <4>3. QED
        BY <2>2, <2>3, <4>1, <4>2 DEF MovesGraph
    <3>2. ASSUME NEW s, NEW e, Advances(r, s, e), e.type # "RUN_RESUME_QUEUED",
                 s # "WAITING_CONFIRMATION", e.type # "WAITING_CONFIRMATION",
                 checkpoint' = checkpoint
          PROVE  RunAsked(r)
      <4>1. /\ run'[r].status = s /\ run'[r].thread = r
            /\ \A i \in DOMAIN events'[r] :
                  \/ i \in DOMAIN events[r] /\ events'[r][i] = events[r][i]
                  \/ events'[r][i] = e
        <5> DEFINE n == Len(events[r])
        <5>1. /\ run'[r].status = s /\ run'[r].thread = run[r].thread
              /\ n \in Nat /\ events'[r][n + 1] = e
              /\ \A i \in 1..n : events'[r][i] = events[r][i]
              /\ DOMAIN events[r] = 1..n /\ DOMAIN events'[r] = 1..(n + 1)
          BY <1>1, <3>2, AdvanceEffect
        <5> HIDE DEF n
        <5>2. \A i \in DOMAIN events'[r] : i \in 1..n \/ i = n + 1
          BY <5>1
        <5>3. QED
          BY <5>1, <5>2 DEF AskedOnce
      <4>2. QED
        BY <3>2, <4>1 DEF AskedOnce, OneDecisionPerRun, HasEvent
    <3>3. CASE Begins(h) /\ checkpoint' = checkpoint
      BY <2>2, <3>2, <3>3 DEF Begins
    <3>4. CASE Ends(h) /\ Active(h) /\ checkpoint' = checkpoint
      <4>1. PICK s \in {"WAITING_CONFIRMATION"} \cup Terminal, e \in Event :
               Advances(r, s, e) /\ (s = "WAITING_CONFIRMATION" => Waits(h))
        BY <2>2, <3>4 DEF Ends
      <4>2. /\ e.type # "RUN_RESUME_QUEUED"
            /\ e.type = "WAITING_CONFIRMATION" <=> s = "WAITING_CONFIRMATION"
        BY <4>1, EndsWith DEF Outcomes
      <4>3. CASE s # "WAITING_CONFIRMATION"
        BY <3>2, <3>4, <4>1, <4>2, <4>3
      <4>4. CASE s = "WAITING_CONFIRMATION"
        <5>1. Kind(h, "EXECUTE") /\ checkpoint[r].at = "interrupted"
          BY <2>2, <4>1, <4>4 DEF AskedOnce
        <5>2. ~HasEvent(r, "RUN_RESUME_QUEUED")
          BY <2>5, <3>4, <5>1
        <5> DEFINE n == Len(events[r])
        <5>3. /\ run'[r].thread = run[r].thread
              /\ n \in Nat /\ events'[r][n + 1] = e
              /\ \A i \in 1..n : events'[r][i] = events[r][i]
              /\ DOMAIN events[r] = 1..n /\ DOMAIN events'[r] = 1..(n + 1)
          BY <1>1, <4>1, AdvanceEffect
        <5> HIDE DEF n
        <5>4. \A i \in DOMAIN events'[r] : i \in 1..n \/ i = n + 1
          BY <5>3
        <5>5. \A i \in DOMAIN events'[r] : events'[r][i].type # "RUN_RESUME_QUEUED"
          BY <4>2, <5>2, <5>3, <5>4 DEF HasEvent
        <5>6. ~HasEvent(r, "RUN_RESUME_QUEUED")'
          BY <5>5 DEF HasEvent
        <5>7. ~Fresh(checkpoint'[r]) /\ Named(checkpoint'[r])
          BY <3>4, <5>1 DEF Fresh, AskedOnce
        <5>8. QED
          BY <5>3, <5>5, <5>6, <5>7 DEF AskedOnce
      <4>5. QED
        BY <4>3, <4>4
    <3>5. QED
      BY <2>3, <3>1, <3>3, <3>4 DEF MovesLog, MovesGraph
  <2>11. HandlerAsked(g)
    <3>1. Named(g.seen)
      BY <2>2, <2>3 DEF MovesGraph, AskedOnce
    <3>2. Waits(g) => Kind(g, "EXECUTE")' /\ checkpoint'[RunOf(g)'].at = "interrupted"
      BY <2>2, <2>3, <2>4 DEF MovesGraph, AskedOnce
    <3>3. g.at = "graph" /\ Kind(g, "RESUME")' => ~Fresh(g.seen)
      BY <2>2, <2>3, <2>4, <2>6 DEF MovesGraph, AskedOnce
    <3>4. QED
      BY <3>1, <3>2, <3>3
  <2>12. ASSUME NEW f \in handlers \ {h}
         PROVE  HandlerAsked(f)
    <3>1. CASE checkpoint'[RunOf(f)] = checkpoint[RunOf(f)]
      BY <1>6, <3>1
    <3>2. CASE checkpoint'[RunOf(f)] # checkpoint[RunOf(f)]
      <4>1. RunOf(f) = r /\ Active(h)
        BY <1>2, <2>3, <2>8, <3>2 DEF MovesGraph
      <4>2. ~Waits(f)
        BY <2>2, <4>1, SoleActive DEF Waits, Active
      <4>3. \A ty : Kind(f, ty)' <=> Kind(f, ty)
        BY HandlerFrame
      <4>4. QED
        BY <4>2, <4>3 DEF AskedOnce
    <3>3. QED
      BY <3>1, <3>2
  <2>13. QED
    BY <2>3, <2>9, <2>10, <2>11, <2>12
<1>12. QED
  BY <1>7, <1>8, <1>9, <1>10, <1>11, StepKinds DEF Reap

LEMMA OrderInitially == RunsInit => OrderInv
<1> SUFFICES ASSUME RunsInit PROVE OrderInv
  OBVIOUS
<1>1. /\ handlers = {} /\ DOMAIN jobs = {} /\ \A r \in Runs : events[r] = <<>>
      /\ \A r \in Runs : run[r].thread = r /\ checkpoint[r].at = "none"
  BY DEF RunsInit, NoCheckpoint
<1>2. \A r \in Runs : DOMAIN events[r] = {} /\ Len(events[r]) = 0
  BY <1>1
<1>3. LogChain
  BY <1>2 DEF LogChain
<1>4. OneHandlerPerJob /\ ActiveRuns /\ ResumesAnswer
  BY <1>1 DEF OneHandlerPerJob, ActiveRuns, ResumesAnswer
<1>5. AskedOnce
  BY <1>1, <1>2 DEF AskedOnce, HasEvent, OneDecisionPerRun, Named
<1>6. QED
  BY <1>3, <1>4, <1>5 DEF OrderInv

LEMMA OrderStep == RunsInv /\ OrderInv /\ [RunsNext]_runVars => OrderInv'
<1> SUFFICES ASSUME RunsInv, OrderInv, [RunsNext]_runVars PROVE OrderInv'
  OBVIOUS
<1>1. CASE RunsNext
  <2>1. setting' = setting
    BY <1>1 DEF RunsNext
  <2>2. SUFFICES ASSUME Orderly
                 PROVE  /\ LogChain' /\ OneHandlerPerJob' /\ ActiveRuns' /\ ResumesAnswer'
                        /\ ~setting.shared => AskedOnce'
    BY <2>1 DEF OrderInv, Orderly
  <2>3. /\ ~setting.reaper /\ LogChain /\ OneHandlerPerJob /\ ActiveRuns /\ ResumesAnswer
        /\ ~setting.shared => AskedOnce
    BY <2>2 DEF OrderInv, Orderly
  <2>4. QED
    BY <1>1, <2>2, <2>3, ChainStep, OneHandlerStep, ActiveStep, ResumesStep, AskedOnceStep
<1>2. CASE UNCHANGED runVars
  <2>1. /\ UNCHANGED <<setting, run, events, jobs, handlers, checkpoint>>
    BY <1>2 DEF runVars
  <2>2. /\ LogChain' <=> LogChain
        /\ OneHandlerPerJob' <=> OneHandlerPerJob
    BY <2>1 DEF LogChain, Follows, OneHandlerPerJob, Current
  <2>3. /\ ActiveRuns' <=> ActiveRuns
        /\ ResumesAnswer' <=> ResumesAnswer
    BY <2>1 DEF ActiveRuns, Active, AtWork, RunOf, Kind, LastType, ResumesAnswer, Live, HasEvent
  <2>4. AskedOnce' <=> AskedOnce
    BY <2>1 DEF AskedOnce, HasEvent, Fresh, Named, Waits, Kind, RunOf, OneDecisionPerRun
  <2>5. QED
    BY <2>1, <2>2, <2>3, <2>4 DEF OrderInv, Orderly
<1>3. QED
  BY <1>1, <1>2

LEMMA OrderInvariant == RunsSpec => []OrderInv
  BY OrderInitially, OrderStep, RunsInvariant, PTL DEF RunsSpec

\* Every answer follows the confirmation it answers and is taken up by a resume
\* before anything else is logged, wherever handlers keep their leases and, on a
\* shared thread, their transactions succeed.
THEOREM RunsAnswersAreTakenUp == RunsSpec => []AnswersAreTakenUp
<1>1. RunsInv /\ OrderInv => AnswersAreTakenUp
  <2>1. SUFFICES ASSUME RunsInv, LogChain, NEW r \in Runs, NEW i \in DOMAIN events[r],
                        events[r][i].type = "RUN_RESUME_QUEUED"
                 PROVE  /\ i > 1
                        /\ events[r][i - 1].type = "WAITING_CONFIRMATION"
                        /\ events[r][i - 1].draft = events[r][i].draft
                        /\ i < Len(events[r]) => events[r][i + 1].type = "RUN_RESUMED"
    BY DEF AnswersAreTakenUp, OrderInv, Orderly
  <2>2. DOMAIN events[r] = 1..Len(events[r]) /\ Len(events[r]) \in Nat
    BY DEF RunsInv, Typed
  <2>3. i # 1
    BY <2>1, <2>2 DEF RunsInv, QueuedFirst
  <2>4. i > 1 /\ i - 1 \in 1..(Len(events[r]) - 1) /\ (i - 1) + 1 = i
    BY <2>2, <2>3
  <2>5. Follows(events[r][i - 1], events[r][i])
    BY <2>1, <2>4 DEF LogChain
  <2>6. i < Len(events[r]) => Follows(events[r][i], events[r][i + 1])
    BY <2>1, <2>2 DEF LogChain
  <2>7. QED
    BY <2>1, <2>4, <2>5, <2>6 DEF Follows, Outcomes
<1>2. QED
  BY <1>1, RunsInvariant, OrderInvariant, PTL

\* Retries alone never put a second decision before the user of a run that has
\* its thread to itself, however many of its transactions fail.
THEOREM RunsDecideOnce == RunsSpec => []RetriesDecideOnce
<1>1. OrderInv => RetriesDecideOnce
  BY DEF OrderInv, Orderly, AskedOnce, RetriesDecideOnce
<1>2. QED
  BY <1>1, OrderInvariant, PTL

-----------------------------------------------------------------------------
(* The logs of the runs, as their readers see them. *)

\* A log that holds a terminal event belongs to a terminal run.
EndsClose ==
    \A r \in Runs : \A i \in DOMAIN events[r] :
        events[r][i].type \in TerminalTypes => run[r].status \in Terminal

\* A status is terminal exactly when the event that announces it is.
LEMMA EndTypes ==
    ASSUME NEW s, NEW ty, Fits(s, ty)
    PROVE  ty \in TerminalTypes <=> s \in Terminal
<1>1. TerminalTypes = {"RUN_SUCCEEDED", "RUN_REFUSED", "RUN_CANCELLED", "RUN_FAILED"}
  BY DEF TerminalTypes, TerminalEvent, Terminal
<1>2. CASE s \in Terminal /\ ty = TerminalEvent[s]
  BY <1>2 DEF TerminalTypes
<1>3. CASE \/ s = "QUEUED" /\ ty \in {"RUN_QUEUED", "RUN_RESUME_QUEUED"}
           \/ s = "RUNNING" /\ ty \in {"RUN_STARTED", "RUN_RESUMED"}
           \/ s = "WAITING_CONFIRMATION" /\ ty = "WAITING_CONFIRMATION"
  BY <1>1, <1>3 DEF Terminal
<1>4. QED
  BY <1>2, <1>3 DEF Fits

\* What an event does to the log it is appended to, as a reader sees it.
LEMMA LogExtends ==
    ASSUME RunsInv, EndsClose, NEW r \in Runs, run[r].status \notin Terminal,
           events'[r] # <<>>, NEW e, Fits(run'[r].status, e.type),
           Len(events'[r]) = Len(events[r]) + 1,
           events'[r][Len(events[r]) + 1] = e,
           \A i \in 1..Len(events[r]) : events'[r][i] = events[r][i],
           DOMAIN events'[r] = 1..(Len(events[r]) + 1)
    PROVE  /\ LogOf(r).state = "open"
           /\ LogOf(r)' \in {RunLogs!Grown(LogOf(r)), RunLogs!Ended(LogOf(r))}
           /\ \A i \in DOMAIN events'[r] :
                 events'[r][i].type \in TerminalTypes => run'[r].status \in Terminal
<1> DEFINE n == Len(events[r])
<1>1. n \in Nat /\ DOMAIN events[r] = 1..n
  BY DEF RunsInv, Typed
<1>2. \A i \in 1..n : events[r][i].type \notin TerminalTypes
  BY <1>1 DEF EndsClose
<1>3. e.type \in TerminalTypes <=> run'[r].status \in Terminal
  BY EndTypes
<1> HIDE DEF n
<1>4. \A i \in 1..(n + 1) : events'[r][i].type \in TerminalTypes <=> i = n + 1 /\ run'[r].status \in Terminal
  BY <1>1, <1>2, <1>3 DEF n
<1>5. LogOf(r) = [length |-> n, state |-> "open", ends |-> {}]
  <2>1. {i \in DOMAIN events[r] : events[r][i].type \in TerminalTypes} = {}
    BY <1>1, <1>2
  <2>2. QED
    BY <2>1 DEF LogOf, n
<1>6. CASE run'[r].status \in Terminal
  <2>1. {i \in DOMAIN events'[r] : events'[r][i].type \in TerminalTypes} = {n + 1}
    BY <1>1, <1>4, <1>6 DEF n
  <2>2. LogOf(r)' = [length |-> n + 1, state |-> "closed", ends |-> {n + 1}]
    BY <1>6, <2>1 DEF LogOf, n
  <2>3. LogOf(r)' = RunLogs!Ended(LogOf(r))
    BY <1>5, <2>2 DEF RunLogs!Ended
  <2>4. QED
    BY <1>4, <1>5, <2>3 DEF n
<1>7. CASE run'[r].status \notin Terminal
  <2>1. {i \in DOMAIN events'[r] : events'[r][i].type \in TerminalTypes} = {}
    BY <1>1, <1>4, <1>7 DEF n
  <2>2. LogOf(r)' = [length |-> n + 1, state |-> "open", ends |-> {}]
    BY <1>7, <2>1 DEF LogOf, n
  <2>3. LogOf(r)' = RunLogs!Grown(LogOf(r))
    BY <1>5, <2>2 DEF RunLogs!Grown
  <2>4. QED
    BY <1>4, <1>5, <2>3 DEF n
<1>8. QED
  BY <1>6, <1>7

\* A transaction extends one log, or none.
LEMMA LogsStep ==
    ASSUME RunsInv, RunsInv', EndsClose, [RunsNext]_runVars
    PROVE  /\ EndsClose'
           /\ [RunLogs!LogNext]_VisibleLogs
<1>1. ASSUME NEW r \in Runs, run[r].status \notin Terminal, 
             LogOf(r)' \in {RunLogs!Grown(LogOf(r)), RunLogs!Ended(LogOf(r))},
             LogOf(r).state = "open",
             \A q \in Runs \ {r} : run'[q] = run[q] /\ events'[q] = events[q],
             \A i \in DOMAIN events'[r] :
                 events'[r][i].type \in TerminalTypes => run'[r].status \in Terminal
      PROVE  EndsClose' /\ RunLogs!LogNext
  <2>1. EndsClose'
    <3>1. SUFFICES ASSUME NEW q \in Runs, NEW i \in DOMAIN events'[q],
                          events'[q][i].type \in TerminalTypes
                   PROVE  run'[q].status \in Terminal
      BY DEF EndsClose
    <3>2. CASE q = r
      BY <1>1, <3>1, <3>2
    <3>3. CASE q # r
      BY <1>1, <3>1, <3>3 DEF EndsClose
    <3>4. QED
      BY <3>2, <3>3
  <2>2. \A q \in Runs \ {r} : LogOf(q)' = LogOf(q)
    BY <1>1 DEF LogOf
  <2>3. PICK p : p = LogOf(r)'
    OBVIOUS
  <2>4. VisibleLogs' = [VisibleLogs EXCEPT ![r] = p]
    BY <2>2, <2>3 DEF VisibleLogs
  <2>5. VisibleLogs[r] = LogOf(r)
    BY DEF VisibleLogs
  <2>6. QED
    BY <1>1, <2>1, <2>3, <2>4, <2>5 DEF RunLogs!LogNext
<1>2. CASE UNCHANGED <<run, events>>
  BY <1>2 DEF EndsClose, LogOf, VisibleLogs
<1>3. CASE \E r \in Runs, mode \in Modes, thread \in Runs : CreateRun(r, mode, thread)
  <2>1. PICK r \in Runs, mode \in Modes, thread \in Runs : CreateRun(r, mode, thread)
    BY <1>3
  <2>2. /\ \A q \in Runs \ {r} : run'[q] = run[q] /\ events'[q] = events[q]
        /\ run'[r].status = "QUEUED"
        /\ Len(events'[r]) = 1 /\ DOMAIN events'[r] = 1..1 /\ events'[r][1].type = "RUN_QUEUED"
        /\ run[r].status = "ABSENT" /\ Len(events[r]) = 0
    BY <2>1, CreateEffect DEF RunsInv
  <2>3. /\ run[r].status \notin Terminal /\ events'[r] # <<>>
        /\ Fits(run'[r].status, events'[r][1].type)
    BY <2>2 DEF Terminal, Fits
  <2>4. /\ LogOf(r).state = "open"
        /\ LogOf(r)' \in {RunLogs!Grown(LogOf(r)), RunLogs!Ended(LogOf(r))}
        /\ \A i \in DOMAIN events'[r] :
              events'[r][i].type \in TerminalTypes => run'[r].status \in Terminal
    <3>1. PICK e : e = events'[r][1]
      OBVIOUS
    <3>2. /\ Len(events'[r]) = Len(events[r]) + 1 /\ events'[r][Len(events[r]) + 1] = e
          /\ DOMAIN events'[r] = 1..(Len(events[r]) + 1)
          /\ \A i \in 1..Len(events[r]) : events'[r][i] = events[r][i]
      BY <2>2, <3>1
    <3>3. QED
      BY <2>3, <3>1, <3>2, LogExtends
  <2>5. QED
    BY <1>1, <2>2, <2>3, <2>4
<1>4. CASE \E r \in Runs, s \in RunStates, e \in Event : Advances(r, s, e)
  <2>1. PICK r \in Runs, s \in RunStates, e \in Event : Advances(r, s, e)
    BY <1>4
  <2>2. /\ \A q \in Runs \ {r} : run'[q] = run[q] /\ events'[q] = events[q]
        /\ run'[r].status = s
        /\ Len(events[r]) \in Nat
        /\ Len(events'[r]) = Len(events[r]) + 1
        /\ events'[r][Len(events[r]) + 1] = e
        /\ \A i \in 1..Len(events[r]) : events'[r][i] = events[r][i]
        /\ DOMAIN events'[r] = 1..(Len(events[r]) + 1)
    BY <2>1, AdvanceEffect DEF RunsInv
  <2>3. /\ run[r].status \notin Terminal /\ events'[r] # <<>>
        /\ Fits(run'[r].status, e.type)
    BY <2>1, <2>2 DEF Advances
  <2>4. /\ LogOf(r).state = "open"
        /\ LogOf(r)' \in {RunLogs!Grown(LogOf(r)), RunLogs!Ended(LogOf(r))}
        /\ \A i \in DOMAIN events'[r] :
              events'[r][i].type \in TerminalTypes => run'[r].status \in Terminal
    BY <2>2, <2>3, LogExtends
  <2>5. QED
    BY <1>1, <2>2, <2>3, <2>4
<1>5. CASE UNCHANGED runVars
  BY <1>2, <1>5 DEF runVars
<1>6. QED
  BY <1>2, <1>3, <1>4, <1>5, RunChange

\* A run's log, as its readers see it, is the one of RunLog: handlers of any jobs,
\* retried, reaped or concurrent, add one event at a time and nothing after the end.
THEOREM RunsImplementRunLog == RunsSpec => ImplementsRunLog
<1>1. ASSUME RunsInit PROVE RunLogs!LogInit /\ EndsClose
  <2>1. \A r \in Runs : DOMAIN events[r] = {} /\ Len(events[r]) = 0 /\ run[r].status \notin Terminal
    BY <1>1 DEF RunsInit, Terminal
  <2>2. \A r \in Runs : LogOf(r) = RunLogs!OpenLog(0)
    BY <2>1 DEF LogOf, RunLogs!OpenLog
  <2>3. QED
    BY <2>1, <2>2 DEF RunLogs!LogInit, EndsClose, VisibleLogs
<1>2. RunsInv /\ RunsInv' /\ EndsClose /\ [RunsNext]_runVars =>
        EndsClose' /\ [RunLogs!LogNext]_VisibleLogs
  BY LogsStep
<1>3. QED
  BY <1>1, <1>2, RunsInvariant, PTL DEF RunsSpec, ImplementsRunLog, RunLogs!LogSpec

\* RunLog itself: the shape of its logs.
LogTyped ==
    /\ VisibleLogs \in [Runs -> {VisibleLogs[r] : r \in Runs}]
    /\ \A r \in Runs : /\ VisibleLogs[r].length \in Nat
                       /\ VisibleLogs[r].state \in {"open", "closed"}
                       /\ VisibleLogs[r].ends \in {{}, {VisibleLogs[r].length}}
LEMMA RunLogEnds == RunLogs!LogSpec => []RunLogs!EndIsLast
<1>1. RunLogs!LogInit => LogTyped /\ RunLogs!EndIsLast
  BY DEF RunLogs!LogInit, RunLogs!OpenLog, LogTyped, RunLogs!EndIsLast
<1>2. ASSUME LogTyped, RunLogs!EndIsLast, [RunLogs!LogNext]_VisibleLogs
      PROVE  LogTyped' /\ RunLogs!EndIsLast'
  <2>1. CASE RunLogs!LogNext
    <3>0. PICK r \in Runs :
             /\ VisibleLogs[r].state = "open"
             /\ \E q \in {RunLogs!Grown(VisibleLogs[r]), RunLogs!Ended(VisibleLogs[r])} :
                   VisibleLogs' = [VisibleLogs EXCEPT ![r] = q]
      BY <2>1 DEF RunLogs!LogNext
    <3>1. PICK q \in {RunLogs!Grown(VisibleLogs[r]), RunLogs!Ended(VisibleLogs[r])} :
             VisibleLogs' = [VisibleLogs EXCEPT ![r] = q]
      BY <3>0
    <3>2. PICK n : n = VisibleLogs[r].length
      OBVIOUS
    <3>3. VisibleLogs[r].ends = {} /\ n \in Nat
      BY <1>2, <3>0, <3>2 DEF RunLogs!EndIsLast, LogTyped
    <3>4. \/ q = [length |-> n + 1, state |-> "open", ends |-> {}]
          \/ q = [length |-> n + 1, state |-> "closed", ends |-> {n + 1}]
      BY <3>1, <3>2, <3>3 DEF RunLogs!Grown, RunLogs!Ended
    <3>5. VisibleLogs'[r] = q /\ \A p \in Runs \ {r} : VisibleLogs'[p] = VisibleLogs[p]
      BY <1>2, <3>1 DEF LogTyped
    <3>6. VisibleLogs' \in [Runs -> {VisibleLogs'[p] : p \in Runs}]
      BY <1>2, <3>1 DEF LogTyped
    <3>7. /\ q.length \in Nat /\ q.state \in {"open", "closed"} /\ q.ends \in {{}, {q.length}}
          /\ q.ends = IF q.state = "closed" THEN {q.length} ELSE {}
      <4>1. n + 1 \in Nat
        BY <3>3
      <4>2. CASE q = [length |-> n + 1, state |-> "open", ends |-> {}]
        BY <4>1, <4>2
      <4>3. CASE q = [length |-> n + 1, state |-> "closed", ends |-> {n + 1}]
        BY <4>1, <4>3
      <4>4. QED
        BY <3>4, <4>2, <4>3
    <3>8. LogTyped'
      BY <1>2, <3>5, <3>6, <3>7 DEF LogTyped
    <3>9. RunLogs!EndIsLast'
      BY <1>2, <3>5, <3>7 DEF RunLogs!EndIsLast
    <3>10. QED
      BY <3>8, <3>9
  <2>2. CASE UNCHANGED VisibleLogs
    BY <1>2, <2>2 DEF LogTyped, RunLogs!EndIsLast
  <2>3. QED
    BY <1>2, <2>1, <2>2
<1>3. QED
  BY <1>1, <1>2, PTL DEF RunLogs!LogSpec

\* The sign that ends a stream is the same for every reader: in every setting the
\* terminal event of a run is its last one, and it is there exactly when the row
\* is terminal (iter_sse_events stops at either).
THEOREM RunsEndIsLast == RunsSpec => []RunLogs!EndIsLast
  BY RunsImplementRunLog, RunLogEnds, PTL DEF ImplementsRunLog

-----------------------------------------------------------------------------
(* The event stream over the log of one run. *)

\* While the generator runs, its cursor is the Last-Event-ID of the client.
CursorIsRecorded ==
    stream \in {"list", "emit", "check", "sleep"} => cursor = lastId

\* The page holds committed events, in order, from the cursor on.
PageFollowsCursor ==
    /\ \A i \in 1..Len(page) : page[i] = cursor + i
    /\ cursor + Len(page) <= logged
    /\ stream = "emit" => page # <<>>

\* The client has received every event up to the one it recorded.
RecordedPrefix ==
    /\ lastId <= logged
    /\ \A n \in 1..lastId : \E k \in 1..Len(received) : received[k] = n

\* Each delivery advances the recorded id or is the one in flight when a
\* connection broke.
DeliveriesBounded == Len(received) <= lastId + disconnects

StreamInv ==
    /\ StreamTypeOK
    /\ logged >= 1
    /\ CursorIsRecorded
    /\ PageFollowsCursor
    /\ RecordedPrefix
    /\ InOrderWithoutGaps
    /\ DeliveriesBounded

-----------------------------------------------------------------------------
\* What list_events_after returns: at most the events after the cursor, in order.
LEMMA FetchedPage ==
    ASSUME StreamTypeOK, cursor <= logged
    PROVE  /\ Fetched \in Seq(Ids)
           /\ Len(Fetched) <= logged - cursor
           /\ \A i \in 1..Len(Fetched) : Fetched[i] = cursor + i
<1> DEFINE n == MinOf(PageLimit, logged - cursor)
<1>1. n \in Nat /\ n <= logged - cursor
  BY StreamAssumption DEF StreamTypeOK, MinOf
<1>2. \A i \in 1..n : cursor + i \in Ids
  BY <1>1, StreamAssumption DEF StreamTypeOK, Ids
<1> HIDE DEF n
<1>3. [i \in 1..n |-> cursor + i] \in Seq(Ids)
  BY <1>1, <1>2, IsASeq
<1>4. Fetched = [i \in 1..n |-> cursor + i]
  BY DEF Fetched, n
<1>5. Len(Fetched) = n
  BY <1>1, <1>3, <1>4, LenProperties
<1>6. QED
  BY <1>1, <1>3, <1>4, <1>5

\* The next event of a page is the successor of the cursor.
LEMMA NextEvent ==
    ASSUME StreamTypeOK, PageFollowsCursor, stream = "emit"
    PROVE  /\ Head(page) = cursor + 1
           /\ Head(page) \in Ids
           /\ Head(page) <= logged
           /\ Tail(page) \in Seq(Ids)
           /\ Len(Tail(page)) = Len(page) - 1
           /\ \A i \in 1..Len(Tail(page)) : Tail(page)[i] = cursor + 1 + i
<1>1. page \in Seq(Ids) /\ page # <<>> /\ Len(page) \in Nat \ {0}
  BY EmptySeq DEF StreamTypeOK, PageFollowsCursor
<1>2. Head(page) = page[1] /\ 1 \in 1..Len(page)
  BY <1>1
<1>3. Head(page) = cursor + 1
  BY <1>2 DEF PageFollowsCursor
<1>4. /\ Head(page) \in Ids /\ Tail(page) \in Seq(Ids)
      /\ Len(Tail(page)) = Len(page) - 1
      /\ \A i \in 1..Len(Tail(page)) : Tail(page)[i] = page[i + 1]
  BY <1>1, HeadTailProperties
<1>5. \A i \in 1..Len(Tail(page)) : Tail(page)[i] = cursor + 1 + i
  BY <1>1, <1>4 DEF PageFollowsCursor, StreamTypeOK
<1>6. Head(page) <= logged
  BY <1>1, <1>3 DEF PageFollowsCursor, StreamTypeOK
<1>7. QED
  BY <1>3, <1>4, <1>5, <1>6

\* Delivering the successor of the recorded id keeps the order without gaps,
\* and everything up to that id has then been received.
LEMMA DeliverNext ==
    ASSUME StreamTypeOK, RecordedPrefix, InOrderWithoutGaps, lastId + 1 \in Ids,
           received' = Append(received, lastId + 1)
    PROVE  /\ received' \in Seq(Ids)
           /\ Len(received') = Len(received) + 1
           /\ \A n \in 1..(lastId + 1) : \E k \in 1..Len(received') : received'[k] = n
           /\ InOrderWithoutGaps'
<1>1. /\ received \in Seq(Ids) /\ Len(received) \in Nat /\ lastId \in Nat
      /\ DOMAIN received = 1..Len(received)
  BY LenProperties, StreamAssumption DEF StreamTypeOK
<1>2. /\ received' \in Seq(Ids) /\ Len(received') = Len(received) + 1
      /\ \A k \in 1..Len(received) : received'[k] = received[k]
      /\ received'[Len(received) + 1] = lastId + 1
  BY <1>1
<1>3. DOMAIN received' = 1..(Len(received) + 1)
  BY <1>1, <1>2
<1>4. \A n \in 1..lastId : \E k \in 1..Len(received) : received'[k] = n
  BY <1>2 DEF RecordedPrefix
<1>5. \A n \in 1..(lastId + 1) : \E k \in 1..Len(received') : received'[k] = n
  <2> SUFFICES ASSUME NEW n \in 1..(lastId + 1)
               PROVE  \E k \in 1..Len(received') : received'[k] = n
    OBVIOUS
  <2>1. CASE n = lastId + 1
    BY <1>1, <1>2, <2>1
  <2>2. CASE n \in 1..lastId
    BY <1>1, <1>2, <1>4, <2>2
  <2>3. QED
    BY <1>1, <2>1, <2>2
<1>6. InOrderWithoutGaps'
  <2> SUFFICES ASSUME NEW i \in 1..(Len(received) + 1), NEW n \in 1..(received'[i] - 1)
               PROVE  \E k \in 1..(i - 1) : received'[k] = n
    BY <1>3 DEF InOrderWithoutGaps
  <2>1. CASE i = Len(received) + 1
    BY <1>1, <1>2, <1>4, <2>1
  <2>2. CASE i \in 1..Len(received)
    <3>1. n \in 1..(received[i] - 1)
      BY <1>2, <2>2
    <3>2. PICK k \in 1..(i - 1) : received[k] = n
      BY <1>1, <2>2, <3>1 DEF InOrderWithoutGaps
    <3>3. QED
      BY <1>1, <1>2, <2>2, <3>2
  <2>3. QED
    BY <1>1, <2>1, <2>2
<1>7. QED
  BY <1>2, <1>5, <1>6

-----------------------------------------------------------------------------
LEMMA StreamInitInv == StreamInit => StreamInv
<1> SUFFICES ASSUME StreamInit PROVE StreamInv
  OBVIOUS
<1>1. Len(page) = 0 /\ Len(received) = 0 /\ page \in Seq(Ids) /\ received \in Seq(Ids)
  BY EmptySeq DEF StreamInit
<1>2. DOMAIN received = {}
  BY <1>1 DEF StreamInit
<1>3. StreamTypeOK
  <2>1. 0 \in 0..MaxEvents /\ 1 \in 0..MaxEvents /\ 0 \in 0..MaxDisconnects
    BY StreamAssumption
  <2>2. QED
    BY <1>1, <2>1, Zenon DEF StreamInit, StreamTypeOK, StreamStates
<1>4. InOrderWithoutGaps
  BY <1>2 DEF InOrderWithoutGaps
<1>5. CursorIsRecorded /\ PageFollowsCursor /\ RecordedPrefix /\ DeliveriesBounded
  BY <1>1 DEF StreamInit, CursorIsRecorded, PageFollowsCursor, RecordedPrefix,
              DeliveriesBounded
<1>6. QED
  BY <1>3, <1>4, <1>5 DEF StreamInv, StreamInit

LEMMA StreamStep ==
    ASSUME StreamInv, [StreamNext]_streamVars
    PROVE  StreamInv'
<1> USE StreamAssumption DEF StreamInv, StreamStates
<1>0. /\ Len(page) \in Nat /\ Len(received) \in Nat
      /\ Len(<<>>) = 0 /\ <<>> \in Seq(Ids)
  BY EmptySeq, LenProperties DEF StreamTypeOK
<1>1. CASE AppendEvent
  <2>1. finished' \in BOOLEAN
    BY <1>1 DEF AppendEvent, StreamTypeOK
  <2>2. /\ logged' = logged + 1 /\ logged < MaxEvents
        /\ UNCHANGED <<stream, cursor, page, received, lastId, disconnects>>
    BY <1>1 DEF AppendEvent
  <2>3. QED
    BY <1>0, <2>1, <2>2 DEF StreamTypeOK, CursorIsRecorded, PageFollowsCursor, RecordedPrefix,
                            InOrderWithoutGaps, DeliveriesBounded
<1>2. CASE Connect
  BY <1>0, <1>2 DEF Connect, ConnectAt, StreamTypeOK, CursorIsRecorded, PageFollowsCursor,
                    RecordedPrefix, InOrderWithoutGaps, DeliveriesBounded
<1>3. CASE ListEvents
  <2>1. cursor <= logged
    BY <1>3 DEF ListEvents, CursorIsRecorded, RecordedPrefix
  <2>2. /\ page' \in Seq(Ids) /\ Len(page') \in Nat /\ Len(page') <= logged - cursor
        /\ \A i \in 1..Len(page') : page'[i] = cursor + i
    BY <1>3, <2>1, FetchedPage, LenProperties DEF ListEvents
  <2>3. QED
    BY <1>3, <2>1, <2>2 DEF ListEvents, StreamTypeOK, CursorIsRecorded, PageFollowsCursor,
                            RecordedPrefix, InOrderWithoutGaps, DeliveriesBounded
<1>4. CASE Emit
  <2>1. /\ cursor = lastId
        /\ Head(page) = lastId + 1 /\ lastId + 1 \in Ids /\ lastId + 1 <= logged
        /\ Tail(page) \in Seq(Ids)
        /\ Len(Tail(page)) = Len(page) - 1
        /\ \A i \in 1..Len(Tail(page)) : Tail(page)[i] = lastId + 1 + i
    BY <1>4, NextEvent DEF Emit, CursorIsRecorded
  <2>2. /\ received' \in Seq(Ids)
        /\ Len(received') = Len(received) + 1
        /\ \A n \in 1..(lastId + 1) : \E k \in 1..Len(received') : received'[k] = n
        /\ InOrderWithoutGaps'
    BY <1>4, <2>1, DeliverNext DEF Emit
  <2>3. /\ lastId' = lastId + 1 /\ cursor' = lastId + 1 /\ page' = Tail(page)
        /\ UNCHANGED <<logged, finished, disconnects>>
    BY <1>4, <2>1 DEF Emit
  <2>4. /\ stream' \in StreamStates
        /\ stream' = "emit" => page' # <<>>
    BY <1>4 DEF Emit
  <2>5. StreamTypeOK'
    BY <2>1, <2>2, <2>3, <2>4 DEF StreamTypeOK, Ids
  <2>6. PageFollowsCursor'
    BY <1>0, <2>1, <2>3, <2>4 DEF PageFollowsCursor, StreamTypeOK
  <2>7. QED
    BY <1>0, <2>1, <2>2, <2>3, <2>5, <2>6
       DEF StreamTypeOK, CursorIsRecorded, RecordedPrefix, DeliveriesBounded
<1>5. CASE Check \/ Sleep
  <2>1. /\ UNCHANGED <<logged, finished, cursor, page, lastId, received, disconnects>>
        /\ stream \in {"check", "sleep"} /\ stream' \in {"list", "sleep", "closed"}
    BY <1>5 DEF Check, Sleep
  <2>2. StreamTypeOK'
    BY <2>1 DEF StreamTypeOK, StreamStates
  <2>3. CursorIsRecorded' /\ PageFollowsCursor'
    BY <2>1 DEF CursorIsRecorded, PageFollowsCursor
  <2>4. RecordedPrefix' /\ InOrderWithoutGaps' /\ DeliveriesBounded'
    BY <2>1 DEF RecordedPrefix, InOrderWithoutGaps, DeliveriesBounded
  <2>5. QED
    BY <2>1, <2>2, <2>3, <2>4
<1>6. CASE Disconnect
  <2>1. /\ stream' = "off" /\ page' = <<>> /\ disconnects' = disconnects + 1
        /\ disconnects < MaxDisconnects /\ UNCHANGED <<logged, finished, cursor, lastId>>
    BY <1>6 DEF Disconnect
  <2>2. CASE UNCHANGED received
    BY <1>0, <2>1, <2>2 DEF StreamTypeOK, CursorIsRecorded, PageFollowsCursor, RecordedPrefix,
                            InOrderWithoutGaps, DeliveriesBounded
  <2>3. CASE stream = "emit" /\ received' = Append(received, Head(page))
    <3>1. cursor = lastId /\ Head(page) = lastId + 1 /\ lastId + 1 \in Ids
      BY <2>3, NextEvent DEF CursorIsRecorded
    <3>2. /\ received' \in Seq(Ids)
          /\ Len(received') = Len(received) + 1
          /\ \A n \in 1..(lastId + 1) : \E k \in 1..Len(received') : received'[k] = n
          /\ InOrderWithoutGaps'
      BY <2>3, <3>1, DeliverNext
    <3>3. QED
      BY <1>0, <2>1, <3>2 DEF StreamTypeOK, CursorIsRecorded, PageFollowsCursor, RecordedPrefix,
                              DeliveriesBounded
  <2>4. QED
    BY <1>6, <2>2, <2>3 DEF Disconnect
<1>7. CASE UNCHANGED streamVars
  BY <1>7 DEF streamVars, StreamTypeOK, CursorIsRecorded, PageFollowsCursor, RecordedPrefix,
              InOrderWithoutGaps, DeliveriesBounded
<1>8. QED
  BY <1>1, <1>2, <1>3, <1>4, <1>5, <1>6, <1>7 DEF StreamNext

\* The invariant holds throughout every behaviour of the generator and its client.
LEMMA StreamInvariant == StreamSpec => []StreamInv
<1>1. StreamInit => StreamInv
  BY StreamInitInv
<1>2. StreamInv /\ [StreamNext]_streamVars => StreamInv'
  BY StreamStep
<1>3. QED
  BY <1>1, <1>2, PTL DEF StreamSpec

-----------------------------------------------------------------------------
\* The generator's cursor and page, and the client's Last-Event-ID, stay ids of the log.
THEOREM StreamTypeCorrect == StreamSpec => []StreamTypeOK
<1>1. StreamInv => StreamTypeOK
  BY DEF StreamInv
<1>2. QED
  BY <1>1, StreamInvariant, PTL

\* iter_sse_events and a client that reconnects with its Last-Event-ID deliver
\* each event only after all earlier ones, however often the connection breaks.
THEOREM StreamInOrder == StreamSpec => []InOrderWithoutGaps
<1>1. StreamInv => InOrderWithoutGaps
  BY DEF StreamInv
<1>2. QED
  BY <1>1, StreamInvariant, PTL

\* The stream repeats at most one event for each connection that broke.
THEOREM StreamRepeats == StreamSpec => []RepeatsOnlyAfterDisconnect
<1>1. ASSUME StreamInv PROVE RepeatsOnlyAfterDisconnect
  <2> DEFINE S == {received[i] : i \in DOMAIN received}
  <2>1. /\ Len(received) \in Nat /\ DOMAIN received = 1..Len(received)
        /\ received \in [1..Len(received) -> Ids]
    BY <1>1, LenProperties DEF StreamInv, StreamTypeOK
  <2>2. S \subseteq Ids
    BY <2>1
  <2>3. IsFiniteSet(Ids)
    BY FS_Interval, StreamAssumption DEF Ids
  <2>4. IsFiniteSet(S) /\ Cardinality(S) \in Nat
    BY <2>2, <2>3, FS_Subset, FS_CardinalityType
  <2>5. 1..lastId \subseteq S
    BY <1>1, <2>1 DEF StreamInv, RecordedPrefix
  <2>6. Cardinality(1..lastId) = lastId
    BY <1>1, FS_Interval, StreamAssumption DEF StreamInv, StreamTypeOK
  <2> HIDE DEF S
  <2>7. lastId <= Cardinality(S)
    BY <2>4, <2>5, <2>6, FS_Subset
  <2>8. Len(received) - Cardinality(S) <= disconnects
    BY <1>1, <2>1, <2>4, <2>7, StreamAssumption DEF StreamInv, DeliveriesBounded, StreamTypeOK
  <2>9. QED
    BY <2>8 DEF RepeatsOnlyAfterDisconnect, S
<1>2. QED
  BY <1>1, StreamInvariant, PTL
-----------------------------------------------------------------------------
(* The log that is streamed. *)

\* The log of the stream, when it is open and when it is closed.
LEMMA TheLogIs ==
    ASSUME StreamTypeOK
    PROVE  /\ logged \in Nat /\ finished \in BOOLEAN
           /\ ~finished => TheLog[1] = [length |-> logged, state |-> "open", ends |-> {}]
           /\ finished /\ logged >= 1 => TheLog[1] = [length |-> logged, state |-> "closed", ends |-> {logged}]
<1>1. logged \in Nat /\ finished \in BOOLEAN
  BY StreamAssumption DEF StreamTypeOK
<1>2. ASSUME ~finished PROVE {n \in 1..logged : IsTerminal(n)} = {}
  BY <1>2 DEF IsTerminal
<1>3. ASSUME finished, logged >= 1 PROVE {n \in 1..logged : IsTerminal(n)} = {logged}
  BY <1>1, <1>3 DEF IsTerminal
<1>4. QED
  BY <1>1, <1>2, <1>3 DEF TheLog

\* AppendEvent is the step of RunLog: the writers do what RunLog allows and, up to
\* the bound, all that RunLog allows.
LEMMA AppendIsLogStep ==
    ASSUME StreamTypeOK, StreamTypeOK', logged >= 1,
           logged' <= MaxEvents, UNCHANGED <<stream, cursor, page, received, lastId, disconnects>>
    PROVE  AppendEvent <=> ReadLog!LogNext
<1>1. /\ logged \in Nat /\ finished \in BOOLEAN /\ logged' \in Nat /\ finished' \in BOOLEAN
      /\ MaxEvents \in Nat
  BY StreamAssumption, TheLogIs DEF StreamTypeOK
<1> DEFINE Open(n) == [length |-> n, state |-> "open", ends |-> {}]
           Closed(n) == [length |-> n, state |-> "closed", ends |-> {n}]
<1>2. TheLog[1] = IF finished THEN Closed(logged) ELSE Open(logged)
  BY TheLogIs
<1>3. ~finished => /\ ReadLog!Grown(TheLog[1]) = Open(logged + 1)
                   /\ ReadLog!Ended(TheLog[1]) = Closed(logged + 1)
  BY <1>2 DEF ReadLog!Grown, ReadLog!Ended
<1>4. ASSUME AppendEvent PROVE ReadLog!LogNext
  <2>1. ~finished /\ logged' = logged + 1 /\ logged' >= 1
    BY <1>1, <1>4 DEF AppendEvent
  <2>2. TheLog'[1] \in {Open(logged + 1), Closed(logged + 1)}
    <3>1. ~finished' => TheLog'[1] = Open(logged')
      BY <1>1 DEF TheLog, IsTerminal
    <3>2. finished' => TheLog'[1] = Closed(logged')
      <4>1. ASSUME finished' PROVE {n \in 1..logged' : IsTerminal(n)'} = {logged'}
        BY <1>1, <2>1, <4>1 DEF IsTerminal
      <4>2. QED
        BY <1>1, <4>1 DEF TheLog
    <3>3. QED
      BY <2>1, <3>1, <3>2
  <2>3. PICK q : q = TheLog'[1]
    OBVIOUS
  <2>4. TheLog' = [TheLog EXCEPT ![1] = q]
    BY <2>3 DEF TheLog
  <2>5. TheLog[1].state = "open" /\ 1 \in {1}
    BY <1>2, <2>1
  <2>6. q \in {ReadLog!Grown(TheLog[1]), ReadLog!Ended(TheLog[1])}
    BY <1>3, <2>1, <2>2, <2>3
  <2>7. QED
    BY <2>4, <2>5, <2>6 DEF ReadLog!LogNext
<1>5. ASSUME ReadLog!LogNext PROVE AppendEvent
  <2>1. PICK q : /\ TheLog[1].state = "open" /\ q \in {ReadLog!Grown(TheLog[1]), ReadLog!Ended(TheLog[1])}
                 /\ TheLog' = [TheLog EXCEPT ![1] = q]
    BY <1>5 DEF ReadLog!LogNext
  <2>2. ~finished
    BY <1>2, <2>1
  <2>3. TheLog'[1] = q
    BY <2>1 DEF TheLog
  <2>4. q.length = logged + 1
    BY <1>3, <2>1, <2>2
  <2>5. logged' = logged + 1
    BY <2>3, <2>4 DEF TheLog
  <2>6. finished' \in {finished, TRUE}
    <3>1. finished' = TRUE \/ finished' = FALSE
      BY <1>1
    <3>2. finished = FALSE
      BY <1>1, <2>2
    <3>3. QED
      BY <3>1, <3>2, Zenon
  <2>7. logged < MaxEvents
    BY <1>1, <2>5
  <2>8. QED
    BY <2>2, <2>5, <2>6, <2>7 DEF AppendEvent
<1>6. QED
  BY <1>4, <1>5

\* What iter_sse_events reads is a log of RunLog, as AgentRuns writes them.
THEOREM StreamReadsARunLog == StreamSpec => ReadLog!LogSpec
<1>1. ASSUME StreamInit PROVE ReadLog!LogInit
  <2>1. TheLog[1] = [length |-> 1, state |-> "open", ends |-> {}]
    BY <1>1, StreamInitInv, TheLogIs DEF StreamInit, StreamInv
  <2>2. TheLog = [r \in {1} |-> TheLog[1]]
    BY DEF TheLog
  <2>3. QED
    BY <2>1, <2>2 DEF ReadLog!LogInit, ReadLog!OpenLog
<1>2. ASSUME StreamInv, StreamInv', [StreamNext]_streamVars
      PROVE  [ReadLog!LogNext]_TheLog
  <2>1. CASE AppendEvent
    <3>1. logged' <= MaxEvents
      BY <1>2, StreamAssumption DEF StreamInv, StreamTypeOK
    <3>2. QED
      BY <1>2, <2>1, <3>1, AppendIsLogStep DEF StreamInv, AppendEvent
  <2>2. CASE UNCHANGED <<logged, finished>>
    BY <2>2 DEF TheLog, IsTerminal
  <2>3. QED
    BY <1>2, <2>1, <2>2
       DEF StreamNext, Connect, ConnectAt, ListEvents, Emit, Check, Sleep, Disconnect, streamVars
<1>3. QED
  BY <1>1, <1>2, StreamInvariant, PTL DEF StreamSpec, ReadLog!LogSpec
=============================================================================
