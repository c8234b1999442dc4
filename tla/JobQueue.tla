------------------------------ MODULE JobQueue ------------------------------
(***************************************************************************)
(* The PostgreSQL job queue (infrastructure/jobs/postgres.py), the worker  *)
(* loop that serves it (workers/main.py) and the lease reaper              *)
(* (workers/reaper.py).                                                    *)
(*                                                                         *)
(* Every queue operation is one database transaction that locks the rows   *)
(* it changes, so each is one action.  A worker process runs a batch of    *)
(* tasks; a task is one `_process` coroutine with its heartbeat coroutine. *)
(*                                                                         *)
(* Time is relative: lease[j] is lease_expires_at - now and wait[j] is     *)
(* available_at - now, in ticks.  Tick decreases both.                     *)
(***************************************************************************)
EXTENDS Integers, FiniteSets

CONSTANTS
    MaxJobs,         \* bound: how many jobs are ever enqueued
    Workers,         \* identities host:pid of the worker processes
    NoWorker,        \* locked_by IS NULL
    MaxAttempts,     \* EnqueueJobRequest.max_attempts
    LeaseTicks,      \* worker_lease_seconds
    RetryBase,       \* worker_retry_base_seconds
    RetryMax,        \* worker_retry_max_seconds
    ClaimLimit,      \* min(worker_concurrency, worker_claim_limit)
    ReapBatch,       \* JobReaper batch_size
    ReaperDeployed,  \* does anything call JobReaper.run_once?
    MaxOverdue,      \* bound: ages beyond this many ticks compare equal
    MaxKills         \* bound: how many times worker processes are signalled or killed

Jobs == 1..MaxJobs   \* numbered in the order of created_at

ASSUME QueueAssumption ==
    /\ MaxJobs \in Nat
    /\ NoWorker \notin Workers
    /\ MaxAttempts \in Nat \ {0}     \* _validate_enqueue_request
    /\ LeaseTicks \in Nat \ {0}      \* PostgresJobQueue.__init__
    /\ RetryBase \in Nat             \* PostgresJobQueue.__init__
    /\ RetryMax \in Nat
    /\ ClaimLimit \in Nat \ {0}      \* BackgroundWorker.__init__
    /\ ReapBatch \in Nat \ {0}
    /\ ReaperDeployed \in BOOLEAN
    /\ MaxOverdue \in Nat
    /\ MaxKills \in Nat

VARIABLES
    status,      \* status[j]: JobState of the row; "ABSENT" before it is inserted
    attempts,    \* attempts[j]: attempt_count
    lockedBy,    \* lockedBy[j]: locked_by
    lease,       \* lease[j]: lease_expires_at - now, or NoLease for NULL
    wait,        \* wait[j]: available_at - now
    process,     \* process[w]: the worker process
    tasks,       \* the _process coroutines that are alive, of all the workers
    kills        \* how many signals and kills have happened, against MaxKills

rowVars == <<status, attempts, lockedBy, lease, wait>>
workerVars == <<process, tasks, kills>>
queueVars == <<rowVars, workerVars>>

JobStates == {"ABSENT", "PENDING", "RUNNING", "SUCCEEDED", "FAILED"}
NoLease == -2
Expired == -1            \* every lease that ended in the past
LeaseValues == {NoLease, Expired} \cup 0..LeaseTicks

\* serving:  in serve_forever
\* stopping: stop() was called; the loop ends with the current batch
\* failing:  a task raised out of asyncio.gather; the process is unwinding
\* down:     no process
ProcessStates == {"serving", "stopping", "failing", "down"}

\* One _process coroutine and its heartbeat coroutine.  handling: inside the
\* handler.  settling: the row is settled, the heartbeat coroutine is not yet
\* cancelled.  attempt is QueuedJob.attempts, frozen when the job was claimed.
Task == [worker : Workers, job : Jobs, attempt : Nat,
         phase : {"handling", "settling"}, heartbeat : {"ok", "raised"}]
NewTask(w, j, n) ==
    [worker |-> w, job |-> j, attempt |-> n, phase |-> "handling", heartbeat |-> "ok"]

TypeOK ==
    /\ status \in [Jobs -> JobStates]
    /\ attempts \in [Jobs -> Nat]
    /\ lockedBy \in [Jobs -> Workers \cup {NoWorker}]
    /\ lease \in [Jobs -> LeaseValues]
    /\ wait \in [Jobs -> Int]
    /\ process \in [Workers -> ProcessStates]
    /\ tasks \subseteq Task
    /\ kills \in 0..MaxKills

QueueInit ==
    /\ status = [j \in Jobs |-> "ABSENT"]
    /\ attempts = [j \in Jobs |-> 0]
    /\ lockedBy = [j \in Jobs |-> NoWorker]
    /\ lease = [j \in Jobs |-> NoLease]
    /\ wait = [j \in Jobs |-> 0]
    /\ process = [w \in Workers |-> "serving"]
    /\ tasks = {}
    /\ kills = 0

-----------------------------------------------------------------------------
(* Helpers of the queue. *)

MinOf(a, b) == IF a <= b THEN a ELSE b

compute_retry_delay(n) ==
    IF RetryBase = 0 THEN 0 ELSE MinOf(RetryBase * 2^(n - 1), RetryMax)

should_retry_once_more(n) == n <= MaxAttempts    \* mutant
should_retry(n) == n < MaxAttempts

\* build_claim_statement: WHERE, ORDER BY and LIMIT.
DueInAnyState == {j \in Jobs : status[j] # "ABSENT" /\ wait[j] <= 0}    \* mutant
DueBeforeLastAttempt ==    \* mutant
    {j \in Jobs : status[j] = "PENDING" /\ wait[j] <= 0 /\ attempts[j] + 1 < MaxAttempts}
Due == {j \in Jobs : status[j] = "PENDING" /\ wait[j] <= 0}
ClaimedBefore(i, j) == wait[i] < wait[j] \/ (wait[i] = wait[j] /\ i < j)
ClaimBatch == {j \in Due : Cardinality({i \in Due : ClaimedBefore(i, j)}) < ClaimLimit}

\* The SELECT of reap_expired.
Overdue == {j \in Jobs : status[j] = "RUNNING" /\ lease[j] # NoLease /\ lease[j] < 0}
ReapedBefore(i, j) == lease[i] < lease[j] \/ (lease[i] = lease[j] /\ i < j)
ReapSelection == {j \in Overdue : Cardinality({i \in Overdue : ReapedBefore(i, j)}) < ReapBatch}

\* _owned_running: the row is RUNNING and locked by this worker.
RunningForAnyone(j, w) == status[j] = "RUNNING"    \* mutant
OwnedRunning(j, w) == status[j] = "RUNNING" /\ lockedBy[j] = w

\* now + self._lease, relative to now.
RenewedLease(j) == LeaseTicks

\* The lock columns are cleared together, whoever settles the row.
Release(S) ==
    /\ lockedBy' = [j \in Jobs |-> IF j \in S THEN NoWorker ELSE lockedBy[j]]
    /\ lease' = [j \in Jobs |-> IF j \in S THEN NoLease ELSE lease[j]]

TasksOf(w) == {t \in tasks : t.worker = w}
Becomes(t, u) == tasks' = (tasks \ {t}) \cup {u}

\* asyncio.gather: run_once returns, and the loop claims again, only when every
\* _process of the batch has ended.
BatchNeverAwaited(w) == TRUE    \* mutant
BatchEnded(w) == TasksOf(w) = {}

-----------------------------------------------------------------------------
(* Operations of the queue. *)

\* enqueue: rows are numbered in the order they are inserted.
Enqueue(j) ==
    /\ status[j] = "ABSENT"
    /\ \A i \in Jobs : i < j => status[i] # "ABSENT"
    /\ status' = [status EXCEPT ![j] = "PENDING"]
    /\ wait' = [wait EXCEPT ![j] = 0]
    /\ UNCHANGED <<attempts, lockedBy, lease, workerVars>>

\* run_once: claim a batch and start one _process for each row of it.
Claim(w) ==
    /\ process[w] = "serving"
    /\ BatchEnded(w)
    /\ ClaimBatch # {}
    /\ status' = [j \in Jobs |-> IF j \in ClaimBatch THEN "RUNNING" ELSE status[j]]
    /\ attempts' = [j \in Jobs |-> IF j \in ClaimBatch THEN attempts[j] + 1 ELSE attempts[j]]
    /\ lockedBy' = [j \in Jobs |-> IF j \in ClaimBatch THEN w ELSE lockedBy[j]]
    /\ lease' = [j \in Jobs |-> IF j \in ClaimBatch THEN RenewedLease(j) ELSE lease[j]]
    /\ tasks' = tasks \cup {NewTask(w, j, attempts[j] + 1) : j \in ClaimBatch}
    /\ UNCHANGED <<wait, process, kills>>

\* heartbeat: renews the lease, or raises and ends the heartbeat coroutine.
Heartbeat(t) ==
    /\ t.heartbeat = "ok"
    /\ \/ /\ OwnedRunning(t.job, t.worker)
          /\ lease' = [lease EXCEPT ![t.job] = RenewedLease(t.job)]
          /\ UNCHANGED tasks
       \/ /\ ~OwnedRunning(t.job, t.worker)
          /\ Becomes(t, [t EXCEPT !.heartbeat = "raised"])
          /\ UNCHANGED lease
    /\ UNCHANGED <<status, attempts, lockedBy, wait, process, kills>>

\* complete: the handler returned.
Complete(t) ==
    /\ t.phase = "handling"
    /\ OwnedRunning(t.job, t.worker)
    /\ status' = [status EXCEPT ![t.job] = "SUCCEEDED"]
    /\ Release({t.job})
    /\ Becomes(t, [t EXCEPT !.phase = "settling"])
    /\ UNCHANGED <<attempts, wait, process, kills>>

\* fail: the handler raised; the job is retried later while attempts remain.
Fail(t) ==
    /\ t.phase = "handling"
    /\ OwnedRunning(t.job, t.worker)
    /\ Release({t.job})
    /\ \/ /\ ~should_retry(attempts[t.job])
          /\ status' = [status EXCEPT ![t.job] = "FAILED"]
          /\ UNCHANGED wait
       \/ /\ should_retry(attempts[t.job])
          /\ status' = [status EXCEPT ![t.job] = "PENDING"]
          /\ wait' = [wait EXCEPT ![t.job] = compute_retry_delay(attempts[t.job])]
    /\ Becomes(t, [t EXCEPT !.phase = "settling"])
    /\ UNCHANGED <<attempts, process, kills>>

\* complete or fail of a job that another transaction took away: the
\* JobOwnershipError leaves _process and, through gather, run_once.
LoseOwnership(t) ==
    /\ t.phase = "handling"
    /\ ~OwnedRunning(t.job, t.worker)
    /\ tasks' = tasks \ {t}
    /\ process' = [process EXCEPT ![t.worker] = "failing"]
    /\ UNCHANGED <<rowVars, kills>>

\* reap_expired: expired rows go back to PENDING, due at once, or to FAILED.
Reap ==
    /\ ReaperDeployed
    /\ ReapSelection # {}
    /\ Release(ReapSelection)
    /\ status' = [j \in Jobs |->
          IF j \notin ReapSelection THEN status[j]
          ELSE IF should_retry(attempts[j]) THEN "PENDING" ELSE "FAILED"]
    /\ wait' = [j \in Jobs |->
          IF j \in ReapSelection /\ should_retry(attempts[j]) THEN 0 ELSE wait[j]]
    /\ UNCHANGED <<attempts, workerVars>>

-----------------------------------------------------------------------------
(* The worker process. *)

\* The end of _process: the heartbeat coroutine is cancelled and awaited, and
\* an exception it already raised comes out of the await.
Settle(t) ==
    /\ t.phase = "settling"
    /\ tasks' = tasks \ {t}
    /\ process' = [process EXCEPT ![t.worker] = IF t.heartbeat = "raised" THEN "failing" ELSE @]
    /\ UNCHANGED <<rowVars, kills>>

\* SIGTERM or SIGINT calls stop(); the batch in progress is finished first.
Stop(w) ==
    /\ kills < MaxKills
    /\ process[w] = "serving"
    /\ kills' = kills + 1
    /\ process' = [process EXCEPT ![w] = "stopping"]
    /\ UNCHANGED <<rowVars, tasks>>

\* serve_forever ends, or the exception of a failed task ends the process and
\* asyncio.run cancels the tasks that still run.
Exit(w) ==
    /\ \/ process[w] = "stopping" /\ BatchEnded(w)
       \/ process[w] = "failing"
    /\ process' = [process EXCEPT ![w] = "down"]
    /\ tasks' = tasks \ TasksOf(w)
    /\ UNCHANGED <<rowVars, kills>>

\* The process is killed; its jobs stay RUNNING under their leases.
Crash(w) ==
    /\ kills < MaxKills
    /\ process[w] # "down"
    /\ kills' = kills + 1
    /\ process' = [process EXCEPT ![w] = "down"]
    /\ tasks' = tasks \ TasksOf(w)
    /\ UNCHANGED rowVars

\* A container restart keeps the host name and the pid, hence the worker id.
Restart(w) ==
    /\ process[w] = "down"
    /\ process' = [process EXCEPT ![w] = "serving"]
    /\ UNCHANGED <<rowVars, tasks, kills>>

Tick ==
    /\ lease' = [j \in Jobs |-> IF lease[j] >= 0 THEN lease[j] - 1 ELSE lease[j]]
    /\ wait' = [j \in Jobs |->
          IF status[j] = "PENDING" /\ wait[j] > -MaxOverdue THEN wait[j] - 1 ELSE wait[j]]
    /\ UNCHANGED <<status, attempts, lockedBy, workerVars>>

-----------------------------------------------------------------------------
QueueNext ==
    \/ \E j \in Jobs : Enqueue(j)
    \/ Reap
    \/ Tick
    \/ \E w \in Workers : Claim(w) \/ Stop(w) \/ Exit(w) \/ Crash(w) \/ Restart(w)
    \/ \E t \in tasks :
          Heartbeat(t) \/ Complete(t) \/ Fail(t) \/ LoseOwnership(t) \/ Settle(t)

QueueSpec == QueueInit /\ [][QueueNext]_queueVars

\* Handlers end (every provider call has a timeout and a bounded number of
\* attempts), the event loop schedules every coroutine, and the clock advances.
\* Nothing obliges a heartbeat to be on time, anybody to start a worker again, or
\* anybody to call the reaper.
QueueFairness ==
    /\ WF_queueVars(Tick)
    /\ \A w \in Workers :
          /\ WF_queueVars(Claim(w))
          /\ WF_queueVars(Exit(w))
          /\ \A j \in Jobs :
                WF_queueVars(\E t \in TasksOf(w) :
                    t.job = j /\ (Complete(t) \/ Fail(t) \/ LoseOwnership(t) \/ Settle(t)))

FairQueueSpec == QueueSpec /\ QueueFairness

\* An operator who starts every worker again, and a reaper that is called again and
\* again if one is deployed at all.
OperatedQueueSpec ==
    /\ FairQueueSpec
    /\ WF_queueVars(Reap)
    /\ \A w \in Workers : WF_queueVars(Restart(w))

-----------------------------------------------------------------------------
(* Properties. *)

\* A row carries an owner and a lease exactly while it is RUNNING: no path out
\* of RUNNING (complete, fail, reap_expired) leaves a lock column behind.
RowsConsistent ==
    \A j \in Jobs :
        /\ status[j] = "RUNNING" <=> lockedBy[j] # NoWorker
        /\ status[j] = "RUNNING" <=> lease[j] # NoLease

\* No job runs more than max_attempts times, whoever gives it back: a row that
\* fail() or reap_expired() returned to the queue still has an attempt left,
\* and a row they gave up on has none.
AttemptsBounded ==
    \A j \in Jobs :
        /\ attempts[j] <= MaxAttempts
        /\ status[j] = "PENDING" => attempts[j] < MaxAttempts
        /\ status[j] = "FAILED" => attempts[j] = MaxAttempts

\* _owned_running compares worker ids only, with no attempt number.  It is
\* still a fence: a worker that owns a row owns it through the task of the
\* row's current attempt, because run_once never claims while a task of an
\* earlier batch is alive.
OwnerRunsCurrentAttempt ==
    \A t \in tasks :
        status[t.job] = "RUNNING" /\ lockedBy[t.job] = t.worker =>
            t.phase = "handling" /\ t.attempt = attempts[t.job]

\* A row leaves RUNNING only through the task of its current attempt, or
\* through the reaper once its lease is over: a worker that lost its lease
\* cannot settle the attempt that replaced its own.
SettledByCurrentAttempt ==
    [][\A j \in Jobs :
          status[j] = "RUNNING" /\ status'[j] # "RUNNING" =>
              \/ lease[j] = Expired
              \/ \E t \in tasks \ tasks' :
                    /\ t.job = j
                    /\ t.phase = "handling"
                    /\ t.attempt = attempts[j]]_queueVars

\* The queue implements the life of a retryable job.
Abstract == INSTANCE RetryableJob WITH phase <- status, runs <- attempts
ImplementsRetryableJob == Abstract!AbsSpec

Ended(j) == status[j] \in {"SUCCEEDED", "FAILED"}

\* The process that claimed the row ended with the row in its batch.
Abandoned(j) ==
    /\ status[j] = "RUNNING"
    /\ lockedBy[j] # NoWorker
    /\ ~\E t \in tasks : t.job = j /\ t.worker = lockedBy[j]

\* A job in the queue ends while there are workers that serve: a failed attempt
\* waits no longer than its delay, a stale task never holds up the batch of its
\* worker for good, and nothing else than the end of the process that runs it, by a
\* kill or by the exception of another task of the batch, stops a job.
ServedJobsEnd ==
    \A j \in Jobs :
        status[j] = "PENDING" ~>
            Ended(j) \/ Abandoned(j) \/ \A w \in Workers : process[w] # "serving"

\* Every job that was enqueued ends, whatever workers crash in between: what "Retry /
\* Recovery" and "Crash Reaper" promise.
EveryJobEnds == \A j \in Jobs : status[j] = "PENDING" ~> Ended(j)
=============================================================================
