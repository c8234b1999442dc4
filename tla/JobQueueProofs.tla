--------------------------- MODULE JobQueueProofs ---------------------------
(***************************************************************************)
(* The safety properties of JobQueue, proved for every number of jobs,     *)
(* workers, attempts, ticks and kills.                                     *)
(*                                                                         *)
(* RowsConsistent and OwnerRunsCurrentAttempt are inductive with TypeOK.   *)
(* AttemptsBounded is not: it needs AttemptsCounted, that a row that was   *)
(* never claimed has no attempts (or enqueue could insert a row without an *)
(* attempt left) and that a running row has at least one (or the exponent  *)
(* of the retry delay could be negative).                                  *)
(***************************************************************************)
EXTENDS JobQueue, TLAPS

\* attempt_count is zero before the first claim and positive in a running row.
AttemptsCounted ==
    \A j \in Jobs :
        /\ status[j] = "ABSENT" => attempts[j] = 0
        /\ status[j] = "RUNNING" => attempts[j] > 0

QueueInv ==
    /\ TypeOK
    /\ RowsConsistent
    /\ AttemptsBounded
    /\ AttemptsCounted
    /\ OwnerRunsCurrentAttempt

-----------------------------------------------------------------------------
\* compute_retry_delay yields a number of ticks after any attempt.
LEMMA DelayType ==
    ASSUME NEW n \in Nat, n > 0
    PROVE  compute_retry_delay(n) \in Int
<1>1. 2^(n - 1) \in Int
  <2>1. \A k \in Nat : 2^k \in Int
    BY SMT
  <2>2. QED
    BY <2>1
<1>2. QED
  BY <1>1, QueueAssumption DEF compute_retry_delay, MinOf

\* The batches of claim and reap_expired are rows that the statements select.
LEMMA Batches ==
    /\ \A j \in ClaimBatch : j \in Jobs /\ status[j] = "PENDING"
    /\ \A j \in ReapSelection : j \in Jobs /\ status[j] = "RUNNING" /\ lease[j] < 0
                                /\ lease[j] # NoLease
  BY DEF ClaimBatch, Due, ReapSelection, Overdue

\* Replacing a task by a task keeps the set of tasks a set of tasks.
LEMMA BecomesType ==
    ASSUME tasks \subseteq Task, NEW t \in tasks, NEW u \in Task, Becomes(t, u)
    PROVE  tasks' \subseteq Task
  BY DEF Becomes

-----------------------------------------------------------------------------
LEMMA InitInv == QueueInit => QueueInv
  BY QueueAssumption
     DEF QueueInit, QueueInv, TypeOK, RowsConsistent, AttemptsBounded, AttemptsCounted,
         OwnerRunsCurrentAttempt, JobStates, LeaseValues, NoLease, ProcessStates

\* Type correctness is preserved by every step.
LEMMA StepType ==
    ASSUME QueueInv, [QueueNext]_queueVars
    PROVE  TypeOK'
<1> USE QueueAssumption DEF QueueInv, TypeOK, JobStates, LeaseValues, NoLease, Expired,
                            ProcessStates
<1>1. ASSUME NEW j \in Jobs, Enqueue(j) PROVE TypeOK'
  BY <1>1 DEF Enqueue, workerVars
<1>2. CASE Reap
  BY <1>2 DEF Reap, Release, workerVars
<1>3. CASE Tick
  BY <1>3 DEF Tick, workerVars
<1>4. ASSUME NEW w \in Workers, Claim(w) PROVE TypeOK'
  <2>1. \A j \in ClaimBatch : NewTask(w, j, attempts[j] + 1) \in Task
    BY Batches DEF NewTask, Task
  <2>2. QED
    BY <1>4, <2>1 DEF Claim, RenewedLease
<1>5. ASSUME NEW w \in Workers, Stop(w) \/ Exit(w) \/ Crash(w) \/ Restart(w) PROVE TypeOK'
  BY <1>5 DEF Stop, Exit, Crash, Restart, rowVars
<1>6. ASSUME NEW t \in tasks, Heartbeat(t) PROVE TypeOK'
  <2>1. t \in Task /\ [t EXCEPT !.heartbeat = "raised"] \in Task
    BY DEF Task
  <2>2. tasks' \subseteq Task
    BY <1>6, <2>1, BecomesType DEF Heartbeat
  <2>3. t.job \in Jobs
    BY <2>1 DEF Task
  <2>4. QED
    BY <1>6, <2>2, <2>3 DEF Heartbeat, RenewedLease
<1>7. ASSUME NEW t \in tasks, Complete(t) \/ Fail(t) PROVE TypeOK'
  <2>1. t \in Task /\ [t EXCEPT !.phase = "settling"] \in Task
    BY DEF Task
  <2>2. tasks' \subseteq Task
    BY <1>7, <2>1, BecomesType DEF Complete, Fail
  <2>3. t.job \in Jobs
    BY <2>1 DEF Task
  <2>4. OwnedRunning(t.job, t.worker) => compute_retry_delay(attempts[t.job]) \in Int
    BY <2>3, DelayType DEF OwnedRunning, AttemptsCounted
  <2>5. CASE Complete(t)
    BY <2>2, <2>3, <2>5 DEF Complete, Release
  <2>6. CASE Fail(t)
    BY <2>2, <2>3, <2>4, <2>6 DEF Fail, Release
  <2>7. QED
    BY <1>7, <2>5, <2>6
<1>8. ASSUME NEW t \in tasks, LoseOwnership(t) \/ Settle(t) PROVE TypeOK'
  BY <1>8 DEF LoseOwnership, Settle, rowVars
<1>9. CASE UNCHANGED queueVars
  BY <1>9 DEF queueVars, rowVars, workerVars
<1>10. QED
  BY <1>1, <1>2, <1>3, <1>4, <1>5, <1>6, <1>7, <1>8, <1>9 DEF QueueNext

\* A row changes its owner and its lease only together with its status.
LEMMA StepRows ==
    ASSUME QueueInv, [QueueNext]_queueVars
    PROVE  RowsConsistent'
<1> USE QueueAssumption DEF QueueInv, TypeOK, RowsConsistent, LeaseValues, NoLease, Expired
<1>1. ASSUME NEW j \in Jobs, Enqueue(j) PROVE RowsConsistent'
  BY <1>1 DEF Enqueue
<1>2. CASE Reap
  BY <1>2, Batches DEF Reap, Release
<1>3. CASE Tick
  BY <1>3 DEF Tick
<1>4. ASSUME NEW w \in Workers, Claim(w) PROVE RowsConsistent'
  BY <1>4, Batches DEF Claim, RenewedLease
<1>5. ASSUME NEW w \in Workers, Stop(w) \/ Exit(w) \/ Crash(w) \/ Restart(w)
      PROVE  RowsConsistent'
  BY <1>5 DEF Stop, Exit, Crash, Restart, rowVars
<1>6. ASSUME NEW t \in tasks, Heartbeat(t) PROVE RowsConsistent'
  BY <1>6 DEF Heartbeat, OwnedRunning, RenewedLease, Task
<1>7. ASSUME NEW t \in tasks, Complete(t) \/ Fail(t) PROVE RowsConsistent'
  BY <1>7 DEF Complete, Fail, Release, OwnedRunning, Task
<1>8. ASSUME NEW t \in tasks, LoseOwnership(t) \/ Settle(t) PROVE RowsConsistent'
  BY <1>8 DEF LoseOwnership, Settle, rowVars
<1>9. CASE UNCHANGED queueVars
  BY <1>9 DEF queueVars, rowVars
<1>10. QED
  BY <1>1, <1>2, <1>3, <1>4, <1>5, <1>6, <1>7, <1>8, <1>9 DEF QueueNext

\* Only a claim counts an attempt, and it finds one left.
LEMMA StepAttempts ==
    ASSUME QueueInv, [QueueNext]_queueVars
    PROVE  AttemptsBounded' /\ AttemptsCounted'
<1> USE QueueAssumption DEF QueueInv, TypeOK, AttemptsBounded, AttemptsCounted
<1>1. ASSUME NEW j \in Jobs, Enqueue(j) PROVE AttemptsBounded' /\ AttemptsCounted'
  BY <1>1 DEF Enqueue
<1>2. CASE Reap
  BY <1>2, Batches DEF Reap, should_retry
<1>3. CASE Tick
  BY <1>3 DEF Tick
<1>4. ASSUME NEW w \in Workers, Claim(w) PROVE AttemptsBounded' /\ AttemptsCounted'
  BY <1>4, Batches DEF Claim
<1>5. ASSUME NEW w \in Workers, Stop(w) \/ Exit(w) \/ Crash(w) \/ Restart(w)
      PROVE  AttemptsBounded' /\ AttemptsCounted'
  BY <1>5 DEF Stop, Exit, Crash, Restart, rowVars
<1>6. ASSUME NEW t \in tasks, Heartbeat(t) PROVE AttemptsBounded' /\ AttemptsCounted'
  BY <1>6 DEF Heartbeat
<1>7. ASSUME NEW t \in tasks, Complete(t) PROVE AttemptsBounded' /\ AttemptsCounted'
  BY <1>7 DEF Complete, Task
<1>8. ASSUME NEW t \in tasks, Fail(t) PROVE AttemptsBounded' /\ AttemptsCounted'
  BY <1>8 DEF Fail, OwnedRunning, should_retry, Task
<1>9. ASSUME NEW t \in tasks, LoseOwnership(t) \/ Settle(t)
      PROVE  AttemptsBounded' /\ AttemptsCounted'
  BY <1>9 DEF LoseOwnership, Settle, rowVars
<1>10. CASE UNCHANGED queueVars
  BY <1>10 DEF queueVars, rowVars
<1>11. QED
  BY <1>1, <1>2, <1>3, <1>4, <1>5, <1>6, <1>7, <1>8, <1>9, <1>10 DEF QueueNext

\* A worker that owns a row owns it through the task of the current attempt:
\* run_once claims only when no task of the worker is alive, and every other
\* action that keeps a row RUNNING keeps its owner and its attempt.
LEMMA StepOwner ==
    ASSUME QueueInv, [QueueNext]_queueVars
    PROVE  OwnerRunsCurrentAttempt'
<1> USE QueueAssumption DEF QueueInv, TypeOK, OwnerRunsCurrentAttempt
<1>1. ASSUME NEW j \in Jobs, Enqueue(j) PROVE OwnerRunsCurrentAttempt'
  BY <1>1 DEF Enqueue, workerVars, Task
<1>2. CASE Reap
  BY <1>2, Batches DEF Reap, Release, workerVars, Task
<1>3. CASE Tick
  BY <1>3 DEF Tick, workerVars, Task
<1>4. ASSUME NEW w \in Workers, Claim(w) PROVE OwnerRunsCurrentAttempt'
  <2>1. \A t \in tasks : t.worker # w /\ t.job \in Jobs
    BY <1>4 DEF Claim, BatchEnded, TasksOf, Task
  <2>2. ASSUME NEW u \in tasks', status'[u.job] = "RUNNING", lockedBy'[u.job] = u.worker
        PROVE  u.phase = "handling" /\ u.attempt = attempts'[u.job]
    <3>1. CASE u \in tasks
      BY <1>4, <2>1, <2>2, <3>1, Batches DEF Claim
    <3>2. ASSUME NEW j \in ClaimBatch, u = NewTask(w, j, attempts[j] + 1)
          PROVE  u.phase = "handling" /\ u.attempt = attempts'[u.job]
      BY <1>4, <3>2, Batches DEF Claim, NewTask
    <3>3. QED
      BY <1>4, <3>1, <3>2 DEF Claim
  <2>3. QED
    BY <2>2
<1>5. ASSUME NEW w \in Workers, Stop(w) \/ Exit(w) \/ Crash(w) \/ Restart(w)
      PROVE  OwnerRunsCurrentAttempt'
  BY <1>5 DEF Stop, Exit, Crash, Restart, rowVars
<1>6. ASSUME NEW t \in tasks, Heartbeat(t) PROVE OwnerRunsCurrentAttempt'
  <2>1. t.job \in Jobs
    BY DEF Task
  <2>2. CASE OwnedRunning(t.job, t.worker)
    BY <1>6, <2>2 DEF Heartbeat
  <2>3. CASE ~OwnedRunning(t.job, t.worker)
    <3> DEFINE u == [t EXCEPT !.heartbeat = "raised"]
    <3>1. u.job = t.job /\ u.worker = t.worker
      BY DEF Task
    <3>2. tasks' = (tasks \ {t}) \cup {u}
      BY <1>6, <2>3 DEF Heartbeat, Becomes
    <3>3. ~(status[u.job] = "RUNNING" /\ lockedBy[u.job] = u.worker)
      BY <2>3, <3>1 DEF OwnedRunning
    <3> HIDE DEF u
    <3>4. QED
      BY <1>6, <3>2, <3>3 DEF Heartbeat
  <2>4. QED
    BY <2>2, <2>3
<1>7. ASSUME NEW t \in tasks, Complete(t) \/ Fail(t) PROVE OwnerRunsCurrentAttempt'
  <2> DEFINE u == [t EXCEPT !.phase = "settling"]
  <2>1. u.job = t.job /\ t.job \in Jobs
    BY DEF Task
  <2>2. tasks' = (tasks \ {t}) \cup {u}
    BY <1>7 DEF Complete, Fail, Becomes
  <2>3. status'[t.job] # "RUNNING" /\ \A j \in Jobs \ {t.job} : status'[j] = status[j]
    BY <1>7, <2>1 DEF Complete, Fail
  <2>4. \A j \in Jobs \ {t.job} : lockedBy'[j] = lockedBy[j]
    BY <1>7 DEF Complete, Fail, Release
  <2>5. attempts' = attempts
    BY <1>7 DEF Complete, Fail
  <2>6. \A v \in tasks : v.job \in Jobs
    BY DEF Task
  <2> HIDE DEF u
  <2>7. QED
    BY <2>1, <2>2, <2>3, <2>4, <2>5, <2>6
<1>8. ASSUME NEW t \in tasks, LoseOwnership(t) \/ Settle(t) PROVE OwnerRunsCurrentAttempt'
  BY <1>8 DEF LoseOwnership, Settle, rowVars
<1>9. CASE UNCHANGED queueVars
  BY <1>9 DEF queueVars, rowVars, workerVars
<1>10. QED
  BY <1>1, <1>2, <1>3, <1>4, <1>5, <1>6, <1>7, <1>8, <1>9 DEF QueueNext

\* The inductive invariant holds of every instance.
THEOREM QueueInvariant == QueueSpec => []QueueInv
<1>1. QueueInv /\ [QueueNext]_queueVars => QueueInv'
  BY StepType, StepRows, StepAttempts, StepOwner DEF QueueInv
<1>2. QED
  BY InitInv, <1>1, PTL DEF QueueSpec

-----------------------------------------------------------------------------
\* TypeOK: the columns of a row, the states of a worker process and the tasks
\* stay within their types, whatever the lease, the retry delays and the kills.
THEOREM QueueTypeCorrect == QueueSpec => []TypeOK
  BY QueueInvariant, PTL DEF QueueInv

\* RowsConsistent: locked_by and lease_expires_at are set exactly in RUNNING rows.
THEOREM QueueRowsConsistent == QueueSpec => []RowsConsistent
  BY QueueInvariant, PTL DEF QueueInv

\* AttemptsBounded: no job is claimed more than max_attempts times, and it is
\* given up exactly when it has been.
THEOREM QueueAttemptsBounded == QueueSpec => []AttemptsBounded
  BY QueueInvariant, PTL DEF QueueInv

\* OwnerRunsCurrentAttempt: the comparison of worker ids in _owned_running is a
\* fence between attempts.
THEOREM QueueOwnerRunsCurrentAttempt == QueueSpec => []OwnerRunsCurrentAttempt
  BY QueueInvariant, PTL DEF QueueInv

-----------------------------------------------------------------------------
\* SettledByCurrentAttempt: a row leaves RUNNING through the task of its
\* current attempt or through the reaper after its lease.
THEOREM QueueSettledByCurrentAttempt == QueueSpec => SettledByCurrentAttempt
<1> DEFINE Settled ==
        \A j \in Jobs :
          status[j] = "RUNNING" /\ status'[j] # "RUNNING" =>
              \/ lease[j] = Expired
              \/ \E t \in tasks \ tasks' :
                    /\ t.job = j
                    /\ t.phase = "handling"
                    /\ t.attempt = attempts[j]
<1>1. ASSUME QueueInv, [QueueNext]_queueVars
      PROVE  [Settled]_queueVars
  <2> USE <1>1 DEF QueueInv, TypeOK
  <2>1. ASSUME NEW j \in Jobs, Enqueue(j) PROVE Settled
    BY <2>1 DEF Enqueue
  <2>2. CASE Reap
    BY <2>2, Batches DEF Reap, LeaseValues, NoLease, Expired
  <2>3. CASE Tick
    BY <2>3 DEF Tick
  <2>4. ASSUME NEW w \in Workers, Claim(w) PROVE Settled
    BY <2>4, Batches DEF Claim
  <2>5. ASSUME NEW w \in Workers, Stop(w) \/ Exit(w) \/ Crash(w) \/ Restart(w) PROVE Settled
    BY <2>5 DEF Stop, Exit, Crash, Restart, rowVars
  <2>6. ASSUME NEW t \in tasks, Heartbeat(t) PROVE Settled
    BY <2>6 DEF Heartbeat
  <2>7. ASSUME NEW t \in tasks, Complete(t) \/ Fail(t) PROVE Settled
    <3> DEFINE u == [t EXCEPT !.phase = "settling"]
    <3>1. t \in Task
      OBVIOUS
    <3>2. t.phase = "handling" /\ u.phase = "settling"
      BY <2>7, <3>1 DEF Complete, Fail, Task
    <3>3. t \in tasks \ tasks'
      BY <2>7, <3>2 DEF Complete, Fail, Becomes
    <3>4. t.attempt = attempts[t.job]
      BY <2>7 DEF Complete, Fail, OwnedRunning, OwnerRunsCurrentAttempt
    <3>5. \A j \in Jobs \ {t.job} : status'[j] = status[j]
      BY <2>7 DEF Complete, Fail
    <3> HIDE DEF u
    <3>6. QED
      BY <3>2, <3>3, <3>4, <3>5
  <2>8. ASSUME NEW t \in tasks, LoseOwnership(t) \/ Settle(t) PROVE Settled
    BY <2>8 DEF LoseOwnership, Settle, rowVars
  <2>9. QED
    BY <2>1, <2>2, <2>3, <2>4, <2>5, <2>6, <2>7, <2>8 DEF QueueNext
<1>2. QED
  BY <1>1, QueueInvariant, PTL DEF QueueSpec, SettledByCurrentAttempt

-----------------------------------------------------------------------------
\* ImplementsRetryableJob: with its workers, leases and clock hidden, the queue
\* is a set of retryable jobs.
THEOREM QueueImplementsRetryableJob == QueueSpec => ImplementsRetryableJob
<1>1. QueueInit => Abstract!AbsInit
  BY DEF QueueInit, Abstract!AbsInit
<1>2. ASSUME QueueInv, QueueInv', [QueueNext]_queueVars
      PROVE  [Abstract!AbsNext]_Abstract!absVars
  <2> USE <1>2, QueueAssumption
      DEF QueueInv, TypeOK, AttemptsBounded, JobStates, Abstract!AbsNext, Abstract!absVars,
          Abstract!JobStep, Abstract!Phases
  <2>1. ASSUME NEW j \in Jobs, Enqueue(j) PROVE Abstract!AbsNext
    BY <2>1 DEF Enqueue
  <2>2. CASE Reap
    BY <2>2, Batches DEF Reap, should_retry
  <2>3. CASE Tick
    BY <2>3 DEF Tick
  <2>4. ASSUME NEW w \in Workers, Claim(w) PROVE Abstract!AbsNext
    BY <2>4, Batches DEF Claim
  <2>5. ASSUME NEW w \in Workers, Stop(w) \/ Exit(w) \/ Crash(w) \/ Restart(w)
        PROVE  UNCHANGED Abstract!absVars
    BY <2>5 DEF Stop, Exit, Crash, Restart, rowVars
  <2>6. ASSUME NEW t \in tasks, Heartbeat(t) PROVE UNCHANGED Abstract!absVars
    BY <2>6 DEF Heartbeat
  <2>7. ASSUME NEW t \in tasks, Complete(t) \/ Fail(t) PROVE Abstract!AbsNext
    BY <2>7 DEF Complete, Fail, OwnedRunning, should_retry, Task
  <2>8. ASSUME NEW t \in tasks, LoseOwnership(t) \/ Settle(t)
        PROVE  UNCHANGED Abstract!absVars
    BY <2>8 DEF LoseOwnership, Settle, rowVars
  <2>9. CASE UNCHANGED queueVars
    BY <2>9 DEF queueVars, rowVars
  <2>10. QED
    BY <2>1, <2>2, <2>3, <2>4, <2>5, <2>6, <2>7, <2>8, <2>9 DEF QueueNext
<1>3. QED
  BY <1>1, <1>2, QueueInvariant, PTL DEF QueueSpec, ImplementsRetryableJob, Abstract!AbsSpec
=============================================================================
