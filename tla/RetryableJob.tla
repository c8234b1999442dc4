---------------------------- MODULE RetryableJob ----------------------------
(***************************************************************************)
(* What the background queue promises about each job, with no workers, no  *)
(* leases and no clock: a job waits, runs at most MaxAttempts times, goes  *)
(* back to waiting only while attempts remain, and never leaves SUCCEEDED  *)
(* or FAILED.  JobQueue implements this specification.                     *)
(***************************************************************************)
EXTENDS Naturals

CONSTANTS Jobs,         \* identities of the jobs that may be enqueued
          MaxAttempts   \* BackgroundJobModel.max_attempts

VARIABLES phase,        \* phase[j]: where job j stands
          runs          \* runs[j]: how many times job j was handed to a worker

absVars == <<phase, runs>>

Phases == {"ABSENT", "PENDING", "RUNNING", "SUCCEEDED", "FAILED"}

AbsInit ==
    /\ phase = [j \in Jobs |-> "ABSENT"]
    /\ runs = [j \in Jobs |-> 0]

\* The steps one job may take: from phase p after n runs to phase q after m.
JobStep(p, n, q, m) ==
    \/ p = q /\ m = n
    \/ p = "ABSENT" /\ q = "PENDING" /\ m = n
    \/ p = "PENDING" /\ q = "RUNNING" /\ n < MaxAttempts /\ m = n + 1
    \/ p = "RUNNING" /\ q = "SUCCEEDED" /\ m = n
    \/ p = "RUNNING" /\ q = "PENDING" /\ n < MaxAttempts /\ m = n
    \/ p = "RUNNING" /\ q = "FAILED" /\ n = MaxAttempts /\ m = n

\* A claim and a reap change several jobs in one transaction.
AbsNext ==
    /\ phase' \in [Jobs -> Phases]
    /\ DOMAIN runs' = Jobs
    /\ \A j \in Jobs : JobStep(phase[j], runs[j], phase'[j], runs'[j])

AbsSpec == AbsInit /\ [][AbsNext]_absVars
=============================================================================
