--------------------------- MODULE IssueCreation ---------------------------
(***************************************************************************)
(* Creating one sandbox issue from one confirmed draft.  The attempts of   *)
(* the RESUME job run the end of the issue graph (agent/issue_run_graph,   *)
(* nodes confirm_issue_create and execute_issue_create, services           *)
(* issue_confirmation and issue_creation); RECONCILE jobs run              *)
(* workers/issue_reconciliation.                                           *)
(*                                                                         *)
(* Three stores commit separately: the session of a call, which holds the  *)
(* receipt, the draft status and the issue row until the call commits; the *)
(* idempotency records, one transaction per operation; and the LangGraph   *)
(* checkpoint, saved as the graph goes.  A call may fail between any two.  *)
(***************************************************************************)
EXTENDS Integers, FiniteSets

CONSTANTS
    MaxAttempts,      \* max_attempts of the RESUME job
    MaxReconciles,    \* bound: how many reconciliation calls are made
    MaxFaults,        \* bound: how many calls fail, time out or outlive their lease
    ReaperDeployed,   \* may an attempt start while the one before, reaped, still runs?
    FaultsAtCommit    \* may a call fail between idempotency.complete and its commit?

Resumes == 1..MaxAttempts
Reconciles == (MaxAttempts + 1)..(MaxAttempts + MaxReconciles)
Calls == Resumes \cup Reconciles

ASSUME CreationAssumption ==
    /\ MaxAttempts \in Nat \ {0}
    /\ MaxReconciles \in 0..5      \* so that no RECONCILE job runs out of its five attempts
    /\ MaxFaults \in Nat
    /\ ReaperDeployed \in BOOLEAN
    /\ FaultsAtCommit \in BOOLEAN

VARIABLES
    decision,     \* what the user answered
    expired,      \* the confirmation outlived tool_confirmation_ttl_seconds
    permission,   \* of the user in the project, now
    draft,        \* issue_drafts.status
    receipts,     \* the committed tool_confirmations, by the call that wrote them
    issues,       \* the committed sandbox_issues of the request, by the call that wrote them
    record,       \* the idempotency record of the request
    checkpoint,   \* the checkpoint of the run's thread
    jobs,         \* how many RECONCILE jobs are pending
    call,         \* call[c]: the calls, with the uncommitted writes of their sessions
    faults        \* failures, timeouts and expired leases so far

creationVars == <<decision, expired, permission, draft, receipts, issues, record,
                  checkpoint, jobs, call, faults>>
durableVars == <<draft, receipts, issues>>

Outcomes == {"none", "CREATED", "ALREADY_CREATED", "PENDING", "RECONCILED",
             "REFUSED", "CANCELLED"}
Steps == {"idle", "confirm", "decide", "check", "reserve", "lookup", "create", "complete", "mark",
          "save", "commit", "done", "failed"}
DraftStates == {"DRAFT", "CONFIRMED", "CANCELLED", "CREATED"}
RecordStates == {"none", "IN_PROGRESS", "COMPLETED"}
\* granted: a member with a role that may create issues.
Permissions == {"granted", "role_denied", "revoked"}

\* receipt: the confirmation id in the graph state.  reserved: the call made
\* the reservation.  wrote: rows of its open session; draft "same" is no write.
Call == [at : Steps, receipt : {0} \cup Calls, reserved : BOOLEAN, outcome : Outcomes,
         wroteReceipt : BOOLEAN, wroteDraft : DraftStates \cup {"same"}, wroteIssue : BOOLEAN]
NewCall == [at |-> "idle", receipt |-> 0, reserved |-> FALSE, outcome |-> "none",
            wroteReceipt |-> FALSE, wroteDraft |-> "same", wroteIssue |-> FALSE]

TypeOK ==
    /\ decision \in {"CONFIRM", "CANCEL"}
    /\ expired \in BOOLEAN
    /\ permission \in Permissions
    /\ draft \in DraftStates
    /\ receipts \subseteq Calls
    /\ issues \subseteq Calls
    /\ record \in RecordStates
    /\ checkpoint \in [at : {"interrupted", "confirmed", "done"},
                       receipt : {0} \cup Calls, outcome : Outcomes]
    /\ jobs \in Nat
    /\ call \in [Calls -> Call]
    /\ faults \in Nat

CreationInit ==
    /\ decision \in {"CONFIRM", "CANCEL"}
    /\ expired = FALSE
    /\ permission = "granted"
    /\ draft = "DRAFT"
    /\ receipts = {}
    /\ issues = {}
    /\ record = "none"
    /\ checkpoint = [at |-> "interrupted", receipt |-> 0, outcome |-> "none"]
    /\ jobs = 0
    /\ call = [c \in Calls |-> NewCall]
    /\ faults = 0

-----------------------------------------------------------------------------
(* Sessions. *)

Open(c) == call[c].at \notin {"idle", "done", "failed"}
Goto(c, at) == call' = [call EXCEPT ![c].at = at]
Ends(c, o) == call' = [call EXCEPT ![c].at = IF c \in Resumes THEN "save" ELSE "commit",
                                   ![c].outcome = o]

\* Row locks: the draft row is locked by whoever wrote it and is still open; a
\* second insert of the request waits for the first session to end.
DraftUnlocked(c) == \A b \in Calls \ {c} : Open(b) => call[b].wroteDraft = "same"
IssueUnlocked(c) == \A b \in Calls \ {c} : Open(b) => ~call[b].wroteIssue

\* What a session reads: its own writes over what is committed.
DraftSeen(c) == IF call[c].wroteDraft = "same" THEN draft ELSE call[c].wroteDraft
ReceiptSeen(c) ==
    \/ call[c].receipt \in receipts
    \/ call[c].wroteReceipt /\ call[c].receipt = c
IssueSeen(c) == issues # {} \/ call[c].wroteIssue

-----------------------------------------------------------------------------
(* The world around: time passes, memberships and roles change. *)

Expire ==
    /\ ~expired
    /\ expired' = TRUE
    /\ UNCHANGED <<decision, permission, durableVars, record, checkpoint, jobs, call, faults>>

Revoke ==
    /\ permission = "granted"
    /\ permission' \in Permissions \ {"granted"}
    /\ UNCHANGED <<decision, expired, durableVars, record, checkpoint, jobs, call, faults>>

-----------------------------------------------------------------------------
(* The attempts of the RESUME job: Command(resume) on the checkpoint, once     *)
(* _bind_authorized_knowledge_spaces found the membership that it needs.       *)

StartsAt ==
    IF permission = "revoked" THEN "failed"
    ELSE CASE checkpoint.at = "interrupted" -> "confirm"
           [] checkpoint.at = "confirmed" -> "check"
           [] OTHER -> "commit"

StartResume(c) ==
    /\ c \in Resumes /\ call[c].at = "idle"
    /\ \/ /\ \A b \in Resumes : b = c - 1 => call[b].at = "failed"
          /\ UNCHANGED faults
       \/ /\ ReaperDeployed /\ faults < MaxFaults
          /\ \E b \in Resumes : b = c - 1 /\ Open(b)
          /\ faults' = faults + 1
    /\ call' = [call EXCEPT ![c].at = StartsAt, ![c].receipt = checkpoint.receipt,
                            ![c].outcome = checkpoint.outcome]
    /\ UNCHANGED <<decision, expired, permission, durableVars, record, checkpoint, jobs>>

\* confirm_issue_create after the interrupt returned: record_decision checks the
\* expiry, then save_confirmation finds a committed receipt of the same decision
\* or adds one to the session.
Confirm(c) ==
    /\ call[c].at = "confirm"
    /\ \/ /\ expired
          /\ Ends(c, "REFUSED")
       \/ /\ ~expired
          /\ \E id \in IF receipts = {} THEN {c} ELSE receipts :
                call' = [call EXCEPT ![c].at = "decide", ![c].receipt = id,
                                     ![c].wroteReceipt = (id = c)]
    /\ UNCHANGED <<decision, expired, permission, durableVars, record, checkpoint, jobs, faults>>

\* set_draft_status at the end of record_decision, and the route the node
\* takes.  The checkpoint after the node is written in the background: it may
\* or may not be there when the call fails later.
ConfirmedAnswer == decision = "CONFIRM"

Decide(c) ==
    /\ call[c].at = "decide"
    /\ DraftUnlocked(c)
    /\ \/ /\ ConfirmedAnswer
          /\ call' = [call EXCEPT ![c].at = "check", ![c].wroteDraft = "CONFIRMED"]
          /\ \/ checkpoint' = [at |-> "confirmed", receipt |-> call[c].receipt,
                                outcome |-> "none"]
             \/ UNCHANGED checkpoint
       \/ /\ ~ConfirmedAnswer
          /\ call' = [call EXCEPT ![c].at = "save", ![c].outcome = "CANCELLED",
                                  ![c].wroteDraft = "CANCELLED"]
          /\ UNCHANGED checkpoint
    /\ UNCHANGED <<decision, expired, permission, durableVars, record, jobs, faults>>

\* A completed record is replayed as ALREADY_CREATED.
CompletedReplay == record = "COMPLETED"

\* _execute up to the idempotency barrier: the receipt, the draft, the
\* membership (a lost membership raises), the role, a completed replay, expiry.
Check(c) ==
    /\ call[c].at = "check"
    /\ \/ /\ \/ ~ReceiptSeen(c)
             \/ DraftSeen(c) \notin {"CONFIRMED", "CREATED"}
             \/ permission = "role_denied"
             \/ permission = "granted" /\ record = "none" /\ expired
          /\ Ends(c, "REFUSED")
       \/ /\ ReceiptSeen(c)
          /\ DraftSeen(c) \in {"CONFIRMED", "CREATED"}
          /\ \/ permission = "revoked" /\ Goto(c, "failed")
             \/ permission = "granted" /\ CompletedReplay /\ Ends(c, "ALREADY_CREATED")
             \/ /\ permission = "granted" /\ ~CompletedReplay
                /\ ~(record = "none" /\ expired)
                /\ Goto(c, "reserve")
    /\ UNCHANGED <<decision, expired, permission, durableVars, record, checkpoint, jobs, faults>>

\* idempotency.reserve: INSERT ... ON CONFLICT DO NOTHING, then a read.
Reserve(c) ==
    /\ call[c].at = "reserve"
    /\ record' = IF record = "none" THEN "IN_PROGRESS" ELSE record
    /\ IF CompletedReplay THEN Ends(c, "ALREADY_CREATED")
       ELSE call' = [call EXCEPT ![c].at = "lookup", ![c].reserved = (record = "none")]
    /\ UNCHANGED <<decision, expired, permission, durableVars, checkpoint, jobs, faults>>

-----------------------------------------------------------------------------
(* Reconciliation calls. *)

\* reconcile: no record is a denial, a completed record is the answer.
ReconcilesRecord == record = "IN_PROGRESS"

\* A RECONCILE job is claimed; the last call may come from a job that names a
\* draft nobody confirmed.
StartReconcile(c) ==
    /\ c \in Reconciles /\ call[c].at = "idle"
    /\ \/ jobs > 0 /\ \A b \in Reconciles : b < c => call[b].at # "idle"
       \/ record = "none" /\ c = MaxAttempts + MaxReconciles
    /\ jobs' = IF jobs > 0 THEN jobs - 1 ELSE 0
    /\ call' = [call EXCEPT
          ![c].at = CASE ReconcilesRecord -> "lookup"
                      [] ~ReconcilesRecord /\ record = "COMPLETED" -> "commit"
                      [] OTHER -> "failed",
          ![c].outcome = IF record = "COMPLETED" THEN "RECONCILED" ELSE "none"]
    /\ UNCHANGED <<decision, expired, permission, durableVars, record, checkpoint, faults>>

-----------------------------------------------------------------------------
(* Behind the barrier. *)

\* get_issue_by_request_id.  Found: complete.  Not found: the call that made
\* the reservation, or a reconciliation, creates; any other call only asks for
\* a reconciliation.
MayCreateAnyone(c) == TRUE    \* mutant
MayCreate(c) == call[c].reserved \/ c \in Reconciles

Lookup(c) ==
    /\ call[c].at = "lookup"
    /\ \/ /\ IssueSeen(c)
          /\ call' = [call EXCEPT ![c].at = "complete",
                ![c].outcome = IF c \in Resumes THEN "ALREADY_CREATED" ELSE "RECONCILED"]
          /\ UNCHANGED jobs
       \/ /\ ~IssueSeen(c) /\ MayCreate(c)
          /\ Goto(c, "create")
          /\ UNCHANGED jobs
       \/ /\ ~IssueSeen(c) /\ ~MayCreate(c)
          /\ Ends(c, "PENDING")
          /\ jobs' = jobs + 1
    /\ UNCHANGED <<decision, expired, permission, durableVars, record, checkpoint, faults>>

\* SandboxProjectTrackerAdapter.create_issue: INSERT ... ON CONFLICT DO
\* NOTHING waits for a concurrent insert and returns the row that is there.
InsertAlways(c) == TRUE    \* mutant
InsertNever(c) == FALSE    \* mutant
InsertIfAbsent(c) == ~IssueSeen(c)

Create(c) ==
    /\ call[c].at = "create"
    /\ IssueUnlocked(c)
    /\ call' = [call EXCEPT ![c].at = "complete",
          ![c].wroteIssue = InsertIfAbsent(c),
          ![c].outcome = IF c \in Resumes THEN "CREATED" ELSE "RECONCILED"]
    /\ UNCHANGED <<decision, expired, permission, durableVars, record, checkpoint, jobs, faults>>

\* The response of create_issue is lost: TimeoutError or OSError, with or
\* without the row in the session.  A reconciliation lets it out and is retried.
Timeout(c) ==
    /\ call[c].at = "create"
    /\ IssueUnlocked(c)
    /\ faults < MaxFaults
    /\ faults' = faults + 1
    /\ jobs' = jobs + 1
    /\ \E inserted \in {FALSE, ~IssueSeen(c)} :
          call' = [call EXCEPT
             ![c].at = IF c \in Resumes THEN "save" ELSE "failed",
             ![c].wroteIssue = inserted,
             ![c].outcome = IF c \in Resumes THEN "PENDING" ELSE "none"]
    /\ UNCHANGED <<decision, expired, permission, durableVars, record, checkpoint>>

\* idempotency.complete, in a transaction of its own.
CompleteNothing(c) == Goto(c, "mark") /\ UNCHANGED record    \* mutant
CompleteRecord(c) == Goto(c, "mark") /\ record' = "COMPLETED"
Complete(c) ==
    /\ call[c].at = "complete"
    /\ CompleteRecord(c)
    /\ UNCHANGED <<decision, expired, permission, durableVars, checkpoint, jobs, faults>>

\* set_draft_status(CREATED), in the session.
Mark(c) ==
    /\ call[c].at = "mark"
    /\ DraftUnlocked(c)
    /\ call' = [call EXCEPT ![c].at = IF c \in Resumes THEN "save" ELSE "commit",
                            ![c].wroteDraft = "CREATED"]
    /\ UNCHANGED <<decision, expired, permission, durableVars, record, checkpoint, jobs, faults>>

\* The graph reaches END and its last checkpoint is saved; only then does
\* _invoke commit the session.
SaveCheckpoint(c) ==
    /\ call[c].at = "save"
    /\ checkpoint' = [at |-> "done", receipt |-> call[c].receipt, outcome |-> call[c].outcome]
    /\ Goto(c, "commit")
    /\ UNCHANGED <<decision, expired, permission, durableVars, record, jobs, faults>>

Commit(c) ==
    /\ call[c].at = "commit"
    /\ draft' = DraftSeen(c)
    /\ receipts' = IF call[c].wroteReceipt THEN receipts \cup {c} ELSE receipts
    /\ issues' = IF call[c].wroteIssue THEN issues \cup {c} ELSE issues
    /\ Goto(c, "done")
    /\ UNCHANGED <<decision, expired, permission, record, checkpoint, jobs, faults>>

\* The process dies or an exception rolls the session back.  The job of a
\* reconciliation goes back to the queue.
PastBarrier(c) == record = "COMPLETED" /\ call[c].wroteIssue
Fail(c) ==
    /\ Open(c)
    /\ faults < MaxFaults
    /\ FaultsAtCommit \/ ~PastBarrier(c)
    /\ faults' = faults + 1
    /\ Goto(c, "failed")
    /\ jobs' = IF c \in Reconciles THEN jobs + 1 ELSE jobs
    /\ UNCHANGED <<decision, expired, permission, durableVars, record, checkpoint>>

-----------------------------------------------------------------------------
CallStep(c) ==
    \/ StartResume(c) \/ Confirm(c) \/ Decide(c) \/ Check(c) \/ Reserve(c)
    \/ StartReconcile(c) \/ Lookup(c) \/ Create(c) \/ Complete(c) \/ Mark(c)
    \/ SaveCheckpoint(c) \/ Commit(c)

CreationNext ==
    \/ Expire \/ Revoke
    \/ \E c \in Calls : CallStep(c) \/ Timeout(c) \/ Fail(c)

CreationSpec == CreationInit /\ [][CreationNext]_creationVars

\* Every call that was started goes on, failed attempts are retried, and
\* pending RECONCILE jobs are claimed.
FairCreationSpec ==
    CreationSpec /\ \A c \in Calls : WF_creationVars(CallStep(c))

-----------------------------------------------------------------------------
(* Properties. *)

Quiet == \A c \in Calls : ~Open(c)
Reported(os) == \E c \in Resumes : call[c].at = "done" /\ call[c].outcome \in os

\* However attempts, reconciliations and lost responses overlap, a request
\* has at most one issue, counting the rows of open sessions.
OneIssuePerRequest ==
    Cardinality(issues \cup {c \in Calls : Open(c) /\ call[c].wroteIssue}) <= 1

\* The answer replayed from a completed record is durable: once no call is in
\* progress, a COMPLETED record stands for a committed issue.
CompletedRecordIsDurable == Quiet /\ record = "COMPLETED" => issues # {}

\* No two sessions wait for each other's rows.
NoLockCycle ==
    ~\E b, c \in Calls :
        /\ call[b].at \in {"decide", "mark"} /\ ~DraftUnlocked(b) /\ call[b].wroteIssue
        /\ call[c].at = "create" /\ ~IssueUnlocked(c) /\ call[c].wroteDraft # "same"

\* A lost response is recovered: a run that reports a pending issue is
\* followed by the issue and the completed record.
PendingIsReconciled == Reported({"PENDING"}) ~> issues # {} /\ record = "COMPLETED"
=============================================================================
