------------------------ MODULE IssueCreationProofs -------------------------
(***************************************************************************)
(* The safety of confirmed issue creation, proved for every number of      *)
(* attempts and faults and the reconciliations that a job has attempts     *)
(* for, with and without a reaper.                                         *)
(*                                                                         *)
(* One issue: at most one call has the issue, committed or in its open     *)
(* session (OneWriter).  Durability: a completed record has an issue, or a *)
(* session that still holds it (CompletedHasIssue).                        *)
(*                                                                         *)
(* Lock order: a session that holds the draft row and waits for the issue  *)
(* row made the reservation itself.  While the draft is neither confirmed  *)
(* nor created in the database, only the one session that wrote the draft  *)
(* is past the checks (DraftHeld, OneDraftWriter); before the reservation  *)
(* a confirmed draft is committed only when a reservation has become       *)
(* impossible (BeforeReservation).  So from the reservation to the insert  *)
(* no other call is past the checks and no reconciliation runs             *)
(* (ReserverAlone).                                                        *)
(***************************************************************************)
EXTENDS IssueCreation, FiniteSetTheorems, TLAPS

Settled == {"CONFIRMED", "CREATED"}
UpToCreate == {"idle", "confirm", "decide", "check", "reserve", "lookup", "create"}
Behind == {"lookup", "create", "complete", "mark"}     \* the barrier
PastCheck == {"reserve"} \cup Behind
Closed == {"idle", "done", "failed"}

\* What a call has written by the time it reaches a step.
CallsShaped ==
    \A c \in Calls :
        /\ call[c].at = "idle" => call[c] = NewCall
        /\ call[c].at \in UpToCreate => ~call[c].wroteIssue
        /\ call[c].at \in {"confirm", "decide"} => call[c].wroteDraft = "same"
        /\ c \in Reconciles =>
              /\ call[c].at \notin {"confirm", "decide", "check", "reserve", "save"}
              /\ call[c].at \in Behind => call[c].wroteDraft = "same"
        /\ c \in Resumes /\ call[c].at = "create" => call[c].reserved
        /\ call[c].at = "decide" => ReceiptSeen(c)
        /\ call[c].at = "check" /\ call[c].wroteDraft # "same" => ReceiptSeen(c)

\* One call at most has the issue, committed or in its open session.
HasIssue(c) == c \in issues \/ (Open(c) /\ call[c].wroteIssue)
OneWriter == \A b, c \in Calls : HasIssue(b) /\ HasIssue(c) => b = c

\* One call at most has the draft row locked.
HoldsDraft(c) == Open(c) /\ call[c].wroteDraft # "same"
OneDraftWriter == \A b, c \in Calls : HoldsDraft(b) /\ HoldsDraft(c) => b = c

\* The draft only takes the states that the user's answer leads to.
Answers == IF decision = "CONFIRM" THEN Settled ELSE {"CANCELLED"}
DraftAnswered ==
    /\ draft \in {"DRAFT"} \cup Answers
    /\ \A c \in Calls : call[c].wroteDraft \in {"same"} \cup Answers
    /\ record # "none" => decision = "CONFIRM"

\* Without a committed confirmation, a resume passes the checks only on its own.
DraftHeld ==
    draft \notin Settled =>
        \A c \in Resumes : call[c].at \in PastCheck => call[c].wroteDraft \in Settled

\* Check lets no call pass to a first reservation any more.
Barred == permission # "granted" \/ expired
BeforeReservation ==
    record = "none" =>
        /\ jobs = 0
        /\ draft \in Settled => Barred
        /\ \A c \in Calls :
              /\ call[c].at \notin Behind
              /\ c \in Reconciles => call[c].at \in Closed
              /\ call[c].at \in {"save", "commit"} /\ call[c].wroteDraft \in Settled => Barred
              /\ call[c].at = "reserve" => draft \notin Settled

\* From its reservation to its insert, a call is the only one past the checks.
Reserver(c) == c \in Resumes /\ call[c].at \in {"lookup", "create"} /\ call[c].reserved
Busy(c) ==
    \/ c \in Resumes /\ call[c].at \in PastCheck
    \/ c \in Reconciles /\ call[c].at \notin Closed
ReserverAlone ==
    \A c \in Calls : Reserver(c) =>
        /\ draft \notin Settled
        /\ jobs = 0
        /\ \A b \in Calls \ {c} : ~Busy(b)

CreationInv ==
    /\ TypeOK
    /\ CallsShaped
    /\ OneWriter
    /\ OneDraftWriter
    /\ DraftAnswered
    /\ DraftHeld
    /\ BeforeReservation
    /\ ReserverAlone

\* A call completes the record only with an issue, and a completed record has
\* an issue or an open session that will commit one.
CompletedHasIssue ==
    /\ \A c \in Calls : call[c].at = "complete" => issues # {} \/ call[c].wroteIssue
    /\ record = "COMPLETED" => issues # {} \/ \E c \in Calls : HasIssue(c)

-----------------------------------------------------------------------------
\* A step of call c leaves the other calls alone.
OnlyChanges(c) ==
    /\ call' \in [Calls -> Call]
    /\ \A b \in Calls \ {c} : call'[b] = call[b]
\* It moves c to step a, and changes at most its outcome otherwise.
Moves(c, a) ==
    /\ OnlyChanges(c)
    /\ call'[c].at = a /\ call'[c].receipt = call[c].receipt
    /\ call'[c].reserved = call[c].reserved /\ call'[c].wroteReceipt = call[c].wroteReceipt
    /\ call'[c].wroteDraft = call[c].wroteDraft /\ call'[c].wroteIssue = call[c].wroteIssue

LEMMA CallKinds ==
    /\ Calls = Resumes \cup Reconciles
    /\ \A c \in Resumes : c \notin Reconciles
    /\ 0 \notin Calls
  BY CreationAssumption DEF Calls, Resumes, Reconciles

\* Replacing the record of c by another record.
LEMMA Replaced ==
    ASSUME TypeOK, NEW c \in Calls, NEW x \in Call, call' = [call EXCEPT ![c] = x]
    PROVE  OnlyChanges(c) /\ call'[c] = x
  BY DEF TypeOK, OnlyChanges

LEMMA MovesTo ==
    ASSUME TypeOK, NEW c \in Calls, NEW a \in Steps, NEW o \in Outcomes,
           call' = [call EXCEPT ![c].at = a, ![c].outcome = o]
    PROVE  Moves(c, a)
<1> DEFINE x == [call[c] EXCEPT !.at = a, !.outcome = o]
<1>1. call[c] \in Call /\ call' = [call EXCEPT ![c] = x]
  BY DEF TypeOK
<1>2. x \in Call
  BY <1>1 DEF Call
<1>3. /\ x.at = a /\ x.receipt = call[c].receipt /\ x.reserved = call[c].reserved
      /\ x.wroteReceipt = call[c].wroteReceipt /\ x.wroteDraft = call[c].wroteDraft
      /\ x.wroteIssue = call[c].wroteIssue
  BY <1>1 DEF Call
<1> HIDE DEF x
<1>4. QED
  BY <1>1, <1>2, <1>3, Replaced DEF Moves

LEMMA GotoMoves ==
    ASSUME TypeOK, NEW c \in Calls, NEW a \in Steps, Goto(c, a)
    PROVE  Moves(c, a)
<1> DEFINE x == [call[c] EXCEPT !.at = a]
<1>1. call[c] \in Call /\ call' = [call EXCEPT ![c] = x]
  BY DEF TypeOK, Goto
<1>2. x \in Call
  BY <1>1 DEF Call
<1>3. /\ x.at = a /\ x.receipt = call[c].receipt /\ x.reserved = call[c].reserved
      /\ x.wroteReceipt = call[c].wroteReceipt /\ x.wroteDraft = call[c].wroteDraft
      /\ x.wroteIssue = call[c].wroteIssue
  BY <1>1 DEF Call
<1> HIDE DEF x
<1>4. QED
  BY <1>1, <1>2, <1>3, Replaced DEF Moves

LEMMA EndsMoves ==
    ASSUME TypeOK, NEW c \in Calls, NEW o \in Outcomes, Ends(c, o)
    PROVE  Moves(c, IF c \in Resumes THEN "save" ELSE "commit")
  BY MovesTo DEF Ends, Steps

\* A call that gains neither the issue nor the draft keeps both exclusive.
LEMMA ExclusiveStays ==
    ASSUME OneWriter, OneDraftWriter, NEW c \in Calls, OnlyChanges(c), UNCHANGED issues,
           call'[c].at \notin Closed /\ call'[c].wroteIssue => Open(c) /\ call[c].wroteIssue,
           call'[c].at \notin Closed /\ call'[c].wroteDraft # "same" => HoldsDraft(c)
    PROVE  OneWriter' /\ OneDraftWriter'
<1>1. \A b \in Calls : HasIssue(b)' => HasIssue(b)
  BY DEF HasIssue, Open, OnlyChanges, Closed
<1>2. \A b \in Calls : HoldsDraft(b)' => HoldsDraft(b)
  BY DEF HoldsDraft, Open, OnlyChanges, Closed
<1>3. QED
  BY <1>1, <1>2 DEF OneWriter, OneDraftWriter

\* Receipts that a call sees stay visible to it.
LEMMA ReceiptStays ==
    ASSUME NEW c, receipts \subseteq receipts', call'[c].receipt = call[c].receipt,
           call'[c].wroteReceipt = call[c].wroteReceipt, ReceiptSeen(c)
    PROVE  ReceiptSeen(c)'
  BY DEF ReceiptSeen
LEMMA ShapeOfOthers ==
    ASSUME CallsShaped, NEW c \in Calls, OnlyChanges(c), receipts \subseteq receipts',
           call'[c].at = "idle" => call'[c] = NewCall,
           call'[c].at \in UpToCreate => ~call'[c].wroteIssue,
           call'[c].at \in {"confirm", "decide"} => call'[c].wroteDraft = "same",
           c \in Reconciles =>
              /\ call'[c].at \notin {"confirm", "decide", "check", "reserve", "save"}
              /\ call'[c].at \in Behind => call'[c].wroteDraft = "same",
           c \in Resumes /\ call'[c].at = "create" => call'[c].reserved,
           call'[c].at = "decide" => ReceiptSeen(c)',
           call'[c].at = "check" /\ call'[c].wroteDraft # "same" => ReceiptSeen(c)'
    PROVE  CallsShaped'
<1>1. ASSUME NEW b \in Calls \ {c} PROVE call'[b] = call[b] /\ (ReceiptSeen(b) => ReceiptSeen(b)')
  BY ReceiptStays DEF OnlyChanges
<1>2. QED
  BY <1>1 DEF CallsShaped

\* A step of c that changes neither the draft nor the record keeps the lock
\* order if c itself stays within it.
LEMMA OrderStays ==
    ASSUME CreationInv, NEW c \in Calls, OnlyChanges(c), UNCHANGED <<decision, draft, record>>,
           Barred => Barred', jobs' \in Nat,
           jobs' > jobs => record # "none" /\ Busy(c) /\ ~Reserver(c)',
           call'[c].wroteDraft \in {"same"} \cup Answers,
           draft \notin Settled /\ c \in Resumes /\ call'[c].at \in PastCheck
              => call'[c].wroteDraft \in Settled,
           record = "none" =>
              /\ call'[c].at \notin Behind
              /\ c \in Reconciles => call'[c].at \in Closed
              /\ call'[c].at \in {"save", "commit"} /\ call'[c].wroteDraft \in Settled => Barred
              /\ call'[c].at = "reserve" => draft \notin Settled,
           Reserver(c)' => Reserver(c),
           Busy(c)' => Busy(c) \/ \A d \in Calls : ~Reserver(d)
    PROVE  DraftAnswered' /\ DraftHeld' /\ BeforeReservation' /\ ReserverAlone'
<1> USE DEF CreationInv
<1>1. \A b \in Calls \ {c} : call'[b] = call[b] /\ Reserver(b)' = Reserver(b) /\ Busy(b)' = Busy(b)
  BY DEF OnlyChanges, Reserver, Busy
<1>2. DraftAnswered'
  BY <1>1 DEF DraftAnswered, Answers
<1>3. DraftHeld'
  BY <1>1, CallKinds DEF DraftHeld
<1>4. jobs \in Nat
  BY DEF TypeOK
<1>5. BeforeReservation'
  BY <1>1, <1>4 DEF BeforeReservation
<1>6. ReserverAlone'
  <2> SUFFICES ASSUME NEW d \in Calls, Reserver(d)'
               PROVE  draft \notin Settled /\ jobs' = 0 /\ \A b \in Calls \ {d} : ~Busy(b)'
    BY DEF ReserverAlone
  <2>1. Reserver(d)
    BY <1>1
  <2>2. draft \notin Settled /\ jobs = 0 /\ \A b \in Calls \ {d} : ~Busy(b)
    BY <2>1 DEF ReserverAlone
  <2>3. \A b \in Calls \ {d} : ~Busy(b)'
    BY <1>1, <2>1, <2>2
  <2>4. jobs' = 0
    BY <1>4, <2>2
  <2>5. QED
    BY <2>2, <2>3, <2>4
<1>7. QED
  BY <1>2, <1>3, <1>5, <1>6

-----------------------------------------------------------------------------
LEMMA CreationInitInv == CreationInit => CreationInv /\ CompletedHasIssue
<1> SUFFICES ASSUME CreationInit PROVE CreationInv /\ CompletedHasIssue
  OBVIOUS
<1>1. NewCall \in Call
  BY DEF NewCall, Call, Steps, Outcomes
<1>2. TypeOK
  BY <1>1 DEF CreationInit, TypeOK, Permissions, DraftStates, RecordStates, Outcomes
<1>3. \A c \in Calls : /\ call[c] = NewCall /\ call[c].at = "idle" /\ ~call[c].wroteIssue
                       /\ call[c].wroteDraft = "same"
  BY DEF CreationInit, NewCall
<1>4. CallsShaped /\ OneWriter /\ OneDraftWriter
  BY <1>3 DEF CallsShaped, OneWriter, HasIssue, Open, OneDraftWriter, HoldsDraft, CreationInit,
              Behind, UpToCreate
<1>5. DraftAnswered /\ DraftHeld /\ BeforeReservation /\ ReserverAlone
  BY <1>3, CallKinds DEF CreationInit, DraftAnswered, Answers, DraftHeld, BeforeReservation,
              ReserverAlone, Reserver, Settled, PastCheck, Behind, Closed
<1>6. CompletedHasIssue
  BY <1>3 DEF CreationInit, CompletedHasIssue
<1>7. QED
  BY <1>2, <1>4, <1>5, <1>6 DEF CreationInv

LEMMA WorldKeeps ==
    ASSUME CreationInv, Expire \/ Revoke
    PROVE  CreationInv' /\ (CompletedHasIssue => CompletedHasIssue')
<1> USE DEF CreationInv
<1>1. /\ UNCHANGED <<decision, draft, receipts, issues, record, checkpoint, jobs, call, faults>>
      /\ expired' \in BOOLEAN /\ permission' \in Permissions /\ Barred'
  BY DEF Expire, Revoke, durableVars, TypeOK, Barred
<1>2. TypeOK'
  BY <1>1 DEF TypeOK
<1>3. CallsShaped' /\ OneWriter' /\ OneDraftWriter'
  BY <1>1 DEF CallsShaped, ReceiptSeen, OneWriter, HasIssue, Open, OneDraftWriter, HoldsDraft
<1>4. DraftAnswered' /\ DraftHeld' /\ BeforeReservation' /\ ReserverAlone'
  BY <1>1 DEF DraftAnswered, Answers, DraftHeld, BeforeReservation, ReserverAlone, Reserver, Busy
<1>5. CompletedHasIssue => CompletedHasIssue'
  BY <1>1 DEF CompletedHasIssue, HasIssue, Open
<1>6. QED
  BY <1>2, <1>3, <1>4, <1>5

\* A completed record keeps its issue while nobody rolls it back.
LEMMA CompletedStays ==
    ASSUME CompletedHasIssue, NEW c \in Calls, OnlyChanges(c), UNCHANGED issues,
           record' = "COMPLETED" => record = "COMPLETED",
           HasIssue(c) => HasIssue(c)',
           call'[c].at = "complete" => issues # {} \/ call'[c].wroteIssue
    PROVE  CompletedHasIssue'
<1>1. \A b \in Calls : HasIssue(b) => HasIssue(b)'
  BY DEF HasIssue, Open, OnlyChanges
<1>2. \A b \in Calls : call'[b].at = "complete" => issues # {} \/ call'[b].wroteIssue
  BY DEF OnlyChanges, CompletedHasIssue
<1>3. QED
  BY <1>1, <1>2 DEF CompletedHasIssue

\* A move to step a that keeps the durable state and the record.
LEMMA MovesKeep ==
    ASSUME CreationInv, NEW c \in Calls, NEW a \in Steps \ {"idle", "confirm", "decide", "check"},
           Moves(c, a), UNCHANGED <<decision, expired, permission, durableVars, record>>,
           (TypeOK /\ call' \in [Calls -> Call]) => TypeOK',
           jobs' > jobs => record # "none" /\ Busy(c) /\ a \notin {"lookup", "create"},
           a \notin Closed => Open(c) \/ call[c].at = "idle",
           a \in UpToCreate => ~call[c].wroteIssue,
           c \in Reconciles => /\ a \notin {"reserve", "save"}
                               /\ a \in Behind => call[c].wroteDraft = "same",
           c \in Resumes /\ a = "create" => call[c].reserved,
           draft \notin Settled /\ c \in Resumes /\ a \in PastCheck => call[c].wroteDraft \in Settled,
           record = "none" =>
              /\ a \notin Behind
              /\ c \in Reconciles => a \in Closed
              /\ a \in {"save", "commit"} /\ call[c].wroteDraft \in Settled => Barred
              /\ a = "reserve" => draft \notin Settled,
           c \in Resumes /\ a \in {"lookup", "create"} /\ call[c].reserved => Reserver(c),
           (c \in Resumes /\ a \in PastCheck) \/ (c \in Reconciles /\ a \notin Closed)
              => Busy(c) \/ \A d \in Calls : ~Reserver(d)
    PROVE  CreationInv'
<1> USE DEF CreationInv
<1>1. UNCHANGED <<draft, receipts, issues>>
  BY DEF durableVars
<1>2. /\ OnlyChanges(c) /\ call'[c].at = a
      /\ call'[c].reserved = call[c].reserved /\ call'[c].wroteDraft = call[c].wroteDraft
      /\ call'[c].wroteIssue = call[c].wroteIssue
  BY DEF Moves
<1>3. TypeOK' /\ jobs' \in Nat
  BY <1>2 DEF OnlyChanges, TypeOK
<1>4. CallsShaped'
  BY <1>1, <1>2, ShapeOfOthers DEF CallsShaped
<1>5. call[c].at = "idle" => ~call[c].wroteIssue /\ call[c].wroteDraft = "same"
  BY DEF CallsShaped, NewCall
<1>6. OneWriter' /\ OneDraftWriter'
  BY <1>1, <1>2, <1>5, ExclusiveStays DEF HoldsDraft
<1>7. DraftAnswered' /\ DraftHeld' /\ BeforeReservation' /\ ReserverAlone'
  <2>1. Barred => Barred'
    BY DEF Barred
  <2>2. call'[c].wroteDraft \in {"same"} \cup Answers
    BY <1>2 DEF DraftAnswered
  <2>3. /\ Reserver(c)' = (c \in Resumes /\ a \in {"lookup", "create"} /\ call[c].reserved)
        /\ Busy(c)' = ((c \in Resumes /\ a \in PastCheck) \/ (c \in Reconciles /\ a \notin Closed))
    BY <1>2 DEF Reserver, Busy
  <2>4. jobs' > jobs => record # "none" /\ Busy(c) /\ ~Reserver(c)'
    BY <2>3
  <2>5. QED
    BY <1>1, <1>2, <1>3, <2>1, <2>2, <2>3, <2>4, OrderStays
<1>8. QED
  BY <1>3, <1>4, <1>6, <1>7

-----------------------------------------------------------------------------
\* A new attempt takes over the checkpoint and has written nothing.
LEMMA StartResumeKeeps ==
    ASSUME CreationInv, NEW c \in Calls, StartResume(c)
    PROVE  CreationInv' /\ (CompletedHasIssue => CompletedHasIssue')
<1> USE DEF CreationInv
<1> DEFINE a == StartsAt
           x == [call[c] EXCEPT !.at = a, !.receipt = checkpoint.receipt,
                                !.outcome = checkpoint.outcome]
<1>0. call' = [call EXCEPT ![c] = x]
  BY DEF StartResume
<1> HIDE DEF x
<1>1. /\ c \in Resumes /\ call[c] = NewCall
      /\ UNCHANGED <<decision, expired, permission, draft, receipts, issues, record,
                     checkpoint, jobs>>
      /\ faults' \in Nat
  BY DEF StartResume, CallsShaped, durableVars, TypeOK
<1>2. a \in {"confirm", "check", "commit", "failed"}
  BY DEF StartsAt
<1>3. /\ checkpoint.receipt \in {0} \cup Calls /\ checkpoint.outcome \in Outcomes
      /\ call[c] \in Call
  BY DEF TypeOK
<1> HIDE DEF a
<1>4. /\ x \in Call /\ x.at = a /\ x.wroteDraft = "same" /\ ~x.wroteIssue /\ ~x.reserved
  <2>1. x \in Call
    BY <1>2, <1>3 DEF Call, Steps, x
  <2>2. /\ x.at = a /\ x.wroteDraft = call[c].wroteDraft /\ x.wroteIssue = call[c].wroteIssue
        /\ x.reserved = call[c].reserved
    BY <1>3 DEF Call, x
  <2>3. QED
    BY <1>1, <2>1, <2>2 DEF NewCall
<1>5. OnlyChanges(c) /\ call'[c] = x
  BY <1>0, <1>4, Replaced
<1>6. TypeOK'
  BY <1>1, <1>5 DEF TypeOK, OnlyChanges
<1>7. CallsShaped'
  BY <1>1, <1>2, <1>4, <1>5, CallKinds, ShapeOfOthers DEF UpToCreate, Behind
<1>8. OneWriter' /\ OneDraftWriter'
  BY <1>1, <1>4, <1>5, ExclusiveStays
<1>9. DraftAnswered' /\ DraftHeld' /\ BeforeReservation' /\ ReserverAlone'
  <2>1. ~Reserver(c)' /\ ~Busy(c)' /\ (Barred => Barred')
    BY <1>1, <1>2, <1>4, <1>5, CallKinds DEF Reserver, Busy, PastCheck, Behind, Barred
  <2>2. jobs' \in Nat /\ ~(jobs' > jobs)
    BY <1>1 DEF TypeOK
  <2>3. QED
    BY <1>1, <1>2, <1>4, <1>5, <2>1, <2>2, CallKinds, OrderStays
       DEF PastCheck, Behind, Closed, Settled
<1>10. CompletedHasIssue => CompletedHasIssue'
  BY <1>1, <1>2, <1>4, <1>5, CompletedStays DEF HasIssue, Open, NewCall
<1>11. QED
  BY <1>6, <1>7, <1>8, <1>9, <1>10

\* record_decision refuses an expired confirmation, or has a receipt to show.
LEMMA ConfirmKeeps ==
    ASSUME CreationInv, NEW c \in Calls, Confirm(c)
    PROVE  CreationInv' /\ (CompletedHasIssue => CompletedHasIssue')
<1> USE DEF CreationInv
<1>1. /\ call[c].at = "confirm" /\ c \in Resumes /\ call[c].wroteDraft = "same"
      /\ ~call[c].wroteIssue /\ Open(c)
      /\ UNCHANGED <<decision, expired, permission, durableVars, record, checkpoint, jobs, faults>>
      /\ UNCHANGED <<draft, receipts, issues>>
  BY CallKinds DEF Confirm, CallsShaped, durableVars, UpToCreate, Open
<1>2. CASE Ends(c, "REFUSED")
  <2>1. Moves(c, "save")
    BY <1>1, <1>2, EndsMoves DEF Outcomes
  <2>2. CreationInv'
    BY <1>1, <2>1, MovesKeep, CallKinds
       DEF Steps, TypeOK, Closed, UpToCreate, Behind, PastCheck, Settled
  <2>3. CompletedHasIssue => CompletedHasIssue'
    BY <1>1, <2>1, CompletedStays DEF Moves, HasIssue, Open
  <2>4. QED
    BY <2>2, <2>3
<1>3. CASE ~Ends(c, "REFUSED")
  <2>1. PICK id \in Calls :
           /\ id \in receipts \/ id = c
           /\ call' = [call EXCEPT ![c] = [call[c] EXCEPT !.at = "decide", !.receipt = id,
                                                          !.wroteReceipt = (id = c)]]
    <3>1. PICK d \in (IF receipts = {} THEN {c} ELSE receipts) :
             call' = [call EXCEPT ![c].at = "decide", ![c].receipt = d, ![c].wroteReceipt = (d = c)]
      BY <1>3 DEF Confirm
    <3>2. d \in Calls /\ (d \in receipts \/ d = c)
      BY <3>1 DEF TypeOK
    <3>3. call' = [call EXCEPT ![c] = [call[c] EXCEPT !.at = "decide", !.receipt = d,
                                                      !.wroteReceipt = (d = c)]]
      BY <3>1
    <3>4. QED
      BY <3>2, <3>3
  <2> DEFINE x == [call[c] EXCEPT !.at = "decide", !.receipt = id, !.wroteReceipt = (id = c)]
  <2>2. call[c] \in Call /\ (id = c) \in BOOLEAN
    BY DEF TypeOK
  <2>3. x \in Call
    BY <2>2 DEF Call, Steps
  <2>4. /\ x.at = "decide" /\ x.receipt = id /\ x.wroteReceipt = (id = c)
        /\ x.wroteDraft = "same" /\ x.wroteIssue = call[c].wroteIssue
    BY <1>1, <2>2 DEF Call
  <2> HIDE DEF x
  <2>5. OnlyChanges(c) /\ call'[c] = x
    BY <2>1, <2>3, Replaced DEF x
  <2>6. TypeOK'
    BY <1>1, <2>5 DEF TypeOK, OnlyChanges
  <2>7. CallsShaped'
    <3>1. ReceiptSeen(c)'
      <4>1. CASE id \in receipts
        BY <1>1, <2>4, <2>5, <4>1 DEF ReceiptSeen
      <4>2. CASE id = c
        BY <2>4, <2>5, <4>2 DEF ReceiptSeen
      <4>3. QED
        BY <2>1, <4>1, <4>2
    <3>2. QED
      BY <1>1, <2>4, <2>5, <3>1, CallKinds, ShapeOfOthers
  <2>8. OneWriter' /\ OneDraftWriter'
    BY <1>1, <2>4, <2>5, ExclusiveStays
  <2>9. DraftAnswered' /\ DraftHeld' /\ BeforeReservation' /\ ReserverAlone'
    <3>1. ~Reserver(c)' /\ ~Busy(c)' /\ (Barred => Barred')
      BY <1>1, <2>4, <2>5, CallKinds DEF Reserver, Busy, PastCheck, Behind, Barred
    <3>2. jobs' \in Nat /\ ~(jobs' > jobs)
      BY <1>1 DEF TypeOK
    <3>3. QED
      BY <1>1, <2>4, <2>5, <3>1, <3>2, CallKinds, OrderStays
         DEF PastCheck, Behind, Closed, Settled
  <2>10. CompletedHasIssue => CompletedHasIssue'
    BY <1>1, <2>4, <2>5, CompletedStays DEF HasIssue
  <2>11. QED
    BY <2>6, <2>7, <2>8, <2>9, <2>10
<1>4. QED
  BY <1>2, <1>3

\* The draft is written only while nobody else has it locked.
LEMMA DraftWrite ==
    ASSUME OneWriter, OneDraftWriter, NEW c \in Calls, OnlyChanges(c), UNCHANGED issues,
           DraftUnlocked(c),
           call'[c].at \notin Closed /\ call'[c].wroteIssue => Open(c) /\ call[c].wroteIssue
    PROVE  OneWriter' /\ OneDraftWriter'
<1>1. \A b \in Calls : HasIssue(b)' => HasIssue(b)
  BY DEF HasIssue, Open, OnlyChanges, Closed
<1>2. \A b \in Calls \ {c} : ~HoldsDraft(b)'
  BY DEF HoldsDraft, Open, OnlyChanges, DraftUnlocked
<1>3. QED
  BY <1>1, <1>2 DEF OneWriter, OneDraftWriter

LEMMA DecideKeeps ==
    ASSUME CreationInv, NEW c \in Calls, Decide(c)
    PROVE  CreationInv' /\ (CompletedHasIssue => CompletedHasIssue')
<1> USE DEF CreationInv
<1>1. /\ call[c].at = "decide" /\ c \in Resumes /\ ReceiptSeen(c) /\ ~call[c].wroteIssue
      /\ UNCHANGED <<decision, expired, permission, draft, receipts, issues, record, jobs, faults>>
      /\ DraftUnlocked(c)
  BY CallKinds DEF Decide, CallsShaped, durableVars, UpToCreate
<1>2. PICK x \in Call :
         /\ call' = [call EXCEPT ![c] = x]
         /\ x.at \in {"check", "save"} /\ x.wroteDraft \in Answers
         /\ x.at = "save" => x.wroteDraft \notin Settled
         /\ x.receipt = call[c].receipt /\ x.wroteReceipt = call[c].wroteReceipt
         /\ x.wroteIssue = call[c].wroteIssue
  <2>1. call[c] \in Call
    BY DEF TypeOK
  <2>2. CASE ConfirmedAnswer
    <3> DEFINE x == [call[c] EXCEPT !.at = "check", !.wroteDraft = "CONFIRMED"]
    <3>1. x \in Call
      BY <2>1 DEF Call, Steps, DraftStates
    <3>2. /\ x.at = "check" /\ x.wroteDraft = "CONFIRMED" /\ x.receipt = call[c].receipt
          /\ x.wroteReceipt = call[c].wroteReceipt /\ x.wroteIssue = call[c].wroteIssue
      BY <2>1 DEF Call
    <3>3. call' = [call EXCEPT ![c] = x]
      BY <2>2 DEF Decide
    <3>4. "CONFIRMED" \in Answers
      BY <2>2 DEF ConfirmedAnswer, Answers, Settled
    <3> HIDE DEF x
    <3>5. QED
      BY <3>1, <3>2, <3>3, <3>4
  <2>3. CASE ~ConfirmedAnswer
    <3> DEFINE x == [call[c] EXCEPT !.at = "save", !.outcome = "CANCELLED",
                                    !.wroteDraft = "CANCELLED"]
    <3>1. x \in Call
      BY <2>1 DEF Call, Steps, DraftStates, Outcomes
    <3>2. /\ x.at = "save" /\ x.wroteDraft = "CANCELLED" /\ x.receipt = call[c].receipt
          /\ x.wroteReceipt = call[c].wroteReceipt /\ x.wroteIssue = call[c].wroteIssue
      BY <2>1 DEF Call
    <3>3. call' = [call EXCEPT ![c] = x]
      BY <2>3 DEF Decide
    <3>4. "CANCELLED" \in Answers /\ "CANCELLED" \notin Settled
      BY <2>3 DEF ConfirmedAnswer, Answers, Settled
    <3> HIDE DEF x
    <3>5. QED
      BY <3>1, <3>2, <3>3, <3>4
  <2>4. QED
    BY <2>2, <2>3
<1>3. OnlyChanges(c) /\ call'[c] = x
  BY <1>2, Replaced
<1>4. TypeOK'
  <2>1. checkpoint' \in [at : {"interrupted", "confirmed", "done"},
                         receipt : {0} \cup Calls, outcome : Outcomes]
    <3>1. call[c].receipt \in {0} \cup Calls
      BY DEF TypeOK, Call
    <3>2. QED
      BY <3>1 DEF Decide, TypeOK, Outcomes
  <2>2. QED
    BY <1>1, <1>3, <2>1 DEF TypeOK, OnlyChanges
<1>5. CallsShaped'
  <2>1. ReceiptSeen(c)'
    BY <1>1, <1>2, <1>3, ReceiptStays
  <2>2. QED
    BY <1>1, <1>2, <1>3, <2>1, CallKinds, ShapeOfOthers
<1>6. OneWriter' /\ OneDraftWriter'
  BY <1>1, <1>2, <1>3, DraftWrite
<1>7. DraftAnswered' /\ DraftHeld' /\ BeforeReservation' /\ ReserverAlone'
  <2>1. ~Reserver(c)' /\ ~Busy(c)' /\ (Barred => Barred')
    BY <1>1, <1>2, <1>3, CallKinds DEF Reserver, Busy, PastCheck, Behind, Barred
  <2>2. jobs' \in Nat /\ ~(jobs' > jobs)
    BY <1>1 DEF TypeOK
  <2>3. QED
    BY <1>1, <1>2, <1>3, <2>1, <2>2, CallKinds, OrderStays DEF PastCheck, Behind
<1>8. CompletedHasIssue => CompletedHasIssue'
  BY <1>1, <1>2, <1>3, CompletedStays DEF HasIssue
<1>9. QED
  BY <1>4, <1>5, <1>6, <1>7, <1>8

\* Only a call that wrote the draft itself passes the checks while the draft is
\* not committed, and then no reservation is held by another call.
LEMMA CheckKeeps ==
    ASSUME CreationInv, NEW c \in Calls, Check(c)
    PROVE  CreationInv' /\ (CompletedHasIssue => CompletedHasIssue')
<1> USE DEF CreationInv
<1>1. /\ call[c].at = "check" /\ c \in Resumes /\ Open(c) /\ ~call[c].wroteIssue
      /\ UNCHANGED <<decision, expired, permission, durableVars, record, checkpoint, jobs, faults>>
      /\ UNCHANGED <<draft, receipts, issues>>
  BY CallKinds DEF Check, CallsShaped, durableVars, UpToCreate, Open
<1>2. ASSUME NEW a \in Steps, Moves(c, a), a # "complete"
      PROVE  CompletedHasIssue => CompletedHasIssue'
  BY <1>1, <1>2, CompletedStays DEF Moves, HasIssue
<1>3. CASE Ends(c, "REFUSED")
  <2>1. Moves(c, "save")
    BY <1>1, <1>3, EndsMoves DEF Outcomes
  <2>2. ASSUME record = "none", call[c].wroteDraft \in Settled PROVE Barred
    <3>1. ReceiptSeen(c)
      BY <1>1, <2>2 DEF CallsShaped, Settled
    <3>2. DraftSeen(c) \in Settled
      BY <2>2 DEF DraftSeen, Settled
    <3>3. call'[c].at = "save"
      BY <2>1 DEF Moves
    <3>4. ~Goto(c, "reserve") /\ ~Goto(c, "failed")
      BY <3>3, GotoMoves DEF Moves, Steps
    <3>5. permission = "role_denied" \/ (permission = "granted" /\ record = "none" /\ expired)
      BY <2>2, <3>1, <3>2, <3>4 DEF Check, CompletedReplay, Settled
    <3>6. QED
      BY <3>5 DEF Barred
  <2>3. CreationInv'
    BY <1>1, <2>1, <2>2, MovesKeep, CallKinds
       DEF Steps, TypeOK, Closed, UpToCreate, Behind, PastCheck
  <2>4. QED
    BY <1>2, <2>1, <2>3 DEF Steps
<1>4. CASE Goto(c, "failed")
  <2>1. Moves(c, "failed")
    BY <1>4, GotoMoves DEF Steps
  <2>2. CreationInv'
    BY <1>1, <2>1, MovesKeep, CallKinds
       DEF Steps, TypeOK, Closed, UpToCreate, Behind, PastCheck
  <2>3. QED
    BY <1>2, <2>1, <2>2 DEF Steps
<1>5. CASE CompletedReplay /\ Ends(c, "ALREADY_CREATED")
  <2>1. Moves(c, "save")
    BY <1>1, <1>5, EndsMoves DEF Outcomes
  <2>2. CreationInv'
    BY <1>1, <1>5, <2>1, MovesKeep, CallKinds
       DEF Steps, TypeOK, Closed, UpToCreate, Behind, PastCheck, CompletedReplay
  <2>3. QED
    BY <1>2, <2>1, <2>2 DEF Steps
<1>6. CASE /\ DraftSeen(c) \in {"CONFIRMED", "CREATED"} /\ permission = "granted"
           /\ ~(record = "none" /\ expired) /\ Goto(c, "reserve")
  <2>1. Moves(c, "reserve")
    BY <1>6, GotoMoves DEF Steps
  <2>2. DraftSeen(c) \in Settled
    BY <1>6 DEF Settled
  <2>3. draft \notin Settled => call[c].wroteDraft \in Settled
    BY <2>2 DEF DraftSeen
  <2>4. record = "none" => draft \notin Settled
    BY <1>6 DEF BeforeReservation, Barred
  <2>5. ASSUME NEW d \in Calls, Reserver(d) PROVE FALSE
    <3>1. draft \notin Settled /\ d # c
      BY <1>1, <2>5 DEF ReserverAlone, Reserver
    <3>2. HoldsDraft(d)
      BY <2>5, <3>1 DEF Reserver, DraftHeld, HoldsDraft, Open, PastCheck, Behind, Settled
    <3>3. HoldsDraft(c)
      BY <1>1, <2>3, <3>1 DEF HoldsDraft, Settled
    <3>4. QED
      BY <3>1, <3>2, <3>3 DEF OneDraftWriter
  <2>6. CreationInv'
    BY <1>1, <2>1, <2>3, <2>4, <2>5, MovesKeep, CallKinds
       DEF Steps, TypeOK, Closed, UpToCreate, Behind, PastCheck
  <2>7. QED
    BY <1>2, <2>1, <2>6 DEF Steps
<1>7. QED
  BY <1>3, <1>4, <1>5, <1>6 DEF Check

\* reserve: the call that finds no record becomes the reserver, alone past the
\* checks; any other call only looks up the issue.
LEMMA ReserveKeeps ==
    ASSUME CreationInv, NEW c \in Calls, Reserve(c)
    PROVE  CreationInv' /\ (CompletedHasIssue => CompletedHasIssue')
<1> USE DEF CreationInv
<1>1. /\ call[c].at = "reserve" /\ c \in Resumes /\ Open(c) /\ ~call[c].wroteIssue
      /\ UNCHANGED <<decision, expired, permission, durableVars, checkpoint, jobs, faults>>
      /\ UNCHANGED <<draft, receipts, issues>>
      /\ record' = IF record = "none" THEN "IN_PROGRESS" ELSE record
  BY CallKinds DEF Reserve, CallsShaped, durableVars, UpToCreate, Open
<1>2. CASE CompletedReplay
  <2>1. Moves(c, "save") /\ UNCHANGED record
    BY <1>1, <1>2, EndsMoves DEF Reserve, Outcomes, CompletedReplay
  <2>2. CreationInv'
    BY <1>1, <1>2, <2>1, MovesKeep, CallKinds
       DEF Steps, TypeOK, Closed, UpToCreate, Behind, PastCheck, CompletedReplay
  <2>3. CompletedHasIssue => CompletedHasIssue'
    BY <1>1, <2>1, CompletedStays DEF Moves, HasIssue
  <2>4. QED
    BY <2>2, <2>3
<1>3. CASE ~CompletedReplay
  <2> DEFINE x == [call[c] EXCEPT !.at = "lookup", !.reserved = (record = "none")]
  <2>1. call' = [call EXCEPT ![c] = x]
    BY <1>3 DEF Reserve
  <2>2. call[c] \in Call /\ (record = "none") \in BOOLEAN
    BY DEF TypeOK
  <2>3. x \in Call
    BY <2>2 DEF Call, Steps
  <2>4. /\ x.at = "lookup" /\ x.reserved = (record = "none")
        /\ x.wroteDraft = call[c].wroteDraft /\ x.wroteIssue = call[c].wroteIssue
    BY <2>2 DEF Call
  <2> HIDE DEF x
  <2>5. x.reserved <=> record = "none"
    BY <2>4
  <2>6. OnlyChanges(c) /\ call'[c] = x
    BY <2>1, <2>3, Replaced
  <2>7. TypeOK' /\ record' # "none"
    BY <1>1, <2>6 DEF TypeOK, OnlyChanges, RecordStates
  <2>8. CallsShaped'
    BY <1>1, <2>4, <2>6, CallKinds, ShapeOfOthers DEF UpToCreate
  <2>9. OneWriter' /\ OneDraftWriter'
    BY <1>1, <2>4, <2>6, ExclusiveStays DEF HoldsDraft
  <2>10. CompletedHasIssue => CompletedHasIssue'
    BY <1>1, <2>4, <2>6, CompletedStays DEF HasIssue
  <2>11. CASE record # "none"
    <3>1. ~Reserver(c)' /\ Busy(c) /\ (Barred => Barred') /\ UNCHANGED record
      BY <1>1, <2>4, <2>5, <2>6, <2>11 DEF Reserver, Busy, PastCheck, Barred
    <3>2. jobs' \in Nat /\ ~(jobs' > jobs)
      BY <1>1 DEF TypeOK
    <3>3. call'[c].wroteDraft \in {"same"} \cup Answers
      BY <2>4, <2>6 DEF DraftAnswered
    <3>4. draft \notin Settled => call'[c].wroteDraft \in Settled
      BY <1>1, <2>4, <2>6 DEF DraftHeld, PastCheck
    <3>5. DraftAnswered' /\ DraftHeld' /\ BeforeReservation' /\ ReserverAlone'
      BY <1>1, <2>6, <2>11, <3>1, <3>2, <3>3, <3>4, OrderStays
    <3>6. QED
      BY <2>7, <2>8, <2>9, <2>10, <3>5
  <2>12. CASE record = "none"
    <3>1. /\ draft \notin Settled /\ jobs = 0
          /\ \A b \in Calls : call[b].at \notin Behind
          /\ \A b \in Reconciles : call[b].at \in Closed
      BY <1>1, <2>12, CallKinds DEF BeforeReservation
    <3>2. \A b \in Resumes : call[b].at = "reserve" => call[b].wroteDraft \in Settled /\ HoldsDraft(b)
      BY <3>1 DEF DraftHeld, PastCheck, HoldsDraft, Open, Settled
    <3>3. \A b \in Calls \ {c} : call'[b] = call[b] /\ ~Busy(b) /\ ~Busy(b)' /\ ~Reserver(b)'
      <4>1. \A b \in Calls \ {c} : call'[b] = call[b] /\ ~Busy(b)
        BY <1>1, <2>6, <3>1, <3>2, CallKinds DEF OneDraftWriter, Busy, PastCheck, OnlyChanges
      <4>2. QED
        BY <4>1, <3>1 DEF Busy, Reserver, Behind
    <3>4. DraftAnswered'
      <4>1. decision = "CONFIRM"
        BY <1>1, <3>2 DEF DraftAnswered, Answers, Settled
      <4>2. \A b \in Calls : call'[b].wroteDraft = call[b].wroteDraft
        BY <2>4, <2>6, <3>3
      <4>3. QED
        BY <1>1, <4>1, <4>2 DEF DraftAnswered, Answers
    <3>5. DraftHeld'
      BY <1>1, <2>4, <2>6, <3>2, <3>3, CallKinds DEF DraftHeld
    <3>6. BeforeReservation'
      BY <2>7 DEF BeforeReservation
    <3>7. ReserverAlone'
      BY <1>1, <3>1, <3>3 DEF ReserverAlone
    <3>8. QED
      BY <2>7, <2>8, <2>9, <2>10, <3>4, <3>5, <3>6, <3>7
  <2>13. QED
    BY <2>11, <2>12
<1>4. QED
  BY <1>2, <1>3

LEMMA StartReconcileKeeps ==
    ASSUME CreationInv, NEW c \in Calls, StartReconcile(c)
    PROVE  CreationInv' /\ (CompletedHasIssue => CompletedHasIssue')
<1> USE DEF CreationInv
<1> DEFINE a == CASE ReconcilesRecord -> "lookup"
                  [] ~ReconcilesRecord /\ record = "COMPLETED" -> "commit"
                  [] OTHER -> "failed"
           o == IF record = "COMPLETED" THEN "RECONCILED" ELSE "none"
<1>1. /\ c \in Reconciles /\ call[c].at = "idle" /\ ~call[c].wroteIssue
      /\ call[c].wroteDraft = "same"
      /\ UNCHANGED <<decision, expired, permission, durableVars, record, checkpoint, faults>>
      /\ UNCHANGED <<draft, receipts, issues>>
  BY DEF StartReconcile, CallsShaped, durableVars, NewCall
<1>2. jobs' \in Nat /\ ~(jobs' > jobs)
  BY DEF StartReconcile, TypeOK
<1>3. a \in {"lookup", "commit", "failed"} /\ (record = "none" => a = "failed")
  BY DEF ReconcilesRecord
<1>4. call' = [call EXCEPT ![c].at = a, ![c].outcome = o]
  BY DEF StartReconcile
<1>5. o \in Outcomes
  BY DEF Outcomes
<1> HIDE DEF a, o
<1>6. Moves(c, a)
  BY <1>3, <1>4, <1>5, MovesTo DEF Steps
<1>7. a # "failed" => \A d \in Calls : ~Reserver(d)
  BY <1>3 DEF StartReconcile, ReserverAlone, TypeOK
<1>8. c \notin Resumes
  BY <1>1, CallKinds
<1>9. CreationInv'
  BY <1>1, <1>2, <1>3, <1>6, <1>7, <1>8, MovesKeep
     DEF Steps, TypeOK, Closed, UpToCreate, Behind, PastCheck, Settled
<1>10. CompletedHasIssue => CompletedHasIssue'
  BY <1>1, <1>3, <1>6, CompletedStays DEF Moves, HasIssue
<1>11. QED
  BY <1>9, <1>10

LEMMA LookupKeeps ==
    ASSUME CreationInv, NEW c \in Calls, Lookup(c)
    PROVE  CreationInv' /\ (CompletedHasIssue => CompletedHasIssue')
<1> USE DEF CreationInv
<1>1. /\ call[c].at = "lookup" /\ Open(c) /\ ~call[c].wroteIssue /\ Busy(c) /\ record # "none"
      /\ c \in Reconciles => call[c].wroteDraft = "same"
      /\ draft \notin Settled /\ c \in Resumes => call[c].wroteDraft \in Settled
      /\ UNCHANGED <<decision, expired, permission, durableVars, record, checkpoint, faults>>
      /\ UNCHANGED <<draft, receipts, issues>>
  BY CallKinds DEF Lookup, CallsShaped, durableVars, UpToCreate, Behind, PastCheck, Open, Busy,
                   BeforeReservation, DraftHeld, Closed
<1>2. jobs' \in Nat
  BY DEF Lookup, TypeOK
<1>3. CASE IssueSeen(c)
  <2> DEFINE o == IF c \in Resumes THEN "ALREADY_CREATED" ELSE "RECONCILED"
  <2>1. call' = [call EXCEPT ![c].at = "complete", ![c].outcome = o] /\ jobs' = jobs
    BY <1>3 DEF Lookup
  <2>2. o \in Outcomes
    BY DEF Outcomes
  <2> HIDE DEF o
  <2>3. Moves(c, "complete")
    BY <2>1, <2>2, MovesTo DEF Steps
  <2>4. CreationInv'
    BY <1>1, <1>2, <2>1, <2>3, MovesKeep, CallKinds
       DEF Steps, TypeOK, Closed, UpToCreate, Behind, PastCheck
  <2>5. CompletedHasIssue => CompletedHasIssue'
    BY <1>1, <1>3, <2>3, CompletedStays DEF Moves, HasIssue, IssueSeen
  <2>6. QED
    BY <2>4, <2>5
<1>4. CASE ~IssueSeen(c) /\ MayCreate(c)
  <2>1. Moves(c, "create") /\ jobs' = jobs
    BY <1>4, GotoMoves DEF Lookup, Steps
  <2>2. /\ c \in Resumes => call[c].reserved
        /\ c \in Resumes /\ call[c].reserved => Reserver(c)
    BY <1>1, <1>4, CallKinds DEF MayCreate, Reserver
  <2>3. CreationInv'
    BY <1>1, <1>2, <2>1, <2>2, MovesKeep
       DEF Steps, TypeOK, Closed, UpToCreate, Behind, PastCheck
  <2>4. CompletedHasIssue => CompletedHasIssue'
    BY <1>1, <2>1, CompletedStays DEF Moves, HasIssue
  <2>5. QED
    BY <2>3, <2>4
<1>5. CASE ~IssueSeen(c) /\ ~MayCreate(c)
  <2>1. c \in Resumes
    BY <1>5, CallKinds DEF MayCreate
  <2>2. Moves(c, "save")
    BY <1>5, <2>1, EndsMoves DEF Lookup, Outcomes
  <2>3. CreationInv'
    BY <1>1, <1>2, <2>1, <2>2, MovesKeep, CallKinds
       DEF Steps, TypeOK, Closed, UpToCreate, Behind, PastCheck
  <2>4. CompletedHasIssue => CompletedHasIssue'
    BY <1>1, <2>2, CompletedStays DEF Moves, HasIssue
  <2>5. QED
    BY <2>3, <2>4
<1>6. QED
  BY <1>3, <1>4, <1>5

\* create_issue, answered or not: the row is inserted only if no session has one.
LEMMA InsertKeeps ==
    ASSUME CreationInv, NEW c \in Calls, call[c].at = "create", IssueUnlocked(c),
           NEW a \in {"complete", "save", "failed"}, NEW i \in {FALSE, ~IssueSeen(c)},
           NEW o \in Outcomes,
           call' = [call EXCEPT ![c].at = a, ![c].wroteIssue = i, ![c].outcome = o],
           UNCHANGED <<decision, expired, permission, durableVars, record, checkpoint>>,
           jobs' \in Nat, faults' \in Nat,
           c \in Reconciles => a # "save",
           a = "complete" => i = ~IssueSeen(c)
    PROVE  CreationInv' /\ (CompletedHasIssue => CompletedHasIssue')
<1> USE DEF CreationInv
<1> DEFINE x == [call[c] EXCEPT !.at = a, !.wroteIssue = i, !.outcome = o]
<1>1. /\ Open(c) /\ ~call[c].wroteIssue /\ Busy(c) /\ record # "none"
      /\ c \in Reconciles => call[c].wroteDraft = "same"
      /\ draft \notin Settled /\ c \in Resumes => call[c].wroteDraft \in Settled
      /\ UNCHANGED <<draft, receipts, issues>>
  BY CallKinds DEF CallsShaped, durableVars, UpToCreate, Behind, PastCheck, Open, Busy,
                   BeforeReservation, DraftHeld, Closed
<1>2. call[c] \in Call /\ i \in BOOLEAN
  BY DEF TypeOK
<1>3. x \in Call
  BY <1>2 DEF Call, Steps
<1>4. /\ x.at = a /\ x.wroteDraft = call[c].wroteDraft /\ x.wroteIssue = i
      /\ x.reserved = call[c].reserved
  BY <1>2 DEF Call
<1>5. OnlyChanges(c) /\ call'[c] = x
  <2>1. call' = [call EXCEPT ![c] = x]
    OBVIOUS
  <2> HIDE DEF x
  <2>2. QED
    BY <1>3, <2>1, Replaced
<1> HIDE DEF x
<1>6. TypeOK'
  BY <1>1, <1>5 DEF TypeOK, OnlyChanges
<1>7. CallsShaped'
  BY <1>1, <1>4, <1>5, CallKinds, ShapeOfOthers DEF UpToCreate, Behind
<1>8. i => issues = {} /\ \A b \in Calls \ {c} : ~HasIssue(b)'
  BY <1>1, <1>5 DEF IssueSeen, IssueUnlocked, HasIssue, Open, OnlyChanges
<1>9. OneWriter' /\ OneDraftWriter'
  <2>1. CASE i
    <3>1. OneWriter'
      BY <1>8, <2>1 DEF OneWriter
    <3>2. \A b \in Calls : HoldsDraft(b)' => HoldsDraft(b)
      BY <1>1, <1>4, <1>5 DEF HoldsDraft, Open, OnlyChanges
    <3>3. QED
      BY <3>1, <3>2 DEF OneDraftWriter
  <2>2. CASE ~i
    BY <1>1, <1>4, <1>5, <2>2, ExclusiveStays DEF HoldsDraft
  <2>3. QED
    BY <2>1, <2>2
<1>10. DraftAnswered' /\ DraftHeld' /\ BeforeReservation' /\ ReserverAlone'
  <2>1. ~Reserver(c)' /\ (Barred => Barred')
    BY <1>4, <1>5 DEF Reserver, Barred
  <2>2. call'[c].wroteDraft \in {"same"} \cup Answers
    BY <1>4, <1>5 DEF DraftAnswered
  <2>3. QED
    BY <1>1, <1>4, <1>5, <2>1, <2>2, OrderStays
<1>11. CompletedHasIssue => CompletedHasIssue'
  <2>1. a = "complete" => issues # {} \/ i
    BY <1>1 DEF IssueSeen
  <2>2. HasIssue(c) => HasIssue(c)'
    BY <1>1 DEF HasIssue
  <2>3. QED
    BY <1>1, <1>4, <1>5, <2>1, <2>2, CompletedStays
<1>12. QED
  BY <1>6, <1>7, <1>9, <1>10, <1>11

LEMMA CreateKeeps ==
    ASSUME CreationInv, NEW c \in Calls, Create(c)
    PROVE  CreationInv' /\ (CompletedHasIssue => CompletedHasIssue')
<1> DEFINE i == ~IssueSeen(c)
           o == IF c \in Resumes THEN "CREATED" ELSE "RECONCILED"
<1>1. /\ call[c].at = "create" /\ IssueUnlocked(c)
      /\ call' = [call EXCEPT ![c].at = "complete", ![c].wroteIssue = i, ![c].outcome = o]
      /\ UNCHANGED <<decision, expired, permission, durableVars, record, checkpoint>>
      /\ jobs' \in Nat /\ faults' \in Nat
  BY DEF Create, InsertIfAbsent, CreationInv, TypeOK
<1>2. o \in Outcomes
  BY DEF Outcomes
<1> HIDE DEF o
<1>3. QED
  BY <1>1, <1>2, InsertKeeps

LEMMA TimeoutKeeps ==
    ASSUME CreationInv, NEW c \in Calls, Timeout(c)
    PROVE  CreationInv' /\ (CompletedHasIssue => CompletedHasIssue')
<1> DEFINE a == IF c \in Resumes THEN "save" ELSE "failed"
           o == IF c \in Resumes THEN "PENDING" ELSE "none"
<1>1. /\ call[c].at = "create" /\ IssueUnlocked(c)
      /\ UNCHANGED <<decision, expired, permission, durableVars, record, checkpoint>>
      /\ jobs' \in Nat /\ faults' \in Nat
  BY DEF Timeout, CreationInv, TypeOK
<1>2. PICK i \in {FALSE, ~IssueSeen(c)} :
         call' = [call EXCEPT ![c].at = a, ![c].wroteIssue = i, ![c].outcome = o]
  BY DEF Timeout
<1>3. o \in Outcomes /\ a \in {"save", "failed"} /\ (c \in Reconciles => a # "save")
  BY CallKinds DEF Outcomes
<1> HIDE DEF a, o
<1>4. QED
  BY <1>1, <1>2, <1>3, InsertKeeps

\* idempotency.complete: the call has seen or written the issue.
LEMMA CompleteKeeps ==
    ASSUME CreationInv, NEW c \in Calls, Complete(c)
    PROVE  CreationInv' /\ (CompletedHasIssue => CompletedHasIssue')
<1> USE DEF CreationInv
<1>1. /\ call[c].at = "complete" /\ Open(c) /\ Busy(c) /\ record # "none"
      /\ record' = "COMPLETED" /\ Moves(c, "mark")
      /\ UNCHANGED <<decision, expired, permission, draft, receipts, issues, checkpoint,
                     jobs, faults>>
  BY CallKinds, GotoMoves DEF Complete, CompleteRecord, durableVars, Behind, PastCheck, Open, Busy,
                   BeforeReservation, Closed, Steps
<1>2. /\ OnlyChanges(c) /\ call'[c].at = "mark"
      /\ call'[c].wroteDraft = call[c].wroteDraft /\ call'[c].wroteIssue = call[c].wroteIssue
  BY <1>1 DEF Moves
<1>3. TypeOK'
  BY <1>1, <1>2 DEF TypeOK, OnlyChanges, RecordStates
<1>4. CallsShaped'
  BY <1>1, <1>2, ShapeOfOthers DEF CallsShaped, UpToCreate, Behind
<1>5. OneWriter' /\ OneDraftWriter'
  BY <1>1, <1>2, ExclusiveStays DEF HoldsDraft
<1>6. \A b \in Calls : call'[b].wroteDraft = call[b].wroteDraft
  BY <1>2 DEF OnlyChanges
<1>7. DraftAnswered' /\ BeforeReservation'
  BY <1>1, <1>6 DEF DraftAnswered, Answers, BeforeReservation
<1>8. DraftHeld'
  <2>1. \A b \in Calls : call'[b].at \in PastCheck => call[b].at \in PastCheck
    BY <1>1, <1>2 DEF OnlyChanges, PastCheck, Behind
  <2>2. QED
    BY <1>1, <1>6, <2>1, CallKinds DEF DraftHeld
<1>9. ReserverAlone'
  <2>1. \A b \in Calls : (Reserver(b)' => Reserver(b)) /\ (Busy(b)' => Busy(b))
    BY <1>1, <1>2 DEF OnlyChanges, Reserver, Busy
  <2>2. QED
    BY <1>1, <2>1 DEF ReserverAlone
<1>10. CompletedHasIssue => CompletedHasIssue'
  <2> SUFFICES ASSUME CompletedHasIssue PROVE CompletedHasIssue'
    OBVIOUS
  <2>1. issues # {} \/ HasIssue(c)'
    BY <1>1, <1>2 DEF CompletedHasIssue, HasIssue, Open
  <2>2. \A b \in Calls : call'[b].at = "complete" => issues # {} \/ call'[b].wroteIssue
    BY <1>2 DEF CompletedHasIssue, OnlyChanges
  <2>3. QED
    BY <1>1, <2>1, <2>2 DEF CompletedHasIssue
<1>11. QED
  BY <1>3, <1>4, <1>5, <1>7, <1>8, <1>9, <1>10

LEMMA MarkKeeps ==
    ASSUME CreationInv, NEW c \in Calls, Mark(c)
    PROVE  CreationInv' /\ (CompletedHasIssue => CompletedHasIssue')
<1> USE DEF CreationInv
<1> DEFINE a == IF c \in Resumes THEN "save" ELSE "commit"
           x == [call[c] EXCEPT !.at = a, !.wroteDraft = "CREATED"]
<1>1. /\ call[c].at = "mark" /\ Open(c) /\ DraftUnlocked(c) /\ record # "none" /\ Busy(c)
      /\ UNCHANGED <<decision, expired, permission, draft, receipts, issues, record, checkpoint,
                     jobs, faults>>
      /\ call' = [call EXCEPT ![c] = x]
  BY CallKinds DEF Mark, durableVars, Behind, PastCheck, Open, Busy, BeforeReservation, Closed
<1>2. call[c] \in Call /\ a \in {"save", "commit"} /\ (c \in Reconciles => a = "commit")
  BY CallKinds DEF TypeOK
<1> HIDE DEF a
<1>3. x \in Call
  BY <1>2 DEF Call, Steps, DraftStates
<1>4. x.at = a /\ x.wroteDraft = "CREATED" /\ x.wroteIssue = call[c].wroteIssue
  BY <1>2 DEF Call
<1> HIDE DEF x
<1>5. OnlyChanges(c) /\ call'[c] = x
  BY <1>1, <1>3, Replaced
<1>6. TypeOK'
  BY <1>1, <1>5 DEF TypeOK, OnlyChanges
<1>7. CallsShaped'
  BY <1>1, <1>2, <1>4, <1>5, ShapeOfOthers DEF UpToCreate, Behind
<1>8. OneWriter' /\ OneDraftWriter'
  BY <1>1, <1>4, <1>5, DraftWrite
<1>9. DraftAnswered' /\ DraftHeld' /\ BeforeReservation' /\ ReserverAlone'
  <2>1. ~Reserver(c)' /\ (Barred => Barred')
    BY <1>1, <1>2, <1>4, <1>5 DEF Reserver, Barred
  <2>2. "CREATED" \in Answers /\ "CREATED" \in Settled
    BY <1>1 DEF DraftAnswered, Answers, Settled
  <2>3. jobs' \in Nat /\ ~(jobs' > jobs)
    BY <1>1 DEF TypeOK
  <2>4. QED
    BY <1>1, <1>4, <1>5, <2>1, <2>2, <2>3, OrderStays
<1>10. CompletedHasIssue => CompletedHasIssue'
  BY <1>1, <1>2, <1>4, <1>5, CompletedStays DEF HasIssue, Open
<1>11. QED
  BY <1>6, <1>7, <1>8, <1>9, <1>10

LEMMA SaveCheckpointKeeps ==
    ASSUME CreationInv, NEW c \in Calls, SaveCheckpoint(c)
    PROVE  CreationInv' /\ (CompletedHasIssue => CompletedHasIssue')
<1> USE DEF CreationInv
<1>1. /\ call[c].at = "save" /\ Open(c) /\ c \in Resumes /\ Moves(c, "commit")
      /\ UNCHANGED <<decision, expired, permission, durableVars, record, jobs, faults>>
      /\ UNCHANGED <<draft, receipts, issues>>
  BY CallKinds, GotoMoves DEF SaveCheckpoint, durableVars, Open, Steps, CallsShaped
<1>2. call' \in [Calls -> Call] => TypeOK'
  <2>1. call[c].receipt \in {0} \cup Calls /\ call[c].outcome \in Outcomes
    BY DEF TypeOK, Call
  <2>2. checkpoint' \in [at : {"interrupted", "confirmed", "done"},
                         receipt : {0} \cup Calls, outcome : Outcomes]
    BY <2>1 DEF SaveCheckpoint
  <2>3. QED
    BY <1>1, <2>2 DEF TypeOK
<1>3. ~(jobs' > jobs)
  BY <1>1 DEF TypeOK
<1>4. record = "none" /\ call[c].wroteDraft \in Settled => Barred
  BY <1>1 DEF BeforeReservation
<1>5. CreationInv'
  BY <1>1, <1>2, <1>3, <1>4, MovesKeep, CallKinds
     DEF Steps, Closed, UpToCreate, Behind, PastCheck
<1>6. CompletedHasIssue => CompletedHasIssue'
  BY <1>1, CompletedStays DEF Moves, HasIssue, Open
<1>7. QED
  BY <1>5, <1>6

\* A call fails only before it holds the issue of a completed record, unless
\* faults between the two commits are allowed.
LEMMA FailKeeps ==
    ASSUME CreationInv, NEW c \in Calls, Fail(c)
    PROVE  CreationInv' /\ (~FaultsAtCommit /\ CompletedHasIssue => CompletedHasIssue')
<1> USE DEF CreationInv
<1>1. /\ Open(c) /\ Moves(c, "failed")
      /\ UNCHANGED <<decision, expired, permission, durableVars, record, checkpoint>>
      /\ UNCHANGED <<draft, receipts, issues>>
      /\ jobs' \in Nat /\ faults' \in Nat
      /\ c \notin Reconciles => jobs' = jobs
  BY GotoMoves DEF Fail, durableVars, Steps, TypeOK
<1>2. c \in Reconciles => record # "none" /\ Busy(c)
  BY <1>1 DEF BeforeReservation, Busy, Closed, Open
<1>3. CreationInv'
  BY <1>1, <1>2, MovesKeep, CallKinds
     DEF Steps, Closed, UpToCreate, Behind, PastCheck, TypeOK
<1>4. ~FaultsAtCommit /\ CompletedHasIssue => CompletedHasIssue'
  <2> SUFFICES ASSUME ~FaultsAtCommit, CompletedHasIssue PROVE CompletedHasIssue'
    OBVIOUS
  <2>1. record # "COMPLETED" \/ ~call[c].wroteIssue
    BY DEF Fail, PastBarrier
  <2>2. \A b \in Calls \ {c} : call'[b] = call[b] /\ (HasIssue(b) => HasIssue(b)')
    BY <1>1 DEF Moves, OnlyChanges, HasIssue, Open
  <2>3. record = "COMPLETED" => (HasIssue(c) => issues # {})
    BY <2>1 DEF HasIssue
  <2>4. \A b \in Calls : call'[b].at = "complete" => issues # {} \/ call'[b].wroteIssue
    BY <1>1, <2>2 DEF Moves, CompletedHasIssue
  <2>5. QED
    BY <1>1, <2>2, <2>3, <2>4 DEF CompletedHasIssue
<1>5. QED
  BY <1>3, <1>4

\* The commit publishes the draft, the receipt and the issue of the session.
LEMMA CommitKeeps ==
    ASSUME CreationInv, NEW c \in Calls, Commit(c)
    PROVE  CreationInv' /\ (CompletedHasIssue => CompletedHasIssue')
<1> USE DEF CreationInv
<1>1. /\ call[c].at = "commit" /\ Open(c) /\ draft' = DraftSeen(c) /\ Moves(c, "done")
      /\ UNCHANGED <<decision, expired, permission, record, checkpoint, jobs, faults>>
      /\ receipts \subseteq receipts' /\ receipts' \subseteq receipts \cup {c}
      /\ issues \subseteq issues' /\ issues' \subseteq issues \cup {c}
      /\ (c \in issues') <=> (c \in issues \/ call[c].wroteIssue)
  BY GotoMoves DEF Commit, Open, Steps
<1>2. OnlyChanges(c) /\ call'[c].at = "done" /\ call'[c].wroteDraft = call[c].wroteDraft
  BY <1>1 DEF Moves
<1>3. TypeOK'
  <2>1. draft' \in DraftStates
    BY <1>1 DEF DraftSeen, TypeOK, Call
  <2>2. QED
    BY <1>1, <1>2, <2>1 DEF TypeOK, OnlyChanges
<1>4. CallsShaped'
  BY <1>1, <1>2, ShapeOfOthers DEF UpToCreate, Behind
<1>5. \A b \in Calls : HasIssue(b)' <=> HasIssue(b)
  BY <1>1, <1>2 DEF HasIssue, Open, OnlyChanges
<1>6. \A b \in Calls : HoldsDraft(b)' => HoldsDraft(b)
  BY <1>2 DEF HoldsDraft, Open, OnlyChanges
<1>7. OneWriter' /\ OneDraftWriter'
  BY <1>5, <1>6 DEF OneWriter, OneDraftWriter
<1>8. ASSUME draft \notin Settled, NEW b \in Resumes \ {c}, call[b].at \in PastCheck
      PROVE  draft' = draft
  <2>1. HoldsDraft(b)
    BY <1>8 DEF DraftHeld, HoldsDraft, Open, PastCheck, Behind, Settled
  <2>2. call[c].wroteDraft = "same"
    BY <1>1, <1>8, <2>1, CallKinds DEF OneDraftWriter, HoldsDraft
  <2>3. QED
    BY <1>1, <2>2 DEF DraftSeen
<1>9. \A b \in Calls : call'[b].at \notin Closed => b # c /\ call'[b] = call[b]
  BY <1>2 DEF OnlyChanges, Closed
<1>10. DraftAnswered'
  <2>1. draft' \in {"DRAFT"} \cup Answers
    BY <1>1 DEF DraftSeen, DraftAnswered
  <2>2. \A b \in Calls : call'[b].wroteDraft = call[b].wroteDraft
    BY <1>2 DEF OnlyChanges
  <2>3. QED
    BY <1>1, <2>1, <2>2 DEF DraftAnswered, Answers
<1>11. draft \in Settled => draft' \in Settled
  BY <1>1 DEF DraftAnswered, Answers, DraftSeen, Settled
<1>12. DraftHeld'
  BY <1>9, <1>11, CallKinds DEF DraftHeld, PastCheck, Behind, Closed
<1>13. BeforeReservation'
  <2> SUFFICES ASSUME record = "none"
               PROVE  /\ jobs = 0
                      /\ draft' \in Settled => Barred'
                      /\ \A b \in Calls :
                            /\ call'[b].at \notin Behind
                            /\ b \in Reconciles => call'[b].at \in Closed
                            /\ call'[b].at \in {"save", "commit"}
                                  /\ call'[b].wroteDraft \in Settled => Barred'
                            /\ call'[b].at = "reserve" => draft' \notin Settled
    BY <1>1 DEF BeforeReservation
  <2>1. Barred' = Barred
    BY <1>1 DEF Barred
  <2>2. jobs = 0 /\ (draft' \in Settled => Barred)
    BY <1>1 DEF BeforeReservation, DraftSeen
  <2>3. ASSUME NEW b \in Calls, call'[b].at = "reserve" PROVE draft' \notin Settled
    <3>1. b # c /\ call[b].at = "reserve" /\ b \in Resumes
      BY <1>9, <2>3, CallKinds DEF Closed, CallsShaped
    <3>2. draft \notin Settled
      BY <3>1 DEF BeforeReservation
    <3>3. QED
      BY <1>8, <3>1, <3>2 DEF PastCheck
  <2>4. \A b \in Calls : /\ call'[b].at \notin Behind
                         /\ b \in Reconciles => call'[b].at \in Closed
                         /\ call'[b].at \in {"save", "commit"}
                               /\ call'[b].wroteDraft \in Settled => Barred
    BY <1>9 DEF BeforeReservation, Behind, Closed
  <2>5. QED
    BY <2>1, <2>2, <2>3, <2>4
<1>14. ReserverAlone'
  <2> SUFFICES ASSUME NEW d \in Calls, Reserver(d)'
               PROVE  draft' \notin Settled /\ jobs = 0 /\ \A b \in Calls \ {d} : ~Busy(b)'
    BY <1>1 DEF ReserverAlone
  <2>1. Reserver(d) /\ d \in Resumes \ {c} /\ call[d].at \in PastCheck
    BY <1>9 DEF Reserver, Closed, PastCheck, Behind
  <2>2. draft \notin Settled /\ jobs = 0 /\ \A b \in Calls \ {d} : ~Busy(b)
    BY <2>1 DEF ReserverAlone
  <2>3. \A b \in Calls : Busy(b)' => Busy(b)
    BY <1>9 DEF Busy, PastCheck, Behind, Closed
  <2>4. QED
    BY <1>8, <2>1, <2>2, <2>3
<1>15. CompletedHasIssue => CompletedHasIssue'
  BY <1>1, <1>5, <1>9 DEF CompletedHasIssue, Closed
<1>16. QED
  BY <1>3, <1>4, <1>7, <1>10, <1>12, <1>13, <1>14, <1>15

-----------------------------------------------------------------------------
LEMMA CreationStep ==
    ASSUME CreationInv, [CreationNext]_creationVars
    PROVE  CreationInv' /\ (~FaultsAtCommit /\ CompletedHasIssue => CompletedHasIssue')
<1>1. CASE Expire \/ Revoke
  BY <1>1, WorldKeeps
<1>2. ASSUME NEW c \in Calls, CallStep(c)
      PROVE  CreationInv' /\ (CompletedHasIssue => CompletedHasIssue')
  BY <1>2, StartResumeKeeps, ConfirmKeeps, DecideKeeps, CheckKeeps, ReserveKeeps,
     StartReconcileKeeps, LookupKeeps, CreateKeeps, CompleteKeeps, MarkKeeps,
     SaveCheckpointKeeps, CommitKeeps DEF CallStep
<1>3. ASSUME NEW c \in Calls, Timeout(c)
      PROVE  CreationInv' /\ (CompletedHasIssue => CompletedHasIssue')
  BY <1>3, TimeoutKeeps
<1>4. ASSUME NEW c \in Calls, Fail(c)
      PROVE  CreationInv' /\ (~FaultsAtCommit /\ CompletedHasIssue => CompletedHasIssue')
  BY <1>4, FailKeeps
<1>5. CASE UNCHANGED creationVars
  <2>1. TypeOK' /\ CallsShaped' /\ OneWriter' /\ OneDraftWriter'
    BY <1>5 DEF creationVars, CreationInv, TypeOK, CallsShaped, ReceiptSeen, OneWriter, HasIssue,
                OneDraftWriter, HoldsDraft, Open
  <2>2. DraftAnswered' /\ DraftHeld' /\ BeforeReservation' /\ ReserverAlone'
    BY <1>5 DEF creationVars, CreationInv, DraftAnswered, Answers, DraftHeld, BeforeReservation,
                Barred, ReserverAlone, Reserver, Busy
  <2>3. CompletedHasIssue => CompletedHasIssue'
    BY <1>5 DEF creationVars, CompletedHasIssue, HasIssue, Open
  <2>4. QED
    BY <2>1, <2>2, <2>3 DEF CreationInv
<1>6. QED
  BY <1>1, <1>2, <1>3, <1>4, <1>5 DEF CreationNext

\* The invariant holds throughout every behaviour of the calls of one request.
LEMMA CreationInvariant == CreationSpec => []CreationInv
<1>1. CreationInit => CreationInv
  BY CreationInitInv
<1>2. CreationInv /\ [CreationNext]_creationVars => CreationInv'
  BY CreationStep
<1>3. QED
  BY <1>1, <1>2, PTL DEF CreationSpec

\* Two elements of a set that are always equal leave it with at most one.
LEMMA AtMostOne ==
    ASSUME NEW S, \A x, y \in S : x = y
    PROVE  Cardinality(S) <= 1
<1>1. CASE S = {}
  BY <1>1, FS_EmptySet
<1>2. CASE S # {}
  <2>1. PICK x \in S : TRUE
    BY <1>2
  <2>2. S = {x}
    BY <2>1
  <2>3. QED
    BY <2>2, FS_Singleton
<1>3. QED
  BY <1>1, <1>2

\* The sessions, the checkpoint, the record and the committed rows keep their types.
THEOREM CreationTypeCorrect == CreationSpec => []TypeOK
<1>1. CreationInv => TypeOK
  BY DEF CreationInv
<1>2. QED
  BY <1>1, CreationInvariant, PTL

\* However many attempts and reconciliations overlap, fail or lose a response,
\* a confirmed request has at most one sandbox issue.
THEOREM CreationOneIssue == CreationSpec => []OneIssuePerRequest
<1>1. ASSUME CreationInv PROVE OneIssuePerRequest
  <2> DEFINE S == issues \cup {c \in Calls : Open(c) /\ call[c].wroteIssue}
  <2>1. \A c \in S : c \in Calls /\ HasIssue(c)
    BY <1>1 DEF CreationInv, TypeOK, HasIssue
  <2>2. \A x, y \in S : x = y
    BY <1>1, <2>1 DEF CreationInv, OneWriter
  <2> HIDE DEF S
  <2>3. Cardinality(S) <= 1
    BY <2>2, AtMostOne
  <2>4. QED
    BY <2>3 DEF OneIssuePerRequest, S
<1>2. QED
  BY <1>1, CreationInvariant, PTL

\* If no call fails between idempotency.complete and its commit, the issue that a
\* completed record is replayed for is in the database once all calls ended.
THEOREM CreationDurable ==
    ASSUME ~FaultsAtCommit
    PROVE  CreationSpec => []CompletedRecordIsDurable
<1>1. CreationInit => CreationInv /\ CompletedHasIssue
  BY CreationInitInv
<1>2. CreationInv /\ CompletedHasIssue /\ [CreationNext]_creationVars
         => CreationInv' /\ CompletedHasIssue'
  BY CreationStep
<1>3. CompletedHasIssue => CompletedRecordIsDurable
  BY DEF CompletedHasIssue, CompletedRecordIsDurable, Quiet, HasIssue
<1>4. QED
  BY <1>1, <1>2, <1>3, PTL DEF CreationSpec

\* No session that holds the issue row waits for the draft row while another that
\* holds the draft row waits for the issue row.
THEOREM CreationNoLockCycle == CreationSpec => []NoLockCycle
<1>1. ASSUME CreationInv PROVE NoLockCycle
  <2> SUFFICES ASSUME NEW b \in Calls, NEW c \in Calls,
                      call[b].at \in {"decide", "mark"}, call[b].wroteIssue,
                      call[c].at = "create", call[c].wroteDraft # "same"
               PROVE  FALSE
    BY DEF NoLockCycle
  <2>1. call[b].at = "mark"
    BY <1>1 DEF CreationInv, CallsShaped, UpToCreate
  <2>2. Reserver(c)
    BY <1>1, CallKinds DEF CreationInv, CallsShaped, Behind, Reserver
  <2>3. Busy(b)
    BY <2>1, CallKinds DEF Busy, PastCheck, Behind, Closed
  <2>4. QED
    BY <1>1, <2>1, <2>2, <2>3 DEF CreationInv, ReserverAlone
<1>2. QED
  BY <1>1, CreationInvariant, PTL
=============================================================================
