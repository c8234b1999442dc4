--------------------------- MODULE EvaluationProofs ---------------------------
(***************************************************************************)
(* What the two modules of the evaluation promise, for any number of cases *)
(* and projects: the artifacts of EvaluationRun, and the fixtures that     *)
(* EvaluationFixtures prepares for them.  The two share no state; each has *)
(* an inductive invariant of its own.                                      *)
(***************************************************************************)
EXTENDS EvaluationRun, EvaluationFixtures, TLAPS, FiniteSetTheorems

-----------------------------------------------------------------------------
(* THE EVALUATION.  One process goes from case to case; the invariant says     *)
(* what the runs, issues and artifacts of the cases before, and of this one,   *)
(* may be when the runner is where it is.                                      *)

\* The statuses of an artifact, without saying what the fold over them returns.
Histories == {<<>>} \cup {Transitions(e, s) : e \in Seq(Events), s \in Statuses}
AnyTrial == [classification : Classifications, run : 0..MaxRuns, setup : 0..MaxRuns,
             transitions : Histories, before : 0..1, after : 0..1]
AnyRunner == [at : Steps, case : 1..N + 1, last : 0..MaxRuns, setup : 0..MaxRuns, run : 0..MaxRuns,
              use : {"setup", "measured"}, resumed : BOOLEAN, request : Requests, count : Nat,
              before : 0..1, after : 0..1, row : Statuses, why : Failures \cup {None},
              trial : AnyTrial \cup {None}]

Types ==
    /\ selected \in [Cases -> Kinds]
    /\ runs \in Seq(Run) /\ Len(runs) <= MaxRuns
    /\ runner \in AnyRunner
    /\ trials \in [Cases -> AnyTrial \cup {None}]

Fixed(c) == [of |-> "fixed", id |-> c]
Faulty(c) == selected[c].protocol \in FaultProtocols
Resuming(c) == selected[c].protocol = "waiting_confirmation_resume"

\* The steps at which a run of the case is observed, and those after it.
Asking == {"poll", "hash", "resume", "prepare", "execute", "again", "measure", "row", "events"}
Over == {"fails", "write", "done", "dead"}

\* A run that was resumed, or will be once the API commits, is the measured run
\* of a case that resumes, and the runner knows of it.
Resumed(r) == Confirmed(r) \/ runs[r].commit = "resume"
RunFits(r) ==
    /\ runs[r].commit = "create" => runs[r].status = "QUEUED" /\ ~Confirmed(r)
    /\ runs[r].commit = "resume" => runs[r].status = "WAITING_CONFIRMATION"
    /\ Resumed(r) => /\ runs[r].use = "measured" /\ Resuming(runs[r].case)
                     /\ runs[r].case = runner.case => runner.resumed \/ runner.at \in Over
RunsFit == \A r \in RunIds : RunFits(r)

OneRunPerUse ==
    \A r, s \in RunIds : runs[r].case = runs[s].case /\ runs[r].use = runs[s].use => r = s

\* The runs that the runner may have made when it is where it is.
CasesSoFar ==
    /\ \A r \in RunIds : runs[r].case <= runner.case
    /\ runner.at \in {"begin", "case", "deny"} => \A r \in RunIds : runs[r].case # runner.case
    /\ runner.use = "setup" \/ runner.at = "post" =>
          \A r \in RunIds : runs[r].case = runner.case => runs[r].use = "setup"
    /\ runner.use = "setup" /\ runner.at = "post" => \A r \in RunIds : runs[r].case # runner.case

\* An issue is the draft of a run that was resumed or the one of a fault case.
IssuesFit ==
    \A q \in issues : \/ \E r \in RunIds : q = Draft(r) /\ Confirmed(r)
                      \/ \E c \in Cases : q = Fixed(c) /\ Faulty(c)

CaseFits ==
    /\ runner.at = "begin" => runner.case = 1 /\ ~runner.resumed
    /\ runner.at \notin {"case", "done", "dead"} => runner.case \in Cases
    /\ runner.at = "fails" => runner.why \in Failures

\* The run of the last response is one of this case and of this request.
LastFits ==
    /\ runner.last # 0 => /\ runner.last \in RunIds
                          /\ runs[runner.last].case = runner.case
                          /\ runs[runner.last].use = runner.use
    /\ runner.at \in Asking => runner.run = runner.last /\ runner.last # 0

ProtocolFits ==
    /\ runner.at = "deny" => Kind.protocol = "authorization_denial"
    /\ runner.at \in {"prepare", "execute", "again"} => Faulty(runner.case)
    /\ runner.at \in {"poll", "hash", "resume"} => ~Faulty(runner.case)
    /\ runner.at \in {"hash", "resume"} =>
          /\ Resuming(runner.case) /\ runner.use = "measured" /\ ~runner.resumed
          /\ runs[runner.run].status = "WAITING_CONFIRMATION"
    /\ runner.at \in {"post", "prepare", "execute", "again", "measure"} /\ Faulty(runner.case) =>
          runner.request = Fixed(runner.case)
    /\ runner.at \in {"row", "events"} /\ Faulty(runner.case) => Fixed(runner.case) \in issues

\* What is read after the poll does not change any more.
ObservedFits ==
    /\ runner.at \in {"measure", "row", "events"} /\ ~Faulty(runner.case) => Final(runner.run)
    /\ runner.at = "events" /\ ~Faulty(runner.case) => runner.row = runs[runner.run].status

TrialFits(c, t) ==
    /\ t.classification = "UNSCORABLE" => selected[c].protocol = "unscorable"
    /\ t.classification = "SCORED" /\ Faulty(c) => Fixed(c) \in issues
    /\ t.run # 0 => /\ t.run \in RunIds /\ runs[t.run].case = c
                    /\ runs[t.run].use = "setup" =>
                          \A r \in RunIds : runs[r].case = c => runs[r].use = "setup"
    /\ t.classification = "SCORED" /\ t.run # 0 /\ ~Faulty(c) =>
          /\ Final(t.run)
          /\ t.transitions = Transitions(runs[t.run].events, runs[t.run].status)

Written == runner.at = "write" => runner.trial \in AnyTrial /\ TrialFits(runner.case, runner.trial)
Filed == \A c \in Cases : trials[c] # None => c < runner.case /\ TrialFits(c, trials[c])

ReportFits ==
    report # None =>
        /\ \A c \in Cases : trials[c] # None
        /\ report.pipeline = "COMPLETE" => \A c \in Cases : trials[c].classification \notin Failures

RunnerFits == CaseFits /\ LastFits /\ ProtocolFits /\ ObservedFits
EvalInv ==
    /\ Types /\ RunsFit /\ OneRunPerUse /\ CasesSoFar /\ IssuesFit /\ RunnerFits
    /\ Written /\ Filed /\ ReportFits

-----------------------------------------------------------------------------
(* The runs. *)

LEMMA RunsType ==
    ASSUME Types
    PROVE  /\ Len(runs) \in Nat /\ RunIds = 1..Len(runs) /\ RunIds \subseteq 1..MaxRuns
           /\ \A r \in RunIds : /\ runs[r] \in Run /\ runs[r].case \in Cases
                                /\ runs[r].events \in Seq(Events) /\ runs[r].status \in Statuses
                                /\ runs[r].commit \in {"create", "resume", "none"}
                                /\ runs[r].use \in {"setup", "measured"}
<1>1. MaxRuns \in Nat
  BY EvaluationAssumption DEF MaxRuns
<1>2. Len(runs) \in Nat /\ RunIds = 1..Len(runs)
  BY DEF Types, RunIds
<1>3. RunIds \subseteq 1..MaxRuns
  BY <1>1, <1>2 DEF Types
<1>4. \A r \in RunIds : runs[r] \in Run
  BY <1>2 DEF Types
<1>5. QED
  BY <1>2, <1>3, <1>4 DEF Run

\* A run's step is logged.
Has(run, x) == \E i \in DOMAIN run.events : run.events[i] = x

LEMMA LoggedEffect ==
    ASSUME NEW run \in Run, NEW status \in Statuses, NEW event \in Events,
           NEW n, n = Logged(run, status, event)
    PROVE  /\ n \in Run /\ n.case = run.case /\ n.use = run.use /\ n.mode = run.mode
           /\ n.commit = "none" /\ n.status = status
           /\ \A x : Has(n, x) <=> x = event \/ Has(run, x)
<1>1. PICK l : l = Append(run.events, event)
  OBVIOUS
<1>2. run.events \in Seq(Events)
  BY DEF Run
<1>3. l \in Seq(Events)
  BY <1>1, <1>2
<1>4. n = [run EXCEPT !.commit = "none", !.status = status, !.events = l]
  BY <1>1 DEF Logged
<1>5. /\ n \in Run /\ n.case = run.case /\ n.use = run.use /\ n.mode = run.mode
      /\ n.commit = "none" /\ n.status = status /\ n.events = l
  BY <1>3, <1>4 DEF Run
<1>6. /\ Len(run.events) \in Nat /\ DOMAIN run.events = 1..Len(run.events)
      /\ DOMAIN l = 1..Len(run.events) + 1 /\ l[Len(run.events) + 1] = event
      /\ \A i \in 1..Len(run.events) : l[i] = run.events[i]
  BY <1>1, <1>2
<1>7. ASSUME NEW x
      PROVE  (\E i \in DOMAIN l : l[i] = x)
                <=> x = event \/ (\E i \in DOMAIN run.events : run.events[i] = x)
  <2>1. Len(run.events) + 1 \in DOMAIN l /\ DOMAIN run.events \subseteq DOMAIN l
        /\ \A i \in DOMAIN l : i \in DOMAIN run.events \/ i = Len(run.events) + 1
    BY <1>6
  <2>2. QED
    BY <1>6, <2>1
<1>8. QED
  BY <1>5, <1>7 DEF Has

\* What a step may do to the runs that are there: a run keeps its case and its
\* use, and what the runner has seen the end of stays as it is.
RunsKept ==
    /\ runs' \in Seq(Run) /\ Len(runs') <= MaxRuns /\ RunIds \subseteq RunIds'
    /\ \A r \in RunIds :
          /\ runs'[r].case = runs[r].case /\ runs'[r].use = runs[r].use
          /\ Confirmed(r) => Confirmed(r)'

\* The API commits or the worker works on a run that is not final.
LEMMA SystemEffect ==
    ASSUME Types, RunsFit, NEW r \in RunIds, Commit(r) \/ Work(r)
    PROVE  /\ RunsKept /\ RunIds' = RunIds /\ ~Final(r)
           /\ \A s \in RunIds : s # r => runs'[s] = runs[s]
           /\ runs'[r].commit = "none" /\ (Confirmed(r)' => Resumed(r))
           /\ issues' = issues \/ (issues' = issues \cup {Draft(r)} /\ Confirmed(r)')
<1>1. /\ runs[r] \in Run /\ runs[r].status \in Statuses
      /\ runs[r].commit \in {"create", "resume", "none"} /\ RunIds = 1..Len(runs)
  BY RunsType
<1>2. SUFFICES ASSUME NEW n, n \in Run, runs' = [runs EXCEPT ![r] = n], n.case = runs[r].case,
                      n.use = runs[r].use, n.commit = "none",
                      Confirmed(r) => Has(n, "RUN_RESUME_QUEUED"),
                      Has(n, "RUN_RESUME_QUEUED") => Resumed(r),
                      ~Final(r),
                      issues' = issues \/ (issues' = issues \cup {Draft(r)} /\ Confirmed(r))
               PROVE  /\ RunsKept /\ RunIds' = RunIds /\ ~Final(r)
                      /\ \A s \in RunIds : s # r => runs'[s] = runs[s]
                      /\ runs'[r].commit = "none" /\ (Confirmed(r)' => Resumed(r))
                      /\ issues' = issues \/ (issues' = issues \cup {Draft(r)} /\ Confirmed(r)')
  <2>1. CASE Commit(r) /\ runs[r].commit = "create"
    <3>1. PICK n : n = [runs[r] EXCEPT !.commit = "none"]
      OBVIOUS
    <3>2. n \in Run /\ n.case = runs[r].case /\ n.use = runs[r].use /\ n.commit = "none"
          /\ n.events = runs[r].events
      BY <1>1, <3>1 DEF Run
    <3>3. runs' = [runs EXCEPT ![r] = n] /\ issues' = issues
      BY <2>1, <3>1 DEF Commit
    <3>4. ~Final(r)
      BY <2>1 DEF RunsFit, RunFits, Final, Terminal
    <3>5. QED
      BY <1>2, <3>2, <3>3, <3>4 DEF Confirmed, Resumed, Has
  <2>2. CASE Commit(r) /\ runs[r].commit # "create"
    <3>1. PICK n : n = Logged(runs[r], "QUEUED", "RUN_RESUME_QUEUED")
      OBVIOUS
    <3>2. /\ n \in Run /\ n.case = runs[r].case /\ n.use = runs[r].use /\ n.commit = "none"
          /\ \A x : Has(n, x) <=> x = "RUN_RESUME_QUEUED" \/ Has(runs[r], x)
      BY <1>1, <3>1, LoggedEffect DEF Statuses, Events
    <3>3. runs' = [runs EXCEPT ![r] = n] /\ issues' = issues /\ runs[r].commit = "resume"
      BY <1>1, <2>2, <3>1 DEF Commit
    <3>4. ~Final(r)
      BY <3>3 DEF RunsFit, RunFits, Final, Terminal
    <3>5. QED
      BY <1>2, <3>2, <3>3, <3>4 DEF Confirmed, Resumed, Has
  <2>3. CASE Work(r)
    <3>1. PICK status \in Statuses, event \in Events :
             /\ runs' = [runs EXCEPT ![r] = Logged(runs[r], status, event)]
             /\ event # "RUN_RESUME_QUEUED"
             /\ issues' = issues \/ (issues' = issues \cup {Draft(r)} /\ Confirmed(r))
      BY <2>3 DEF Work, Statuses, Terminal, Events
    <3>2. PICK n : n = Logged(runs[r], status, event)
      OBVIOUS
    <3>3. /\ n \in Run /\ n.case = runs[r].case /\ n.use = runs[r].use /\ n.commit = "none"
          /\ \A x : Has(n, x) <=> x = event \/ Has(runs[r], x)
      BY <1>1, <3>2, LoggedEffect
    <3>4. ~Final(r)
      BY <2>3 DEF Work, Final, Terminal
    <3>5. QED
      BY <1>2, <3>1, <3>2, <3>3, <3>4 DEF Confirmed, Resumed, Has
  <2>4. QED
    BY <2>1, <2>2, <2>3
<1>3. /\ runs' \in Seq(Run) /\ Len(runs') = Len(runs) /\ DOMAIN runs' = DOMAIN runs
      /\ runs'[r] = n /\ \A s \in RunIds : s # r => runs'[s] = runs[s]
  BY <1>1, <1>2 DEF Types, RunIds
<1>4. Confirmed(r)' <=> Has(n, "RUN_RESUME_QUEUED")
  BY <1>3 DEF Confirmed, Has
<1>5. \A s \in RunIds : s # r => (Confirmed(s)' <=> Confirmed(s))
  BY <1>3 DEF Confirmed
<1>6. RunIds' = RunIds
  BY <1>3 DEF RunIds
<1>7. RunsKept
  BY <1>2, <1>3, <1>4, <1>5, <1>6 DEF RunsKept, Types
<1>8. QED
  BY <1>2, <1>3, <1>4, <1>6, <1>7

-----------------------------------------------------------------------------
(* What is settled stays. *)

LEMMA TrialKept ==
    ASSUME Types, RunsKept, selected' = selected, issues \subseteq issues', NEW c, NEW t,
           TrialFits(c, t), \A r \in RunIds' : r \in RunIds \/ runs'[r].case # c,
           \A r \in RunIds : Final(r) /\ runs[r].case = c => runs'[r] = runs[r]
    PROVE  TrialFits(c, t)'
<1>1. Faulty(c)' = Faulty(c) /\ (Fixed(c) \in issues => Fixed(c) \in issues')
  BY DEF Faulty
<1>2. ASSUME t.run # 0
      PROVE  /\ t.run \in RunIds' /\ runs'[t.run].case = c
             /\ runs'[t.run].use = "setup" =>
                   \A r \in RunIds' : runs'[r].case = c => runs'[r].use = "setup"
  BY <1>2 DEF TrialFits, RunsKept
<1>3. ASSUME t.classification = "SCORED", t.run # 0, ~Faulty(c)
      PROVE  Final(t.run)' /\ t.transitions = Transitions(runs'[t.run].events, runs'[t.run].status)
  <2>1. /\ Final(t.run) /\ t.run \in RunIds /\ runs[t.run].case = c
        /\ t.transitions = Transitions(runs[t.run].events, runs[t.run].status)
    BY <1>3 DEF TrialFits
  <2>2. runs'[t.run] = runs[t.run]
    BY <2>1
  <2>3. QED
    BY <2>1, <2>2 DEF Final, Confirmed
<1>4. QED
  BY <1>1, <1>2, <1>3 DEF TrialFits

LEMMA FiledKept ==
    ASSUME EvalInv, RunsKept, UNCHANGED <<selected, trials>>, issues \subseteq issues',
           runner'.case \in Int, runner.case <= runner'.case,
           \A r \in RunIds' : r \in RunIds \/ runs'[r].case = runner.case,
           \A r \in RunIds : Final(r) /\ runs[r].case < runner.case => runs'[r] = runs[r]
    PROVE  Filed'
<1>1. SUFFICES ASSUME NEW c \in Cases, trials[c] # None
               PROVE  c < runner'.case /\ TrialFits(c, trials[c])'
  BY DEF Filed
<1>2. c < runner.case /\ TrialFits(c, trials[c])
  BY <1>1 DEF EvalInv, Filed
<1>3. c \in Int /\ runner.case \in Int
  BY DEF EvalInv, Types, AnyRunner, Cases
<1>4. PICK t : t = trials[c]
  OBVIOUS
<1>5. \A r \in RunIds' : r \in RunIds \/ runs'[r].case # c
  BY <1>2, <1>3
<1>6. \A r \in RunIds : Final(r) /\ runs[r].case = c => runs'[r] = runs[r]
  BY <1>2
<1>7. TrialFits(c, t)
  BY <1>2, <1>4
<1>8. TrialFits(c, t)'
  BY <1>5, <1>6, <1>7, TrialKept DEF EvalInv
<1>9. trials' = trials
  OBVIOUS
<1>10. c < runner'.case
  BY <1>2, <1>3
<1>11. QED
  BY <1>4, <1>8, <1>9, <1>10

LEMMA ReportKept ==
    ASSUME ReportFits, UNCHANGED <<trials, report>>
    PROVE  ReportFits'
  BY DEF ReportFits

\* The run that the runner resumes was not resumed before.
LEMMA WaitingIsFinal ==
    ASSUME EvalInv, runner.at \in {"hash", "resume"}
    PROVE  /\ runner.run \in RunIds /\ runs[runner.run].case = runner.case
           /\ runs[runner.run].use = "measured" /\ runs[runner.run].commit = "none"
           /\ ~Resumed(runner.run) /\ Final(runner.run)
<1>1. /\ runner.run \in RunIds /\ runs[runner.run].case = runner.case
      /\ runs[runner.run].use = "measured"
      /\ runs[runner.run].status = "WAITING_CONFIRMATION" /\ ~runner.resumed
  BY DEF EvalInv, RunnerFits, LastFits, ProtocolFits, Asking
<1>2. ~Resumed(runner.run)
  BY <1>1 DEF EvalInv, RunsFit, RunFits, Over
<1>3. runs[runner.run].commit \in {"create", "resume", "none"}
  BY <1>1, RunsType DEF EvalInv
<1>4. runs[runner.run].commit = "none"
  BY <1>1, <1>2, <1>3 DEF EvalInv, RunsFit, RunFits, Resumed
<1>5. QED
  BY <1>1, <1>2, <1>4 DEF Final, Resumed

LEMMA SystemStep ==
    ASSUME EvalInv, NEW r \in RunIds, Commit(r) \/ Work(r)
    PROVE  EvalInv'
<1>1. /\ RunsKept /\ RunIds' = RunIds /\ ~Final(r)
      /\ (\A s \in RunIds : s # r => runs'[s] = runs[s])
      /\ runs'[r].commit = "none" /\ (Confirmed(r)' => Resumed(r))
      /\ (issues' = issues \/ (issues' = issues \cup {Draft(r)} /\ Confirmed(r)'))
  BY SystemEffect DEF EvalInv
<1>2. UNCHANGED <<selected, runner, manifest, trials, metrics, report>>
  BY DEF Commit, Work, fileVars, reportVars
<1>3. /\ \A c : Faulty(c)' = Faulty(c) /\ Resuming(c)' = Resuming(c)
      /\ \A s \in RunIds : s # r => Confirmed(s)' = Confirmed(s) /\ Final(s)' = Final(s)
  BY <1>1, <1>2 DEF Faulty, Resuming, Confirmed, Final
<1>4. Types'
  BY <1>1, <1>2 DEF EvalInv, Types, RunsKept
<1>5. RunsFit'
  <2>1. SUFFICES ASSUME NEW s \in RunIds PROVE RunFits(s)'
    BY <1>1 DEF RunsFit
  <2>2. RunFits(s)
    BY DEF EvalInv, RunsFit
  <2>3. CASE s = r
    <3>1. Resumed(r)' => Resumed(r)
      BY <1>1 DEF Resumed
    <3>2. runs'[r].use = runs[r].use /\ runs'[r].case = runs[r].case
      BY <1>1 DEF RunsKept
    <3>3. QED
      BY <1>1, <1>2, <2>2, <2>3, <3>1, <3>2 DEF RunFits, Resuming
  <2>4. CASE s # r
    BY <1>1, <1>2, <1>3, <2>2, <2>4 DEF RunFits, Resuming, Resumed
  <2>5. QED
    BY <2>3, <2>4
<1>6. OneRunPerUse' /\ CasesSoFar'
  BY <1>1, <1>2 DEF EvalInv, OneRunPerUse, CasesSoFar, RunsKept
<1>7. IssuesFit'
  <2>1. SUFFICES ASSUME NEW q \in issues'
                 PROVE  \/ \E s \in RunIds : q = Draft(s) /\ Confirmed(s)'
                        \/ \E c \in Cases : q = Fixed(c) /\ Faulty(c)
    BY <1>1, <1>3 DEF IssuesFit
  <2>2. CASE q \in issues
    BY <1>1, <2>2 DEF EvalInv, IssuesFit, RunsKept
  <2>3. CASE q \notin issues
    BY <1>1, <2>1, <2>3
  <2>4. QED
    BY <2>2, <2>3
<1>8. CaseFits' /\ LastFits'
  BY <1>1, <1>2 DEF EvalInv, RunnerFits, CaseFits, LastFits, RunsKept
<1>9. ProtocolFits'
  <2>1. runner.at \in {"hash", "resume"} => runs'[runner.run] = runs[runner.run]
    BY <1>1, WaitingIsFinal
  <2>2. issues \subseteq issues'
    BY <1>1
  <2>3. QED
    BY <1>2, <2>1, <2>2 DEF EvalInv, RunnerFits, ProtocolFits, Faulty, Resuming, Kind
<1>10. ObservedFits'
  <2>1. SUFFICES ASSUME runner.at \in {"measure", "row", "events"}, ~Faulty(runner.case)
                 PROVE  Final(runner.run)' /\ runs'[runner.run] = runs[runner.run]
    BY <1>2 DEF EvalInv, RunnerFits, ObservedFits, Faulty
  <2>2. Final(runner.run) /\ runner.run \in RunIds
    BY <2>1 DEF EvalInv, RunnerFits, ObservedFits, LastFits, Asking
  <2>3. runs'[runner.run] = runs[runner.run]
    BY <1>1, <2>2
  <2>4. QED
    BY <1>2, <2>2, <2>3 DEF Final, Confirmed
<1>11. Filed'
  <2>1. runner'.case \in Int /\ runner.case <= runner'.case
    BY <1>2 DEF EvalInv, Types, AnyRunner
  <2>2. QED
    BY <1>1, <1>2, <2>1, FiledKept
<1>12. Written'
  <2>1. SUFFICES ASSUME runner.at = "write" PROVE (runner.trial \in AnyTrial /\ TrialFits(runner.case, runner.trial))'
    BY <1>2 DEF Written
  <2>2. PICK c, t : c = runner.case /\ t = runner.trial
    OBVIOUS
  <2>3. t \in AnyTrial /\ TrialFits(c, t)
    BY <2>1, <2>2 DEF EvalInv, Written
  <2>4. TrialFits(c, t)'
    BY <1>1, <1>2, <2>3, TrialKept DEF EvalInv
  <2>5. QED
    BY <1>2, <2>2, <2>3, <2>4
<1>13. ReportFits'
  BY <1>2, ReportKept DEF EvalInv
<1>14. QED
  BY <1>4, <1>5, <1>6, <1>7, <1>8, <1>9, <1>10, <1>11, <1>12, <1>13 DEF EvalInv, RunnerFits

-----------------------------------------------------------------------------
(* The runner goes on. *)

\* A step of the runner in a case that leaves the system alone.
LEMMA RunnerOnly ==
    ASSUME EvalInv, UNCHANGED <<selected, runs, issues, trials, report>>,
           runner' \in AnyRunner, runner'.case = runner.case,
           runner.resumed \/ runner.at \in Over => runner'.resumed \/ runner'.at \in Over,
           CasesSoFar', RunnerFits', Written'
    PROVE  EvalInv'
<1>1. Types' /\ OneRunPerUse' /\ RunIds' = RunIds
  BY DEF EvalInv, Types, OneRunPerUse, RunIds
<1>2. RunsFit'
  <2>1. SUFFICES ASSUME NEW r \in RunIds PROVE RunFits(r)'
    BY <1>1 DEF RunsFit
  <2>2. QED
    BY DEF EvalInv, RunsFit, RunFits, Resumed, Confirmed, Resuming
<1>3. IssuesFit'
  BY <1>1 DEF EvalInv, IssuesFit, Confirmed, Faulty
<1>4. RunsKept
  BY <1>1 DEF EvalInv, Types, RunsKept, Confirmed
<1>5. Filed'
  <2>1. runner'.case \in Int /\ runner.case <= runner'.case
    BY DEF AnyRunner
  <2>2. QED
    BY <1>1, <1>4, <2>1, FiledKept
<1>6. ReportFits'
  BY ReportKept DEF EvalInv
<1>7. QED
  BY <1>1, <1>2, <1>3, <1>5, <1>6 DEF EvalInv

\* What a POST that reaches the API leaves.
LEMMA CreatesEffect ==
    ASSUME EvalInv, runner.case \in Cases, Creates, NEW k, k = Len(runs) + 1
    PROVE  /\ RunsKept /\ k \in 1..MaxRuns /\ k \notin RunIds /\ RunIds' = RunIds \cup {k}
           /\ \A r \in RunIds : runs'[r] = runs[r]
           /\ runs'[k].case = runner.case /\ runs'[k].use = runner.use
           /\ runs'[k].commit = "create" /\ runs'[k].status = "QUEUED" /\ ~Resumed(k)'
           /\ issues' = issues
<1>1. Len(runs) \in Nat /\ RunIds = 1..Len(runs) /\ MaxRuns \in Nat /\ Len(runs) < MaxRuns
  BY RunsType, EvaluationAssumption DEF EvalInv, MaxRuns, Creates
<1>2. ModeOf \in {"qa", "issue_create"}
  <2>1. Kind \in Kinds
    BY DEF Kind, EvalInv, Types
  <2>2. QED
    BY <2>1, EvaluationAssumption DEF ModeOf
<1>3. PICK n : n = NewRun(runner.case, runner.use, ModeOf)
  OBVIOUS
<1>4. runner.use \in {"setup", "measured"}
  BY DEF EvalInv, Types, AnyRunner
<1>5. <<"RUN_QUEUED">> \in Seq(Events)
  BY DEF Events
<1>6. /\ n \in Run /\ n.case = runner.case /\ n.use = runner.use /\ n.commit = "create"
      /\ n.status = "QUEUED" /\ n.events = <<"RUN_QUEUED">>
  BY <1>2, <1>3, <1>4, <1>5 DEF NewRun, Run, Statuses
<1>7. runs' = Append(runs, n) /\ issues' = issues
  BY <1>3 DEF Creates
<1>8. /\ runs' \in Seq(Run) /\ Len(runs') = k /\ RunIds' = 1..k /\ runs'[k] = n
      /\ \A r \in RunIds : runs'[r] = runs[r]
  BY <1>1, <1>6, <1>7 DEF EvalInv, Types, RunIds
<1>9. k \in 1..MaxRuns /\ k \notin RunIds /\ RunIds' = RunIds \cup {k}
  BY <1>1, <1>8
<1>10. ~Confirmed(k)'
  <2>1. DOMAIN n.events = 1..1 /\ n.events[1] = "RUN_QUEUED"
    BY <1>6
  <2>2. QED
    BY <1>8, <2>1 DEF Confirmed
<1>11. ~Resumed(k)'
  BY <1>6, <1>8, <1>10 DEF Resumed
<1>12. RunsKept
  <2>1. Len(runs') <= MaxRuns
    BY <1>1, <1>8
  <2>2. QED
    BY <1>8, <1>9, <2>1 DEF RunsKept, Confirmed
<1>13. QED
  BY <1>6, <1>7, <1>8, <1>9, <1>11, <1>12

\* A step of the runner whose request creates the only run of its use.
LEMMA RunnerCreates ==
    ASSUME EvalInv, runner.case \in Cases, Creates, UNCHANGED <<selected, trials, report>>,
           \A r \in RunIds : runs[r].case = runner.case => runs[r].use # runner.use,
           runner.at \notin Over, runner' \in AnyRunner, runner'.case = runner.case,
           runner.resumed => runner'.resumed \/ runner'.at \in Over,
           runner.use = "setup" => runner'.use = "setup" /\ runner'.at # "post",
           runner'.use = runner.use, runner'.at \notin {"begin", "case", "deny", "post"},
           RunnerFits', Written'
    PROVE  EvalInv'
<1>1. PICK k : k = Len(runs) + 1
  OBVIOUS
<1>2. /\ RunsKept /\ k \in 1..MaxRuns /\ k \notin RunIds /\ RunIds' = RunIds \cup {k}
      /\ (\A r \in RunIds : runs'[r] = runs[r])
      /\ runs'[k].case = runner.case /\ runs'[k].use = runner.use
      /\ runs'[k].commit = "create" /\ runs'[k].status = "QUEUED" /\ ~Resumed(k)'
      /\ issues' = issues
  BY <1>1, CreatesEffect
<1>3. Types'
  BY <1>2 DEF EvalInv, Types, RunsKept
<1>4. \A r \in RunIds : Confirmed(r)' = Confirmed(r) /\ Resumed(r)' = Resumed(r) /\ Final(r)' = Final(r)
  BY <1>2 DEF Confirmed, Resumed, Final
<1>5. RunsFit'
  <2>1. SUFFICES ASSUME NEW r \in RunIds' PROVE RunFits(r)'
    BY DEF RunsFit
  <2>2. CASE r = k
    BY <1>2, <2>2 DEF RunFits, Resumed
  <2>3. CASE r \in RunIds
    BY <1>2, <1>4, <2>3 DEF EvalInv, RunsFit, RunFits, Resuming
  <2>4. QED
    BY <1>2, <2>2, <2>3
<1>6. OneRunPerUse'
  <2>1. SUFFICES ASSUME NEW r \in RunIds', NEW s \in RunIds', runs'[r].case = runs'[s].case,
                        runs'[r].use = runs'[s].use
                 PROVE  r = s
    BY DEF OneRunPerUse
  <2>2. CASE r \in RunIds /\ s \in RunIds
    BY <1>2, <2>1, <2>2 DEF EvalInv, OneRunPerUse
  <2>3. QED
    BY <1>2, <2>1, <2>2
<1>7. CasesSoFar'
  <2>1. runner.case <= runner.case
    BY DEF EvalInv, Types, AnyRunner
  <2>2. \A r \in RunIds' : runs'[r].case <= runner'.case
    BY <1>2, <2>1 DEF EvalInv, CasesSoFar
  <2>3. runner.use = "setup" =>
          \A r \in RunIds' : runs'[r].case = runner.case => runs'[r].use = "setup"
    BY <1>2 DEF EvalInv, CasesSoFar
  <2>4. QED
    BY <2>2, <2>3 DEF CasesSoFar
<1>8. IssuesFit'
  BY <1>2, <1>4 DEF EvalInv, IssuesFit, Faulty
<1>9. Filed'
  <2>1. runner'.case \in Int /\ runner.case <= runner'.case
    BY DEF AnyRunner
  <2>2. QED
    BY <1>2, <2>1, FiledKept
<1>10. ReportFits'
  BY ReportKept DEF EvalInv
<1>11. QED
  BY <1>3, <1>5, <1>6, <1>7, <1>8, <1>9, <1>10 DEF EvalInv

\* The case fails.
LEMMA RaisesFit ==
    ASSUME EvalInv, runner.case \in Cases, RunsKept, NEW why \in Failures, runner' = Raises(why)
    PROVE  /\ runner' \in AnyRunner /\ runner'.at = "fails" /\ runner'.case = runner.case
           /\ runner'.use = runner.use /\ runner'.resumed = runner.resumed
           /\ RunnerFits' /\ Written'
<1>1. /\ runner' \in AnyRunner /\ runner'.at = "fails" /\ runner'.case = runner.case
      /\ runner'.use = runner.use /\ runner'.resumed = runner.resumed /\ runner'.why = why
      /\ runner'.last = runner.last
  BY DEF Raises, EvalInv, Types, AnyRunner, Steps
<1>2. CaseFits' /\ ProtocolFits' /\ ObservedFits' /\ Written'
  BY <1>1 DEF CaseFits, ProtocolFits, ObservedFits, Written
<1>3. LastFits'
  BY <1>1 DEF EvalInv, RunnerFits, LastFits, RunsKept, Asking
<1>4. QED
  BY <1>1, <1>2, <1>3 DEF RunnerFits

LEMMA RunsUnchanged ==
    ASSUME EvalInv, runs' = runs
    PROVE  RunsKept
  BY DEF EvalInv, Types, RunsKept, RunIds, Confirmed

LEMMA RaisesStep ==
    ASSUME EvalInv, runner.case \in Cases, NEW why \in Failures, RunnerMoves(Raises(why)),
           UNCHANGED systemVars
    PROVE  EvalInv'
<1>1. runner' = Raises(why) /\ UNCHANGED <<selected, runs, issues, trials, report>>
  BY DEF RunnerMoves, systemVars, fileVars, reportVars
<1>2. /\ runner' \in AnyRunner /\ runner'.at = "fails" /\ runner'.case = runner.case
      /\ runner'.use = runner.use /\ RunnerFits' /\ Written'
  BY <1>1, RaisesFit, RunsUnchanged
<1>3. CasesSoFar'
  BY <1>1, <1>2 DEF EvalInv, CasesSoFar, RunIds
<1>4. QED
  BY <1>1, <1>2, <1>3, RunnerOnly DEF Over

LEMMA RaisesAfterCreate ==
    ASSUME EvalInv, runner.case \in Cases, NEW why \in Failures, RunnerMoves(Raises(why)), Creates,
           runner.at \notin Over,
           \A r \in RunIds : runs[r].case = runner.case => runs[r].use # runner.use
    PROVE  EvalInv'
<1>1. runner' = Raises(why) /\ UNCHANGED <<selected, trials, report>>
  BY DEF RunnerMoves, fileVars, reportVars
<1>2. RunsKept
  BY CreatesEffect
<1>3. /\ runner' \in AnyRunner /\ runner'.at = "fails" /\ runner'.case = runner.case
      /\ runner'.use = runner.use /\ RunnerFits' /\ Written'
  BY <1>1, <1>2, RaisesFit
<1>4. QED
  BY <1>1, <1>3, RunnerCreates DEF Over

\* The case has its artifact.
LEMMA WriteGoes ==
    ASSUME EvalInv, runner.case \in Cases, NEW t \in AnyTrial, TrialFits(runner.case, t),
           RunnerMoves([runner EXCEPT !.at = "write", !.trial = t]), UNCHANGED systemVars
    PROVE  EvalInv'
<1>1. /\ runner' = [runner EXCEPT !.at = "write", !.trial = t]
      /\ UNCHANGED <<selected, runs, issues, trials, report>>
  BY DEF RunnerMoves, systemVars, fileVars, reportVars
<1>2. /\ runner' \in AnyRunner /\ runner'.at = "write" /\ runner'.case = runner.case
      /\ runner'.use = runner.use /\ runner'.last = runner.last /\ runner'.trial = t
  BY <1>1 DEF EvalInv, Types, AnyRunner, Steps
<1>3. CasesSoFar' /\ CaseFits' /\ ProtocolFits' /\ ObservedFits'
  BY <1>1, <1>2 DEF EvalInv, CasesSoFar, RunIds, CaseFits, ProtocolFits, ObservedFits
<1>4. LastFits'
  BY <1>1, <1>2 DEF EvalInv, RunnerFits, LastFits, Asking, RunIds
<1>5. Written'
  BY <1>1, <1>2 DEF Written, TrialFits, Faulty, RunIds, Final, Confirmed
<1>6. QED
  BY <1>1, <1>2, <1>3, <1>4, <1>5, RunnerOnly DEF RunnerFits, Over

LEMMA FallbackFits ==
    ASSUME EvalInv, runner.case \in Cases, NEW class \in Classifications \ {"SCORED"},
           class = "UNSCORABLE" => Kind.protocol = "unscorable", NEW t, t = Fallback(class)
    PROVE  t \in AnyTrial /\ TrialFits(runner.case, t)
<1>1. t = [classification |-> class, run |-> runner.last, setup |-> runner.setup,
           transitions |-> <<>>, before |-> 0, after |-> 0]
  BY DEF Fallback
<1>2. t \in AnyTrial /\ t.classification = class /\ t.run = runner.last
  <2>1. runner.last \in 0..MaxRuns /\ runner.setup \in 0..MaxRuns
    BY DEF EvalInv, Types, AnyRunner
  <2>2. <<>> \in Histories
    BY DEF Histories
  <2>3. QED
    BY <1>1, <2>1, <2>2 DEF AnyTrial
<1>3. ASSUME runner.last # 0
      PROVE  /\ runner.last \in RunIds /\ runs[runner.last].case = runner.case
             /\ runs[runner.last].use = "setup" =>
                   \A r \in RunIds : runs[r].case = runner.case => runs[r].use = "setup"
  BY <1>3 DEF EvalInv, RunnerFits, LastFits, CasesSoFar
<1>4. QED
  BY <1>2, <1>3 DEF TrialFits, Kind

-----------------------------------------------------------------------------
(* The steps of the runner up to its request. *)

\* The first request of a case.
LEMMA FirstRequest ==
    ASSUME EvalInv, runner.at = "case", runner.case \in Cases,
           UNCHANGED <<selected, runs, issues, trials, report>>, runner' \in AnyRunner,
           runner'.at \in {"deny", "post"}, runner'.case = runner.case, runner'.last = runner.last,
           runner'.resumed = runner.resumed,
           runner'.at = "deny" => Kind.protocol = "authorization_denial",
           Faulty(runner.case) => runner'.request = Fixed(runner.case)
    PROVE  EvalInv'
<1>1. runner.last = 0
  BY DEF EvalInv, CasesSoFar, RunnerFits, LastFits
<1>2. CasesSoFar'
  BY DEF EvalInv, CasesSoFar, RunIds
<1>3. CaseFits' /\ LastFits' /\ ProtocolFits' /\ ObservedFits' /\ Written'
  BY <1>1 DEF CaseFits, LastFits, ProtocolFits, ObservedFits, Written, Asking, Kind, Faulty
<1>4. QED
  BY <1>2, <1>3, RunnerOnly DEF RunnerFits, Over

LEMMA StartCaseStep ==
    ASSUME EvalInv, StartCase
    PROVE  EvalInv'
<1>1. /\ runner.at = "case" /\ runner.case \in Cases /\ UNCHANGED systemVars
      /\ UNCHANGED <<selected, runs, issues, trials, report>> /\ runner \in AnyRunner
  BY DEF StartCase, RunnerMoves, systemVars, fileVars, reportVars, EvalInv, Types
<1>2. Kind.protocol \in {"unscorable", "authorization_denial", "setup_then_run",
                         "waiting_confirmation_resume", "same_request_replay",
                         "response_loss_reconcile", "single_run"}
  BY <1>1, EvaluationAssumption DEF EvalInv, Types, Kind
<1>3. CASE Kind.protocol = "unscorable"
  <2>1. PICK t : t = Fallback("UNSCORABLE")
    OBVIOUS
  <2>2. t \in AnyTrial /\ TrialFits(runner.case, t)
    BY <1>1, <1>3, <2>1, FallbackFits DEF Classifications
  <2>3. RunnerMoves([runner EXCEPT !.at = "write", !.trial = t])
    BY <1>3, <2>1 DEF StartCase, FaultProtocols
  <2>4. QED
    BY <1>1, <2>2, <2>3, WriteGoes
<1>4. CASE Kind.protocol = "authorization_denial"
  <2>1. PICK n : n = Cardinality({r \in RunIds : Visible(r)})
    OBVIOUS
  <2>2. n \in Nat
    <3>1. IsFiniteSet(RunIds)
      <4>1. Len(runs) \in Nat /\ RunIds = 1..Len(runs)
        BY RunsType DEF EvalInv
      <4>2. IsFiniteSet(1..Len(runs))
        BY <4>1, FS_Interval
      <4>3. QED
        BY <4>1, <4>2
    <3>2. IsFiniteSet({r \in RunIds : Visible(r)})
      BY <3>1, FS_Subset
    <3>3. QED
      BY <2>1, <3>2, FS_CardinalityType
  <2>3. runner' = [To("deny") EXCEPT !.count = n]
    BY <1>4, <2>1 DEF StartCase, FaultProtocols, RunnerMoves
  <2>4. /\ runner' \in AnyRunner /\ runner'.at = "deny" /\ runner'.case = runner.case
        /\ runner'.last = runner.last /\ runner'.resumed = runner.resumed
    BY <1>1, <2>2, <2>3 DEF To, AnyRunner, Steps
  <2>5. ~Faulty(runner.case)
    BY <1>4 DEF Faulty, Kind, FaultProtocols
  <2>6. QED
    BY <1>1, <1>4, <2>4, <2>5, FirstRequest
<1>5. CASE Kind.protocol = "setup_then_run"
  <2>1. runner' = [To("post") EXCEPT !.use = "setup"]
    BY <1>5 DEF StartCase, FaultProtocols, RunnerMoves
  <2>2. /\ runner' \in AnyRunner /\ runner'.at = "post" /\ runner'.case = runner.case
        /\ runner'.last = runner.last /\ runner'.resumed = runner.resumed
    BY <1>1, <2>1 DEF To, AnyRunner, Steps
  <2>3. ~Faulty(runner.case)
    BY <1>5 DEF Faulty, Kind, FaultProtocols
  <2>4. QED
    BY <1>1, <2>2, <2>3, FirstRequest
<1>6. CASE Kind.protocol \in FaultProtocols
  <2>1. PICK q : q = [of |-> "fixed", id |-> runner.case]
    OBVIOUS
  <2>2. CASE SideEffects(q) # 0
    <3>1. RunnerMoves(Raises("RUNNER_FAILURE"))
      BY <1>6, <2>1, <2>2 DEF StartCase, FaultProtocols
    <3>2. QED
      BY <1>1, <3>1, RaisesStep DEF Failures
  <2>3. CASE SideEffects(q) = 0
    <3>1. runner' = [To("post") EXCEPT !.request = q]
      BY <1>6, <2>1, <2>3 DEF StartCase, RunnerMoves, FaultProtocols
    <3>2. q \in Requests
      BY <1>1, <2>1 DEF Requests
    <3>3. /\ runner' \in AnyRunner /\ runner'.at = "post" /\ runner'.case = runner.case
          /\ runner'.last = runner.last /\ runner'.resumed = runner.resumed /\ runner'.request = q
      BY <1>1, <3>1, <3>2 DEF To, AnyRunner, Steps
    <3>4. QED
      BY <1>1, <2>1, <3>3, FirstRequest DEF Fixed
  <2>4. QED
    BY <2>2, <2>3
<1>7. CASE Kind.protocol \in {"waiting_confirmation_resume", "single_run"}
  <2>1. runner' = To("post")
    BY <1>7 DEF StartCase, RunnerMoves, FaultProtocols
  <2>2. /\ runner' \in AnyRunner /\ runner'.at = "post" /\ runner'.case = runner.case
        /\ runner'.last = runner.last /\ runner'.resumed = runner.resumed
    BY <1>1, <2>1 DEF To, AnyRunner, Steps
  <2>3. ~Faulty(runner.case)
    BY <1>7 DEF Faulty, Kind, FaultProtocols
  <2>4. QED
    BY <1>1, <2>2, <2>3, FirstRequest
<1>8. QED
  BY <1>2, <1>3, <1>4, <1>5, <1>6, <1>7 DEF FaultProtocols

LEMMA PostDeniedStep ==
    ASSUME EvalInv, PostDenied
    PROVE  EvalInv'
<1>1. /\ runner.at = "deny" /\ runner.case \in Cases /\ ~Faulty(runner.case)
      /\ \A r \in RunIds : runs[r].case # runner.case
  BY DEF PostDenied, EvalInv, RunnerFits, CaseFits, ProtocolFits, CasesSoFar, Faulty, Kind,
         FaultProtocols
<1>2. CASE RunnerMoves([runner EXCEPT !.at = "write", !.trial = [Fallback("SCORED") EXCEPT !.run = 0]])
           /\ UNCHANGED systemVars
  <2>1. PICK t : t = [Fallback("SCORED") EXCEPT !.run = 0]
    OBVIOUS
  <2>2. t = [classification |-> "SCORED", run |-> 0, setup |-> runner.setup,
             transitions |-> <<>>, before |-> 0, after |-> 0]
    BY <2>1 DEF Fallback
  <2>3. t \in AnyTrial /\ t.classification = "SCORED" /\ t.run = 0
    <3>1. runner.setup \in 0..MaxRuns /\ 0 \in 0..MaxRuns
      BY EvaluationAssumption DEF EvalInv, Types, AnyRunner, MaxRuns
    <3>2. <<>> \in Histories
      BY DEF Histories
    <3>3. QED
      BY <2>2, <3>1, <3>2 DEF AnyTrial, Classifications
  <2>4. TrialFits(runner.case, t)
    BY <1>1, <2>3 DEF TrialFits
  <2>5. QED
    BY <1>1, <1>2, <2>1, <2>3, <2>4, WriteGoes
<1>3. CASE \E why \in Failures : RunnerMoves(Raises(why)) /\ UNCHANGED systemVars
  BY <1>1, <1>3, RaisesStep
<1>4. CASE Creates /\ RunnerMoves(Raises("INFRA_FAILURE"))
  BY <1>1, <1>4, RaisesAfterCreate DEF Failures, Over
<1>5. CASE Creates /\ RunnerMoves([Raises("RUNNER_FAILURE") EXCEPT !.last = Len(runs) + 1])
  <2>1. PICK k : k = Len(runs) + 1
    OBVIOUS
  <2>2. /\ RunsKept /\ k \in 1..MaxRuns /\ k \in RunIds'
        /\ runs'[k].case = runner.case /\ runs'[k].use = runner.use
    BY <1>1, <1>5, <2>1, CreatesEffect
  <2>3. k \in 0..MaxRuns /\ k # 0
    BY <2>2
  <2>4. runner' = [Raises("RUNNER_FAILURE") EXCEPT !.last = k] /\ UNCHANGED <<selected, trials, report>>
    BY <1>5, <2>1 DEF RunnerMoves, fileVars, reportVars
  <2>5. /\ runner' \in AnyRunner /\ runner'.at = "fails" /\ runner'.case = runner.case
        /\ runner'.use = runner.use /\ runner'.resumed = runner.resumed
        /\ runner'.why \in Failures /\ runner'.last = k
    BY <2>3, <2>4 DEF Raises, EvalInv, Types, AnyRunner, Steps, Failures
  <2>6. CaseFits' /\ LastFits' /\ ProtocolFits' /\ ObservedFits' /\ Written'
    BY <1>1, <2>2, <2>5 DEF CaseFits, LastFits, Asking, ProtocolFits, ObservedFits, Written
  <2>7. QED
    BY <1>1, <1>5, <2>4, <2>5, <2>6, RunnerCreates DEF RunnerFits, Over
<1>6. QED
  BY <1>2, <1>3, <1>4, <1>5 DEF PostDenied, Failures

LEMMA PostRunStep ==
    ASSUME EvalInv, PostRun
    PROVE  EvalInv'
<1>1. runner.at = "post" /\ runner.case \in Cases
  BY DEF PostRun, EvalInv, RunnerFits, CaseFits
<1>2. \A r \in RunIds : runs[r].case = runner.case => runs[r].use # runner.use
  BY <1>1 DEF EvalInv, CasesSoFar
<1>3. CASE RunnerMoves(NoAnswer) /\ UNCHANGED systemVars
  BY <1>1, <1>3, RaisesStep DEF NoAnswer, Failures
<1>4. CASE Creates /\ RunnerMoves(NoAnswer)
  BY <1>1, <1>2, <1>4, RaisesAfterCreate DEF NoAnswer, Failures, Over
<1>5. CASE Creates /\ RunnerMoves(Accepted(Len(runs) + 1))
  <2>1. PICK k : k = Len(runs) + 1
    OBVIOUS
  <2>2. /\ RunsKept /\ k \in 1..MaxRuns /\ k \in RunIds'
        /\ runs'[k].case = runner.case /\ runs'[k].use = runner.use
    BY <1>1, <1>5, <2>1, CreatesEffect
  <2>3. k \in 0..MaxRuns /\ k # 0
    BY <2>2
  <2>4. runner' = Accepted(k) /\ UNCHANGED <<selected, trials, report>>
    BY <1>5, <2>1 DEF RunnerMoves, fileVars, reportVars
  <2>5. PICK at, setup : /\ at = IF Kind.protocol \in FaultProtocols THEN "prepare" ELSE "poll"
                         /\ setup = IF runner.use = "setup"
                                        \/ Kind.protocol = "waiting_confirmation_resume"
                                     THEN k ELSE runner.setup
    OBVIOUS
  <2>6. /\ at \in {"prepare", "poll"} /\ at \in Steps /\ (at = "prepare" <=> Faulty(runner.case))
        /\ setup \in 0..MaxRuns
    BY <2>3, <2>5 DEF Steps, Faulty, Kind, EvalInv, Types, AnyRunner
  <2>7. runner' = [runner EXCEPT !.at = at, !.run = k, !.last = k, !.setup = setup]
    BY <2>4, <2>5 DEF Accepted
  <2>8. /\ runner' \in AnyRunner /\ runner'.at = at /\ runner'.case = runner.case
        /\ runner'.use = runner.use /\ runner'.resumed = runner.resumed
        /\ runner'.run = k /\ runner'.last = k /\ runner'.request = runner.request
    BY <2>3, <2>6, <2>7 DEF EvalInv, Types, AnyRunner
  <2>9. CaseFits' /\ LastFits' /\ ObservedFits' /\ Written'
    BY <1>1, <2>2, <2>3, <2>6, <2>8 DEF CaseFits, LastFits, Asking, ObservedFits, Written
  <2>10. ProtocolFits'
    BY <1>1, <2>4, <2>6, <2>8 DEF EvalInv, RunnerFits, ProtocolFits, Faulty
  <2>11. QED
    BY <1>1, <1>2, <1>5, <2>4, <2>6, <2>8, <2>9, <2>10, RunnerCreates DEF RunnerFits, Over
<1>6. QED
  BY <1>3, <1>4, <1>5 DEF PostRun

-----------------------------------------------------------------------------
(* The steps at which a run is observed. *)

LEMMA RunObserved ==
    ASSUME EvalInv, runner.at \in Asking
    PROVE  /\ runner.case \in Cases /\ runner.run = runner.last /\ runner.run \in RunIds
           /\ runner.run \in 1..MaxRuns
           /\ runs[runner.run].case = runner.case /\ runs[runner.run].use = runner.use
<1>1. /\ runner.case \in Cases /\ runner.run = runner.last /\ runner.run \in RunIds
      /\ runs[runner.run].case = runner.case /\ runs[runner.run].use = runner.use
  BY DEF EvalInv, RunnerFits, CaseFits, LastFits, Asking
<1>2. QED
  BY <1>1, RunsType DEF EvalInv

\* From one of them to another.
LEMMA GoesOnAsking ==
    ASSUME EvalInv, runner.at \in Asking, UNCHANGED <<selected, runs, issues, trials, report>>,
           runner' \in AnyRunner, runner'.at \in Asking, runner'.case = runner.case,
           runner'.last = runner.last, runner'.run = runner.run, runner'.use = runner.use,
           runner'.resumed = runner.resumed, ProtocolFits', ObservedFits'
    PROVE  EvalInv'
<1>1. runner.case \in Cases
  BY RunObserved
<1>2. CasesSoFar'
  BY DEF EvalInv, CasesSoFar, RunIds, Asking
<1>3. CaseFits' /\ LastFits' /\ Written'
  BY <1>1 DEF EvalInv, RunnerFits, CaseFits, LastFits, Written, Asking, RunIds
<1>4. QED
  BY <1>2, <1>3, RunnerOnly DEF RunnerFits, Over, Asking

LEMMA PollGivesUpStep ==
    ASSUME EvalInv, PollGivesUp
    PROVE  EvalInv'
  BY RunObserved, RaisesStep DEF PollGivesUp, Asking, Failures

LEMMA PollAnswerStep ==
    ASSUME EvalInv, PollAnswer
    PROVE  EvalInv'
<1>1. /\ runner.at = "poll" /\ runner.at \in Asking /\ UNCHANGED systemVars
      /\ UNCHANGED <<selected, runs, issues, trials, report>> /\ runner \in AnyRunner
      /\ EndsPoll(runs[runner.run].status)
  BY DEF PollAnswer, RunnerMoves, systemVars, fileVars, reportVars, EvalInv, Types, Asking
<1>2. /\ runner.case \in Cases /\ runner.run \in RunIds /\ ~Faulty(runner.case)
      /\ runs[runner.run].case = runner.case
  BY <1>1, RunObserved DEF EvalInv, RunnerFits, ProtocolFits
<1>3. PICK status : status = runs[runner.run].status
  OBVIOUS
<1>4. RunnerMoves(AfterPoll(status)) /\ runner' = AfterPoll(status)
  BY <1>3 DEF PollAnswer, RunnerMoves
<1>5. CASE AfterPoll(status) = Raises("RUNNER_FAILURE")
  <2>1. RunnerMoves(Raises("RUNNER_FAILURE"))
    BY <1>4, <1>5
  <2>2. QED
    BY <1>1, <1>2, <2>1, RaisesStep DEF Failures
<1>6. CASE runner.use = "setup" /\ AfterPoll(status) = ForgetLast
  <2>1. runner' = [To("post") EXCEPT !.use = "measured", !.last = 0]
    BY <1>4, <1>6 DEF ForgetLast
  <2>2. /\ runner' \in AnyRunner /\ runner'.at = "post" /\ runner'.case = runner.case
        /\ runner'.last = 0 /\ runner'.use = "measured" /\ runner'.resumed = runner.resumed
    <3>1. 0 \in 0..MaxRuns
      BY EvaluationAssumption DEF MaxRuns
    <3>2. QED
      BY <1>1, <2>1, <3>1 DEF To, AnyRunner, Steps
  <2>3. CasesSoFar'
    BY <1>1, <1>6, <2>2 DEF EvalInv, CasesSoFar, RunIds
  <2>4. CaseFits' /\ LastFits' /\ ObservedFits' /\ Written'
    BY <1>2, <2>2 DEF CaseFits, LastFits, Asking, ObservedFits, Written
  <2>5. ProtocolFits'
    BY <1>1, <1>2, <2>2 DEF ProtocolFits, Faulty
  <2>6. QED
    BY <1>1, <2>2, <2>3, <2>4, <2>5, RunnerOnly DEF RunnerFits, Over
<1>7. ASSUME NEW at \in {"hash", "measure"}, runner' = To(at), runner.use # "setup",
             at = "hash" => /\ Kind.protocol = "waiting_confirmation_resume" /\ ~runner.resumed
                            /\ status = "WAITING_CONFIRMATION",
             at = "measure" => Final(runner.run)
      PROVE  EvalInv'
  <2>1. /\ runner' \in AnyRunner /\ runner'.at = at /\ runner'.case = runner.case
        /\ runner'.last = runner.last /\ runner'.run = runner.run /\ runner'.use = runner.use
        /\ runner'.resumed = runner.resumed
    BY <1>1, <1>7 DEF To, AnyRunner, Steps
  <2>2. runner.use = "measured"
    BY <1>1, <1>7 DEF AnyRunner
  <2>3. ProtocolFits'
    BY <1>1, <1>2, <1>3, <1>7, <2>1, <2>2 DEF ProtocolFits, Faulty, Resuming, Kind
  <2>4. ObservedFits'
    BY <1>1, <1>7, <2>1 DEF ObservedFits, Final, Confirmed
  <2>5. QED
    BY <1>1, <1>7, <2>1, <2>3, <2>4, GoesOnAsking DEF Asking
<1>8. CASE runner.use = "setup"
  BY <1>5, <1>6, <1>8 DEF AfterPoll
<1>9. CASE runner.use # "setup" /\ Kind.protocol = "waiting_confirmation_resume" /\ ~runner.resumed
  <2>1. AfterPoll(status) = IF status = "WAITING_CONFIRMATION" THEN To("hash")
                            ELSE Raises("RUNNER_FAILURE")
    BY <1>9 DEF AfterPoll
  <2>2. QED
    BY <1>4, <1>5, <1>7, <1>9, <2>1
<1>10. CASE runner.use # "setup"
            /\ ~(Kind.protocol = "waiting_confirmation_resume" /\ ~runner.resumed)
  <2>1. AfterPoll(status) = To("measure")
    BY <1>10 DEF AfterPoll
  <2>2. Final(runner.run)
    <3>1. CASE status \in Terminal
      BY <1>3, <3>1 DEF Final
    <3>2. CASE status \notin Terminal
      <4>1. ~runner.resumed /\ status = "WAITING_CONFIRMATION"
        BY <1>1, <1>3, <3>2 DEF EndsPoll, UntilWaiting
      <4>2. ~Resuming(runner.case)
        BY <1>10, <4>1 DEF Resuming, Kind
      <4>3. ~Resumed(runner.run)
        BY <1>2, <4>2 DEF EvalInv, RunsFit, RunFits
      <4>4. QED
        BY <1>3, <4>1, <4>3 DEF Final, Resumed
    <3>3. QED
      BY <3>1, <3>2
  <2>3. QED
    BY <1>4, <1>7, <1>10, <2>1, <2>2
<1>11. QED
  BY <1>8, <1>9, <1>10

LEMMA RequestType ==
    ASSUME EvalInv, runner.at \in Asking
    PROVE  RequestOf(runner.run) \in Requests
<1>1. runner.run \in 1..MaxRuns /\ runner.request \in Requests
  BY RunObserved DEF EvalInv, Types, AnyRunner
<1>2. Draft(runner.run) \in Requests
  BY <1>1 DEF Draft, Requests
<1>3. QED
  BY <1>1, <1>2 DEF RequestOf

LEMMA ReadHashStep ==
    ASSUME EvalInv, ReadHash
    PROVE  EvalInv'
<1>1. /\ runner.at = "hash" /\ runner.at \in Asking /\ UNCHANGED systemVars
      /\ UNCHANGED <<selected, runs, issues, trials, report>> /\ runner \in AnyRunner
  BY DEF ReadHash, RunnerMoves, systemVars, fileVars, reportVars, EvalInv, Types, Asking
<1>2. CASE RunnerMoves(Raises("RUNNER_FAILURE"))
  BY <1>1, <1>2, RunObserved, RaisesStep DEF Failures
<1>3. CASE RunnerMoves([To("resume") EXCEPT !.request = RequestOf(runner.run)])
  <2>1. PICK q : q = RequestOf(runner.run)
    OBVIOUS
  <2>2. q \in Requests /\ runner' = [To("resume") EXCEPT !.request = q]
    BY <1>1, <1>3, <2>1, RequestType DEF RunnerMoves
  <2>3. /\ runner' \in AnyRunner /\ runner'.at = "resume" /\ runner'.case = runner.case
        /\ runner'.last = runner.last /\ runner'.run = runner.run /\ runner'.use = runner.use
        /\ runner'.resumed = runner.resumed
    BY <1>1, <2>2 DEF To, AnyRunner, Steps
  <2>4. ProtocolFits' /\ ObservedFits'
    BY <1>1, <2>3 DEF EvalInv, RunnerFits, ProtocolFits, ObservedFits, Faulty, Resuming
  <2>5. QED
    BY <1>1, <2>3, <2>4, GoesOnAsking DEF Asking
<1>4. QED
  BY <1>2, <1>3 DEF ReadHash

\* A resume reaches the API: only the run that the runner waits for changes.
LEMMA ResumesEffect ==
    ASSUME EvalInv, runner.at = "resume", Resumes
    PROVE  /\ RunsKept /\ RunIds' = RunIds /\ issues' = issues
           /\ \A r \in RunIds : r # runner.run => runs'[r] = runs[r]
           /\ runs'[runner.run].commit = "resume"
           /\ runs'[runner.run].status = "WAITING_CONFIRMATION"
           /\ \A r \in RunIds : Confirmed(r)' = Confirmed(r)
<1>1. PICK k : k = runner.run
  OBVIOUS
<1>2. k \in RunIds /\ runs[k].status = "WAITING_CONFIRMATION"
  BY <1>1, WaitingIsFinal DEF EvalInv, RunnerFits, ProtocolFits
<1>3. runs[k] \in Run /\ RunIds = 1..Len(runs)
  BY <1>2, RunsType DEF EvalInv
<1>4. PICK n : n = [runs[k] EXCEPT !.commit = "resume"]
  OBVIOUS
<1>5. /\ n \in Run /\ n.case = runs[k].case /\ n.use = runs[k].use /\ n.commit = "resume"
      /\ n.status = runs[k].status /\ n.events = runs[k].events
  BY <1>3, <1>4 DEF Run
<1>6. runs' = [runs EXCEPT ![k] = n] /\ issues' = issues
  BY <1>1, <1>4 DEF Resumes
<1>7. /\ runs' \in Seq(Run) /\ Len(runs') = Len(runs) /\ DOMAIN runs' = DOMAIN runs
      /\ runs'[k] = n /\ \A r \in RunIds : r # k => runs'[r] = runs[r]
  BY <1>2, <1>3, <1>5, <1>6 DEF EvalInv, Types, RunIds
<1>8. RunIds' = RunIds /\ \A r \in RunIds : Confirmed(r)' = Confirmed(r)
  <2>1. RunIds' = RunIds
    BY <1>7 DEF RunIds
  <2>2. \A r \in RunIds : runs'[r].events = runs[r].events
    BY <1>5, <1>7
  <2>3. QED
    BY <2>1, <2>2 DEF Confirmed
<1>9. RunsKept
  BY <1>5, <1>7, <1>8 DEF RunsKept, EvalInv, Types
<1>10. QED
  BY <1>1, <1>2, <1>5, <1>6, <1>7, <1>8, <1>9

LEMMA ResumesStep ==
    ASSUME EvalInv, runner.at = "resume", Resumes, UNCHANGED <<selected, trials, report>>,
           runner' \in AnyRunner, runner'.case = runner.case, runner'.use = runner.use,
           \/ runner'.resumed /\ runner'.at = "poll"
           \/ runner'.at = "fails",
           RunnerFits', Written'
    PROVE  EvalInv'
<1>1. /\ RunsKept /\ RunIds' = RunIds /\ issues' = issues
      /\ (\A r \in RunIds : r # runner.run => runs'[r] = runs[r])
      /\ runs'[runner.run].commit = "resume"
      /\ runs'[runner.run].status = "WAITING_CONFIRMATION"
      /\ (\A r \in RunIds : Confirmed(r)' = Confirmed(r))
  BY ResumesEffect
<1>2. /\ runner.run \in RunIds /\ runs[runner.run].case = runner.case
      /\ runs[runner.run].use = "measured" /\ Resuming(runner.case)
  BY WaitingIsFinal DEF EvalInv, RunnerFits, ProtocolFits
<1>3. Types'
  BY <1>1 DEF EvalInv, Types, RunsKept
<1>4. RunsFit'
  <2>1. SUFFICES ASSUME NEW r \in RunIds PROVE RunFits(r)'
    BY <1>1 DEF RunsFit
  <2>2. CASE r = runner.run
    <3>1. runs'[r].case = runner.case /\ runs'[r].use = "measured"
      BY <1>1, <1>2, <2>2 DEF RunsKept
    <3>2. QED
      BY <1>1, <1>2, <2>2, <3>1 DEF RunFits, Resuming, Over
  <2>3. CASE r # runner.run
    BY <1>1, <2>3 DEF EvalInv, RunsFit, RunFits, Resuming, Resumed, Over
  <2>4. QED
    BY <2>2, <2>3
<1>5. OneRunPerUse' /\ CasesSoFar'
  BY <1>1 DEF EvalInv, OneRunPerUse, CasesSoFar, RunsKept
<1>6. IssuesFit'
  BY <1>1 DEF EvalInv, IssuesFit, Faulty
<1>7. Filed'
  <2>1. runner'.case \in Int /\ runner.case <= runner'.case /\ runner.case \in Int
    BY DEF EvalInv, Types, AnyRunner
  <2>2. \A r \in RunIds : Final(r) /\ runs[r].case < runner.case => runs'[r] = runs[r]
    BY <1>1, <1>2, <2>1
  <2>3. QED
    BY <1>1, <2>1, <2>2, FiledKept
<1>8. ReportFits'
  BY ReportKept DEF EvalInv
<1>9. QED
  BY <1>3, <1>4, <1>5, <1>6, <1>7, <1>8 DEF EvalInv

LEMMA PostResumeStep ==
    ASSUME EvalInv, PostResume
    PROVE  EvalInv'
<1>1. /\ runner.at = "resume" /\ runner.at \in Asking /\ runner \in AnyRunner
      /\ UNCHANGED <<selected, trials, report>> /\ runner.case \in Cases
  BY RunObserved DEF PostResume, RunnerMoves, fileVars, reportVars, EvalInv, Types, Asking
<1>2. CASE RunnerMoves(Raises("INFRA_FAILURE")) /\ UNCHANGED systemVars
  BY <1>1, <1>2, RaisesStep DEF Failures
<1>3. CASE Resumes /\ RunnerMoves(Raises("INFRA_FAILURE"))
  <2>1. /\ runner' \in AnyRunner /\ runner'.at = "fails" /\ runner'.case = runner.case
        /\ runner'.use = runner.use /\ RunnerFits' /\ Written'
    BY <1>1, <1>3, ResumesEffect, RaisesFit DEF RunnerMoves, Failures
  <2>2. QED
    BY <1>1, <1>3, <2>1, ResumesStep
<1>4. CASE Resumes /\ RunnerMoves([To("poll") EXCEPT !.resumed = TRUE])
  <2>1. /\ runner' \in AnyRunner /\ runner'.at = "poll" /\ runner'.case = runner.case
        /\ runner'.last = runner.last /\ runner'.run = runner.run /\ runner'.use = runner.use
        /\ runner'.resumed = TRUE
    BY <1>1, <1>4 DEF RunnerMoves, To, AnyRunner, Steps
  <2>2. CaseFits' /\ ObservedFits' /\ Written'
    BY <1>1, <2>1 DEF CaseFits, ObservedFits, Written
  <2>3. ProtocolFits'
    BY <1>1, <2>1 DEF EvalInv, RunnerFits, ProtocolFits, Faulty
  <2>4. LastFits'
    <3>1. RunsKept
      BY <1>1, <1>4, ResumesEffect
    <3>2. QED
      BY <1>1, <2>1, <3>1 DEF EvalInv, RunnerFits, LastFits, RunsKept
  <2>5. QED
    BY <1>1, <1>4, <2>1, <2>2, <2>3, <2>4, ResumesStep DEF RunnerFits
<1>5. QED
  BY <1>2, <1>3, <1>4 DEF PostResume

\* The steps that only go to the next one.
LEMMA PlainStep ==
    ASSUME EvalInv, runner.at \in Asking, NEW at \in Asking, RunnerMoves(To(at)),
           UNCHANGED systemVars, ProtocolFits', ObservedFits'
    PROVE  EvalInv'
<1>1. runner' = To(at) /\ UNCHANGED <<selected, runs, issues, trials, report>> /\ runner \in AnyRunner
  BY DEF RunnerMoves, systemVars, fileVars, reportVars, EvalInv, Types
<1>2. /\ runner' \in AnyRunner /\ runner'.at = at /\ runner'.case = runner.case
      /\ runner'.last = runner.last /\ runner'.run = runner.run /\ runner'.use = runner.use
      /\ runner'.resumed = runner.resumed
  BY <1>1 DEF To, AnyRunner, Steps, Asking
<1>3. QED
  BY <1>1, <1>2, GoesOnAsking

LEMMA PrepareStep ==
    ASSUME EvalInv, Prepare
    PROVE  EvalInv'
<1>1. /\ runner.at = "prepare" /\ runner.at \in Asking /\ UNCHANGED systemVars
      /\ UNCHANGED <<selected, runs, issues>> /\ runner \in AnyRunner /\ runner.case \in Cases
  BY RunObserved DEF Prepare, RunnerMoves, systemVars, EvalInv, Types, Asking
<1>2. CASE RunnerMoves(Raises("RUNNER_FAILURE"))
  BY <1>1, <1>2, RaisesStep DEF Failures
<1>3. CASE RunnerMoves(To("execute"))
  <2>1. runner'.at = "execute" /\ runner'.case = runner.case /\ runner'.request = runner.request
    BY <1>1, <1>3 DEF RunnerMoves, To, AnyRunner
  <2>2. ProtocolFits' /\ ObservedFits'
    BY <1>1, <2>1 DEF EvalInv, RunnerFits, ProtocolFits, ObservedFits, Faulty
  <2>3. QED
    BY <1>1, <1>3, <2>2, PlainStep DEF Asking
<1>4. QED
  BY <1>2, <1>3 DEF Prepare

LEMMA ExecuteAgainStep ==
    ASSUME EvalInv, ExecuteAgain
    PROVE  EvalInv'
<1>1. /\ runner.at = "again" /\ runner.at \in Asking /\ UNCHANGED systemVars
      /\ UNCHANGED <<selected, runs, issues>> /\ runner \in AnyRunner /\ runner.case \in Cases
  BY RunObserved DEF ExecuteAgain, RunnerMoves, systemVars, EvalInv, Types, Asking
<1>2. CASE \E why \in Failures : RunnerMoves(Raises(why))
  BY <1>1, <1>2, RaisesStep
<1>3. CASE RunnerMoves(To("measure"))
  <2>1. runner'.at = "measure" /\ runner'.case = runner.case /\ runner'.request = runner.request
    BY <1>1, <1>3 DEF RunnerMoves, To, AnyRunner
  <2>2. ProtocolFits' /\ ObservedFits'
    BY <1>1, <2>1 DEF EvalInv, RunnerFits, ProtocolFits, ObservedFits, Faulty
  <2>3. QED
    BY <1>1, <1>3, <2>2, PlainStep DEF Asking
<1>4. QED
  BY <1>2, <1>3 DEF ExecuteAgain

\* The only issue that the runner itself creates.
LEMMA ExecuteFirstStep ==
    ASSUME EvalInv, ExecuteFirst
    PROVE  EvalInv'
<1>1. /\ runner.at = "execute" /\ runner.at \in Asking /\ runner \in AnyRunner
      /\ runner.case \in Cases /\ Faulty(runner.case) /\ runner.request = Fixed(runner.case)
      /\ runs' = runs /\ UNCHANGED <<selected, trials, report>>
  BY RunObserved DEF ExecuteFirst, RunnerMoves, systemVars, fileVars, reportVars, EvalInv, Types,
                     RunnerFits, ProtocolFits, Asking
<1>2. CASE RunnerMoves(Raises("RUNNER_FAILURE")) /\ UNCHANGED systemVars
  BY <1>1, <1>2, RaisesStep DEF Failures
<1>3. CASE issues' = issues \cup {runner.request} /\ RunnerMoves(To("again"))
  <2>1. runner' = To("again") /\ issues' = issues \cup {Fixed(runner.case)}
    BY <1>1, <1>3 DEF RunnerMoves
  <2>2. /\ runner' \in AnyRunner /\ runner'.at = "again" /\ runner'.case = runner.case
        /\ runner'.last = runner.last /\ runner'.run = runner.run /\ runner'.use = runner.use
        /\ runner'.resumed = runner.resumed /\ runner'.request = runner.request
    BY <1>1, <2>1 DEF To, AnyRunner, Steps
  <2>3. RunsKept /\ RunIds' = RunIds /\ Types' /\ OneRunPerUse' /\ CasesSoFar'
    BY <1>1, <2>2, RunsUnchanged DEF EvalInv, Types, OneRunPerUse, CasesSoFar, RunIds
  <2>4. RunsFit'
    <3>1. SUFFICES ASSUME NEW r \in RunIds PROVE RunFits(r)'
      BY <2>3 DEF RunsFit
    <3>2. QED
      BY <1>1, <2>2 DEF EvalInv, RunsFit, RunFits, Resumed, Confirmed, Resuming, Over
  <2>5. IssuesFit'
    BY <1>1, <2>1, <2>3 DEF EvalInv, IssuesFit, Confirmed, Faulty
  <2>6. CaseFits' /\ LastFits' /\ ObservedFits' /\ Written'
    BY <1>1, <2>2, <2>3 DEF EvalInv, RunnerFits, CaseFits, LastFits, ObservedFits, Written
  <2>7. ProtocolFits'
    BY <1>1, <2>2 DEF ProtocolFits, Faulty
  <2>8. Filed'
    <3>1. runner'.case \in Int /\ runner.case <= runner'.case /\ issues \subseteq issues'
      BY <2>1, <2>2 DEF AnyRunner
    <3>2. QED
      BY <1>1, <2>3, <3>1, FiledKept
  <2>9. ReportFits'
    BY <1>1, ReportKept DEF EvalInv
  <2>10. QED
    BY <2>3, <2>4, <2>5, <2>6, <2>7, <2>8, <2>9 DEF EvalInv, RunnerFits
<1>4. QED
  BY <1>2, <1>3 DEF ExecuteFirst

LEMMA MeasureStep ==
    ASSUME EvalInv, Measure
    PROVE  EvalInv'
<1>1. /\ runner.at = "measure" /\ runner.at \in Asking /\ UNCHANGED systemVars
      /\ UNCHANGED <<selected, runs, issues, trials, report>> /\ runner \in AnyRunner
      /\ runner.case \in Cases
  BY RunObserved DEF Measure, RunnerMoves, systemVars, fileVars, reportVars, EvalInv, Types, Asking
<1>2. CASE RunnerMoves(Raises("RUNNER_FAILURE"))
  BY <1>1, <1>2, RaisesStep DEF Failures
<1>3. ASSUME NEW q \in Requests, NEW count, count = SideEffects(q),
             runner' = [To("row") EXCEPT !.request = q, !.after = count],
             Faulty(runner.case) => q = runner.request /\ count = runner.before + 1
      PROVE  EvalInv'
  <2>1. count \in 0..1
    BY <1>3 DEF SideEffects
  <2>2. /\ runner' \in AnyRunner /\ runner'.at = "row" /\ runner'.case = runner.case
        /\ runner'.last = runner.last /\ runner'.run = runner.run /\ runner'.use = runner.use
        /\ runner'.resumed = runner.resumed
    BY <1>1, <1>3, <2>1 DEF To, AnyRunner, Steps
  <2>3. ASSUME Faulty(runner.case) PROVE Fixed(runner.case) \in issues
    <3>1. q = Fixed(runner.case)
      BY <1>1, <1>3, <2>3 DEF EvalInv, RunnerFits, ProtocolFits
    <3>2. count # 0
      BY <1>1, <1>3, <2>3 DEF AnyRunner
    <3>3. QED
      BY <1>3, <3>1, <3>2 DEF SideEffects
  <2>4. ProtocolFits'
    BY <1>1, <2>2, <2>3 DEF ProtocolFits, Faulty
  <2>5. ObservedFits'
    BY <1>1, <2>2 DEF EvalInv, RunnerFits, ObservedFits, Faulty, Final, Confirmed
  <2>6. QED
    BY <1>1, <2>2, <2>4, <2>5, GoesOnAsking DEF Asking
<1>4. CASE ~RunnerMoves(Raises("RUNNER_FAILURE"))
  <2>1. PICK q : q = IF Kind.mode = "issue_create" /\ Kind.protocol \in {"single_run", "setup_then_run"}
                     THEN RequestOf(runner.run) ELSE runner.request
    OBVIOUS
  <2>2. q \in Requests
    BY <1>1, <2>1, RequestType DEF AnyRunner
  <2>3. PICK count : count = SideEffects(q)
    OBVIOUS
  <2>4. /\ runner' = [To("row") EXCEPT !.request = q, !.after = count]
        /\ ~(Kind.protocol \in FaultProtocols /\ count # runner.before + 1)
    BY <1>4, <2>1, <2>3 DEF Measure, RunnerMoves
  <2>5. Faulty(runner.case) => q = runner.request /\ count = runner.before + 1
    BY <2>1, <2>4 DEF Faulty, Kind, FaultProtocols
  <2>6. QED
    BY <1>3, <2>2, <2>3, <2>4, <2>5
<1>5. QED
  BY <1>2, <1>4

LEMMA ReadRowStep ==
    ASSUME EvalInv, ReadRow
    PROVE  EvalInv'
<1>1. /\ runner.at = "row" /\ runner.at \in Asking /\ UNCHANGED systemVars
      /\ UNCHANGED <<selected, runs, issues, trials, report>> /\ runner \in AnyRunner
      /\ runner.case \in Cases /\ runner.run \in RunIds
  BY RunObserved DEF ReadRow, RunnerMoves, systemVars, fileVars, reportVars, EvalInv, Types, Asking
<1>2. CASE RunnerMoves(Raises("RUNNER_FAILURE"))
  BY <1>1, <1>2, RaisesStep DEF Failures
<1>3. CASE RunnerMoves([To("events") EXCEPT !.row = runs[runner.run].status])
  <2>1. PICK status : status = runs[runner.run].status
    OBVIOUS
  <2>2. status \in Statuses /\ runner' = [To("events") EXCEPT !.row = status]
    BY <1>1, <1>3, <2>1, RunsType DEF RunnerMoves, EvalInv
  <2>3. /\ runner' \in AnyRunner /\ runner'.at = "events" /\ runner'.case = runner.case
        /\ runner'.last = runner.last /\ runner'.run = runner.run /\ runner'.use = runner.use
        /\ runner'.resumed = runner.resumed /\ runner'.row = status
    BY <1>1, <2>2 DEF To, AnyRunner, Steps
  <2>4. ProtocolFits'
    BY <1>1, <2>3 DEF EvalInv, RunnerFits, ProtocolFits, Faulty
  <2>5. ObservedFits'
    BY <1>1, <2>1, <2>3 DEF EvalInv, RunnerFits, ObservedFits, Faulty, Final, Confirmed
  <2>6. QED
    BY <1>1, <2>3, <2>4, <2>5, GoesOnAsking DEF Asking
<1>4. QED
  BY <1>2, <1>3 DEF ReadRow

-----------------------------------------------------------------------------
(* The artifact, and the end of a case. *)

LEMMA ReadEventsStep ==
    ASSUME EvalInv, ReadEvents
    PROVE  EvalInv'
<1>1. /\ runner.at = "events" /\ runner.at \in Asking /\ UNCHANGED systemVars
      /\ runner \in AnyRunner /\ runner.case \in Cases /\ runner.run \in RunIds
      /\ runner.run \in 1..MaxRuns /\ runs[runner.run].case = runner.case
      /\ runs[runner.run].use = runner.use
  BY RunObserved DEF ReadEvents, EvalInv, Types, Asking
<1>2. CASE RunnerMoves(Raises("RUNNER_FAILURE"))
  BY <1>1, <1>2, RaisesStep DEF Failures
<1>3. CASE RunnerMoves([To("write") EXCEPT !.trial = Collected(runs[runner.run].events)])
  <2>1. PICK t : t = Collected(runs[runner.run].events)
    OBVIOUS
  <2>2. PICK h : h = Transitions(runs[runner.run].events, runner.row)
    OBVIOUS
  <2>3. h \in Histories
    <3>1. runs[runner.run].events \in Seq(Events) /\ runner.row \in Statuses
      BY <1>1, RunsType DEF EvalInv, AnyRunner
    <3>2. QED
      BY <2>2, <3>1 DEF Histories
  <2>4. t = [classification |-> "SCORED", run |-> runner.run, setup |-> runner.setup,
             transitions |-> h, before |-> runner.before, after |-> runner.after]
    BY <2>1, <2>2 DEF Collected
  <2>5. /\ t \in AnyTrial /\ t.classification = "SCORED" /\ t.run = runner.run
        /\ t.transitions = h
    <3>1. /\ runner.run \in 0..MaxRuns /\ runner.setup \in 0..MaxRuns
          /\ runner.before \in 0..1 /\ runner.after \in 0..1
      BY <1>1 DEF AnyRunner
    <3>2. QED
      BY <2>3, <2>4, <3>1 DEF AnyTrial, Classifications
  <2>6. Faulty(runner.case) => Fixed(runner.case) \in issues
    BY <1>1 DEF EvalInv, RunnerFits, ProtocolFits
  <2>7. runs[runner.run].use = "setup" =>
          \A r \in RunIds : runs[r].case = runner.case => runs[r].use = "setup"
    BY <1>1 DEF EvalInv, CasesSoFar
  <2>8. ~Faulty(runner.case) =>
          /\ Final(runner.run)
          /\ h = Transitions(runs[runner.run].events, runs[runner.run].status)
    BY <1>1, <2>2 DEF EvalInv, RunnerFits, ObservedFits
  <2>9. TrialFits(runner.case, t)
    BY <1>1, <2>5, <2>6, <2>7, <2>8 DEF TrialFits
  <2>10. RunnerMoves([runner EXCEPT !.at = "write", !.trial = t])
    BY <1>3, <2>1 DEF To
  <2>11. QED
    BY <1>1, <2>5, <2>9, <2>10, WriteGoes
<1>4. QED
  BY <1>2, <1>3 DEF ReadEvents

LEMMA CaseFailsStep ==
    ASSUME EvalInv, CaseFails
    PROVE  EvalInv'
<1>1. PICK t : t = Fallback(runner.why)
  OBVIOUS
<1>2. /\ runner.case \in Cases /\ runner.why \in Failures /\ UNCHANGED systemVars
      /\ RunnerMoves([runner EXCEPT !.at = "write", !.trial = t])
  BY <1>1 DEF CaseFails, EvalInv, RunnerFits, CaseFits
<1>3. PICK why : why = runner.why
  OBVIOUS
<1>4. why \in Classifications \ {"SCORED"} /\ why # "UNSCORABLE"
  BY <1>2, <1>3 DEF Classifications, Failures
<1>5. t \in AnyTrial /\ TrialFits(runner.case, t)
  BY <1>1, <1>2, <1>3, <1>4, FallbackFits
<1>6. QED
  BY <1>2, <1>5, WriteGoes

\* What Fresh promises of a runner that stands before a case.
StartsCase(n, c) ==
    /\ n \in AnyRunner /\ n.at = "case" /\ n.case = c /\ n.last = 0 /\ n.use = "measured"
    /\ n.resumed = FALSE

LEMMA FreshEffect == \A c \in 1..N + 1 : StartsCase(Fresh(c), c)
<1> SUFFICES ASSUME NEW c \in 1..N + 1 PROVE StartsCase(Fresh(c), c)
  OBVIOUS
<1> DEFINE n == Fresh(c)
<1>1. PICK q : q = [of |-> "synthetic", id |-> IF c \in Cases THEN c ELSE N]
  OBVIOUS
<1>2. q \in Requests
  BY <1>1, EvaluationAssumption DEF Requests, Cases
<1>3. 0 \in 0..MaxRuns /\ 0 \in Nat /\ 0 \in 0..1
  BY EvaluationAssumption DEF MaxRuns
<1>4. n = [at |-> "case", case |-> c, last |-> 0, setup |-> 0, run |-> 0, use |-> "measured",
           resumed |-> FALSE, request |-> q, count |-> 0, before |-> 0, after |-> 0,
           row |-> "QUEUED", why |-> None, trial |-> None]
  BY <1>1 DEF Fresh
<1> HIDE DEF n
<1>5. StartsCase(n, c)
  BY <1>2, <1>3, <1>4 DEF AnyRunner, Steps, Statuses, StartsCase
<1>6. QED
  BY <1>5 DEF n

\* No report calls a run complete while an artifact is still to be written.
LEMMA WriteTrialStep ==
    ASSUME EvalInv, WriteTrial
    PROVE  EvalInv'
<1>1. /\ runner.at = "write" /\ runner.case \in Cases /\ UNCHANGED <<selected, runs, issues, report>>
      /\ runner' = Fresh(runner.case + 1)
  BY DEF WriteTrial, NextCase, systemVars, reportVars, EvalInv, RunnerFits, CaseFits
<1>2. PICK c : c = runner.case
  OBVIOUS
<1>3. PICK t : /\ t = runner.trial \/ t = Fallback("RUNNER_FAILURE")
               /\ trials' = [trials EXCEPT ![c] = t]
  BY <1>2 DEF WriteTrial
<1>4. t \in AnyTrial /\ TrialFits(c, t)
  BY <1>1, <1>2, <1>3, FallbackFits DEF EvalInv, Written, Classifications
<1>5. c + 1 \in 1..N + 1 /\ c \in Int
  BY <1>1, <1>2, EvaluationAssumption DEF Cases
<1>6. /\ runner' \in AnyRunner /\ runner'.at = "case" /\ runner'.case = c + 1 /\ runner'.last = 0
      /\ runner'.use = "measured" /\ runner'.resumed = FALSE
  <2>1. StartsCase(Fresh(c + 1), c + 1) /\ runner' = Fresh(c + 1)
    BY <1>1, <1>2, <1>5, FreshEffect
  <2>2. QED
    BY <2>1 DEF StartsCase
<1>7. Types' /\ OneRunPerUse' /\ RunIds' = RunIds /\ trials'[c] = t
      /\ \A d \in Cases \ {c} : trials'[d] = trials[d]
  BY <1>1, <1>2, <1>3, <1>4, <1>6 DEF EvalInv, Types, OneRunPerUse, RunIds
<1>8. \A r \in RunIds : runs[r].case \in Int /\ runs[r].case <= c /\ runs[r].case # c + 1
  <2>1. \A r \in RunIds : runs[r].case \in Int /\ runs[r].case <= c
    BY <1>2, RunsType DEF EvalInv, CasesSoFar, Cases
  <2>2. QED
    BY <1>5, <2>1
<1>9. RunsFit'
  <2>1. SUFFICES ASSUME NEW r \in RunIds PROVE RunFits(r)'
    BY <1>7 DEF RunsFit
  <2>2. QED
    BY <1>1, <1>6, <1>8 DEF EvalInv, RunsFit, RunFits, Resumed, Confirmed, Resuming
<1>10. CasesSoFar'
  <2>1. \A r \in RunIds : runs[r].case <= c + 1
    BY <1>5, <1>8
  <2>2. QED
    BY <1>1, <1>6, <1>7, <1>8, <2>1 DEF CasesSoFar
<1>11. IssuesFit'
  BY <1>1, <1>7 DEF EvalInv, IssuesFit, Confirmed, Faulty
<1>12. RunnerFits' /\ Written'
  BY <1>6 DEF RunnerFits, CaseFits, LastFits, ProtocolFits, ObservedFits, Written, Asking
<1>13. Filed'
  <2>1. SUFFICES ASSUME NEW d \in Cases, trials'[d] # None
                 PROVE  d < c + 1 /\ TrialFits(d, trials[d])'
    BY <1>6 DEF Filed
  <2>2. PICK u : u = trials'[d]
    OBVIOUS
  <2>3. d < c + 1 /\ TrialFits(d, u)
    <3>1. CASE d = c
      BY <1>4, <1>5, <1>7, <2>2, <3>1
    <3>2. CASE d # c
      <4>1. u = trials[d] /\ d \in Int
        BY <1>7, <2>2, <3>2 DEF Cases
      <4>2. d < c /\ TrialFits(d, u)
        BY <1>2, <2>1, <2>2, <4>1 DEF EvalInv, Filed
      <4>3. QED
        BY <1>5, <4>1, <4>2
    <3>3. QED
      BY <3>1, <3>2
  <2>4. TrialFits(d, u)'
    BY <1>1, <2>3 DEF TrialFits, Faulty, RunIds, Final, Confirmed
  <2>5. QED
    BY <2>2, <2>3, <2>4
<1>14. ReportFits'
  <2>1. trials[c] = None
    BY <1>1, <1>2, <1>5 DEF EvalInv, Filed
  <2>2. report = None
    BY <1>1, <1>2, <2>1 DEF EvalInv, ReportFits
  <2>3. QED
    BY <1>1, <2>2 DEF ReportFits
<1>15. QED
  BY <1>7, <1>9, <1>10, <1>11, <1>12, <1>13, <1>14 DEF EvalInv

LEMMA FinishStep ==
    ASSUME EvalInv, Finish
    PROVE  EvalInv'
<1>1. /\ runner.at = "case" /\ UNCHANGED <<selected, runs, issues, trials, report>>
      /\ runner' = To("done") /\ runner \in AnyRunner
  BY DEF Finish, RunnerMoves, systemVars, fileVars, reportVars, EvalInv, Types
<1>2. /\ runner' \in AnyRunner /\ runner'.at = "done" /\ runner'.case = runner.case
      /\ runner'.last = runner.last /\ runner'.use = runner.use
  BY <1>1 DEF To, AnyRunner, Steps
<1>3. CasesSoFar' /\ RunnerFits' /\ Written'
  BY <1>1, <1>2 DEF EvalInv, CasesSoFar, RunIds, RunnerFits, CaseFits, LastFits, ProtocolFits,
                    ObservedFits, Written, Asking
<1>4. QED
  BY <1>1, <1>2, <1>3, RunnerOnly DEF Over

LEMMA FreshStep ==
    ASSUME EvalInv, Begin \/ Crash
    PROVE  EvalInv'
<1>1. /\ UNCHANGED <<selected, runs, issues, trials, report>> /\ runner.case \in 1..N + 1
      /\ runner \in AnyRunner
  BY DEF Begin, Crash, RunnerMoves, systemVars, fileVars, reportVars, EvalInv, Types, AnyRunner
<1>2. PICK n : n = Fresh(runner.case)
  OBVIOUS
<1>3. /\ n \in AnyRunner /\ n.at = "case" /\ n.case = runner.case /\ n.last = 0
      /\ n.use = "measured" /\ n.resumed = FALSE
  <2>1. StartsCase(n, runner.case)
    BY <1>1, <1>2, FreshEffect
  <2>2. QED
    BY <2>1 DEF StartsCase
<1>4. CASE Begin
  <2>1. runner.at = "begin" /\ runner.case = 1 /\ ~runner.resumed
    BY <1>4 DEF Begin, EvalInv, RunnerFits, CaseFits
  <2>2. runner' = n
    BY <1>2, <1>4, <2>1 DEF Begin
  <2>3. CasesSoFar' /\ RunnerFits' /\ Written'
    BY <1>1, <1>3, <2>1, <2>2
       DEF EvalInv, CasesSoFar, RunIds, RunnerFits, CaseFits, LastFits, ProtocolFits, ObservedFits,
           Written, Asking
  <2>4. QED
    BY <1>1, <1>3, <2>1, <2>2, <2>3, RunnerOnly DEF Over
<1>5. CASE Crash
  <2>1. runner' = [n EXCEPT !.at = "dead"]
    BY <1>2, <1>5 DEF Crash, RunnerMoves
  <2>2. /\ runner' \in AnyRunner /\ runner'.at = "dead" /\ runner'.case = runner.case
        /\ runner'.last = 0 /\ runner'.use = "measured"
    BY <1>3, <2>1 DEF AnyRunner, Steps
  <2>3. CasesSoFar' /\ RunnerFits' /\ Written'
    BY <1>1, <2>2
       DEF EvalInv, CasesSoFar, RunIds, RunnerFits, CaseFits, LastFits, ProtocolFits, ObservedFits,
           Written, Asking
  <2>4. QED
    BY <1>1, <2>2, <2>3, RunnerOnly DEF Over
<1>6. QED
  BY <1>4, <1>5

-----------------------------------------------------------------------------
(* The invariant. *)

\* A step that leaves everything but the metrics and the report.
LEMMA OnlyReports ==
    ASSUME EvalInv, UNCHANGED <<selected, runs, issues, runner, trials>>, ReportFits'
    PROVE  EvalInv'
<1>1. Types' /\ OneRunPerUse' /\ CasesSoFar' /\ RunIds' = RunIds
  BY DEF EvalInv, Types, OneRunPerUse, CasesSoFar, RunIds
<1>2. RunsFit'
  <2>1. SUFFICES ASSUME NEW r \in RunIds PROVE RunFits(r)'
    BY <1>1 DEF RunsFit
  <2>2. QED
    BY DEF EvalInv, RunsFit, RunFits, Resumed, Confirmed, Resuming
<1>3. IssuesFit'
  BY <1>1 DEF EvalInv, IssuesFit, Confirmed, Faulty
<1>4. CaseFits' /\ LastFits' /\ ProtocolFits' /\ ObservedFits'
  BY <1>1 DEF EvalInv, RunnerFits, CaseFits, LastFits, ProtocolFits, ObservedFits, Faulty, Resuming,
              Final, Confirmed, Kind
<1>5. \A c, t : TrialFits(c, t) => TrialFits(c, t)'
  BY <1>1 DEF TrialFits, Faulty, Final, Confirmed
<1>6. Written'
  <2>1. PICK c, t : c = runner.case /\ t = runner.trial
    OBVIOUS
  <2>2. QED
    BY <1>5, <2>1 DEF EvalInv, Written
<1>7. Filed'
  <2>1. SUFFICES ASSUME NEW c \in Cases, trials[c] # None
                 PROVE  c < runner.case /\ TrialFits(c, trials[c])'
    BY DEF Filed
  <2>2. PICK t : t = trials[c]
    OBVIOUS
  <2>3. c < runner.case /\ TrialFits(c, t)
    BY <2>1, <2>2 DEF EvalInv, Filed
  <2>4. TrialFits(c, t)'
    BY <1>5, <2>3
  <2>5. QED
    BY <2>2, <2>3, <2>4
<1>8. QED
  BY <1>1, <1>2, <1>3, <1>4, <1>6, <1>7 DEF EvalInv, RunnerFits

LEMMA ReportStep ==
    ASSUME EvalInv, Score \/ Report
    PROVE  EvalInv'
<1>1. UNCHANGED <<selected, runs, issues, runner, trials>>
  BY DEF Score, Report, systemVars, fileVars
<1>2. CASE Score
  BY <1>1, <1>2, ReportKept, OnlyReports DEF Score, EvalInv
<1>3. CASE Report
  <2>1. Loads /\ report' = build_report(metrics') /\ metrics' = calculate_metrics
    BY <1>3 DEF Report
  <2>2. metrics'.coverage = Coverage
    BY <2>1 DEF calculate_metrics
  <2>3. report'.pipeline = PipelineStatus(Coverage)
    BY <2>1, <2>2 DEF build_report
  <2>4. \A c \in Cases : trials[c] # None /\ Coverage[c] = trials[c].classification
    BY <2>1 DEF Loads, Coverage
  <2>5. report'.pipeline = "COMPLETE" => \A c \in Cases : trials[c].classification \notin Failures
    BY <2>3, <2>4 DEF PipelineStatus
  <2>6. ReportFits'
    BY <1>1, <2>4, <2>5 DEF ReportFits
  <2>7. QED
    BY <1>1, <2>6, OnlyReports
<1>4. QED
  BY <1>2, <1>3

\* The RECONCILE job adds the issue of a run that was confirmed.
LEMMA ReconcileStep ==
    ASSUME EvalInv, NEW r \in RunIds, Reconcile(r)
    PROVE  EvalInv'
<1>1. /\ UNCHANGED <<selected, runs, runner, trials, report>> /\ issues' = issues \cup {Draft(r)}
      /\ Confirmed(r) /\ RunIds' = RunIds
  BY DEF Reconcile, fileVars, reportVars, RunIds
<1>2. RunsKept
  BY <1>1, RunsUnchanged
<1>3. Types' /\ OneRunPerUse' /\ CasesSoFar'
  BY <1>1 DEF EvalInv, Types, OneRunPerUse, CasesSoFar
<1>4. RunsFit'
  <2>1. SUFFICES ASSUME NEW s \in RunIds PROVE RunFits(s)'
    BY <1>1 DEF RunsFit
  <2>2. QED
    BY <1>1 DEF EvalInv, RunsFit, RunFits, Resumed, Confirmed, Resuming
<1>5. IssuesFit'
  BY <1>1 DEF EvalInv, IssuesFit, Confirmed, Faulty
<1>6. CaseFits' /\ LastFits' /\ ProtocolFits' /\ ObservedFits'
  BY <1>1 DEF EvalInv, RunnerFits, CaseFits, LastFits, ProtocolFits, ObservedFits, Faulty, Resuming,
              Final, Confirmed, Kind
<1>7. Written'
  <2>1. SUFFICES ASSUME runner.at = "write"
                 PROVE  (runner.trial \in AnyTrial /\ TrialFits(runner.case, runner.trial))'
    BY <1>1 DEF Written
  <2>2. PICK c, t : c = runner.case /\ t = runner.trial
    OBVIOUS
  <2>3. t \in AnyTrial /\ TrialFits(c, t)
    BY <2>1, <2>2 DEF EvalInv, Written
  <2>4. TrialFits(c, t)'
    BY <1>1, <1>2, <2>3, TrialKept DEF EvalInv
  <2>5. QED
    BY <1>1, <2>2, <2>3, <2>4
<1>8. Filed'
  <2>1. runner'.case \in Int /\ runner.case <= runner'.case
    BY <1>1 DEF EvalInv, Types, AnyRunner
  <2>2. QED
    BY <1>1, <1>2, <2>1, FiledKept
<1>9. ReportFits'
  BY <1>1, ReportKept DEF EvalInv
<1>10. QED
  BY <1>3, <1>4, <1>5, <1>6, <1>7, <1>8, <1>9 DEF EvalInv, RunnerFits

LEMMA EvalInitial == Init => EvalInv
<1>1. SUFFICES ASSUME Init PROVE EvalInv
  OBVIOUS
<1>2. PICK n : n = Fresh(1)
  OBVIOUS
<1>3. 1 \in 1..N + 1 /\ 1 \in Cases
  BY EvaluationAssumption DEF Cases
<1>4. /\ n \in AnyRunner /\ n.at = "case" /\ n.case = 1 /\ n.last = 0
      /\ n.use = "measured" /\ n.resumed = FALSE
  <2>1. StartsCase(n, 1)
    BY <1>2, <1>3, FreshEffect
  <2>2. QED
    BY <2>1 DEF StartsCase
<1>5. runner = [n EXCEPT !.at = "begin"]
  BY <1>1, <1>2 DEF Init
<1>6. /\ runner \in AnyRunner /\ runner.at = "begin" /\ runner.case = 1 /\ runner.last = 0
      /\ runner.use = "measured" /\ ~runner.resumed
  BY <1>4, <1>5 DEF AnyRunner, Steps
<1>7. runs = <<>> /\ RunIds = {} /\ issues = {} /\ report = None /\ \A c \in Cases : trials[c] = None
  BY <1>1 DEF Init, RunIds
<1>8. Types
  <2>1. Len(runs) <= MaxRuns /\ runs \in Seq(Run)
    BY <1>7, EvaluationAssumption DEF MaxRuns
  <2>2. QED
    BY <1>1, <1>6, <2>1 DEF Types, Init
<1>9. RunsFit /\ OneRunPerUse /\ CasesSoFar /\ IssuesFit /\ Filed /\ ReportFits
  BY <1>6, <1>7 DEF RunsFit, OneRunPerUse, CasesSoFar, IssuesFit, Filed, ReportFits
<1>10. RunnerFits /\ Written
  BY <1>3, <1>6 DEF RunnerFits, CaseFits, LastFits, ProtocolFits, ObservedFits, Written, Asking
<1>11. QED
  BY <1>8, <1>9, <1>10 DEF EvalInv

LEMMA EvalStep == EvalInv /\ [Next]_evaluationVars => EvalInv'
<1>1. SUFFICES ASSUME EvalInv, [Next]_evaluationVars PROVE EvalInv'
  OBVIOUS
<1>2. CASE RunnerStep
  BY <1>1, <1>2, FreshStep, StartCaseStep, PostDeniedStep, PostRunStep, PollAnswerStep,
     PollGivesUpStep, ReadHashStep, PostResumeStep, PrepareStep, ExecuteFirstStep,
     ExecuteAgainStep, MeasureStep, ReadRowStep, ReadEventsStep, CaseFailsStep, WriteTrialStep,
     FinishStep
     DEF RunnerStep
<1>3. CASE Crash
  BY <1>1, <1>3, FreshStep
<1>4. CASE \E r \in RunIds : Commit(r) \/ Work(r) \/ Reconcile(r)
  BY <1>1, <1>4, SystemStep, ReconcileStep
<1>5. CASE Score \/ Report
  BY <1>1, <1>5, ReportStep
<1>6. CASE UNCHANGED evaluationVars
  <2>1. ReportFits'
    BY <1>1, <1>6, ReportKept DEF EvalInv, evaluationVars
  <2>2. QED
    BY <1>1, <1>6, <2>1, OnlyReports DEF evaluationVars
<1>7. QED
  BY <1>1, <1>2, <1>3, <1>4, <1>5, <1>6 DEF Next

LEMMA EvalInvariant == Spec => []EvalInv
  BY EvalInitial, EvalStep, PTL DEF Spec

-----------------------------------------------------------------------------
(* The results. *)

\* A scored trial of a run that was polled holds the whole history of the run,
\* whatever the API commits and the worker does between the reads of its row and
\* of its events, and whatever they do afterwards (TrialCollector.collect).
THEOREM EvaluationTrialsAreComplete == Spec => []ScoredTrialsAreComplete
<1>1. ASSUME EvalInv PROVE ScoredTrialsAreComplete
  BY <1>1 DEF EvalInv, Filed, TrialFits, Faulty, ScoredTrialsAreComplete
<1>2. QED
  BY <1>1, EvalInvariant, PTL

\* The run that an artifact names was created for its case; it is a setup run
\* only where no measured one was created (run_id of fallback_trial).
THEOREM EvaluationTracesNameTheirCase == Spec => []TracesNameTheirCase
<1>1. ASSUME EvalInv PROVE TracesNameTheirCase
  BY <1>1 DEF EvalInv, Filed, TrialFits, TracesNameTheirCase
<1>2. QED
  BY <1>1, EvalInvariant, PTL

\* However many cases there are, none submits a request twice
\* (EvaluationRunner._execute_case and the client, which never repeats a POST).
THEOREM EvaluationRequestsAreMadeOnce == Spec => []EachRequestIsMadeOnce
<1>1. ASSUME EvalInv PROVE EachRequestIsMadeOnce
  BY <1>1 DEF EvalInv, OneRunPerUse, EachRequestIsMadeOnce
<1>2. QED
  BY <1>1, EvalInvariant, PTL

\* A complete report was made from an artifact of every case, none of them a
\* failure, and every fault case has its issue (build_report, pipeline_status).
THEOREM EvaluationReportsAreComplete == Spec => []ReportsAreComplete
<1>1. ASSUME EvalInv PROVE ReportsAreComplete
  <2>1. SUFFICES ASSUME report # None, report.pipeline = "COMPLETE"
                 PROVE  /\ \A c \in Cases : trials[c] # None /\ trials[c].classification \notin Failures
                        /\ \A c \in Duplicate : [of |-> "fixed", id |-> c] \in issues
    BY DEF ReportsAreComplete
  <2>2. \A c \in Cases : trials[c] # None /\ trials[c].classification \notin Failures
    BY <1>1, <2>1 DEF EvalInv, ReportFits
  <2>3. ASSUME NEW c \in Duplicate PROVE [of |-> "fixed", id |-> c] \in issues
    <3>1. c \in Cases /\ Faulty(c)
      BY <2>3 DEF Duplicate, Faulty
    <3>2. trials[c] \in AnyTrial /\ TrialFits(c, trials[c]) /\ trials[c].classification \notin Failures
      BY <1>1, <2>2, <3>1 DEF EvalInv, Filed, Types
    <3>3. trials[c].classification = "SCORED"
      BY <3>1, <3>2 DEF AnyTrial, Classifications, Failures, TrialFits, Faulty, FaultProtocols
    <3>4. QED
      BY <3>1, <3>2, <3>3 DEF TrialFits, Fixed
  <2>4. QED
    BY <2>2, <2>3
<1>2. QED
  BY <1>1, EvalInvariant, PTL

-----------------------------------------------------------------------------
(* THE FIXTURES.  A command that was cut short leaves the provider, the rows   *)
(* and the state file apart; the invariant says how far apart they can be.     *)

\* A state file was accepted when it was written.
FileSound ==
    /\ file.there => verify_fixture_state(file)
    /\ file.provider => file.there

\* The steps of each command, and what its command line had to say.
Preparing == {"audit", "find", "create", "commit", "ingest", "parse", "poll", "write"}
Provider == {"audit", "find", "create", "ingest", "parse", "poll", "delete"}
Cleaning == {"check", "delete", "erase", "unlink"}
CommandFits ==
    /\ cmd.i \in Projects
    /\ cmd.at \in Preparing <=> cmd.mode = "prepare"
    /\ cmd.at \in Cleaning <=> cmd.mode = "cleanup"
    /\ cmd.at \in Provider => cmd.ragflow
    /\ cmd.at = "audit" => ~file.there /\ cmd.bound = Unbound
    /\ cmd.at \in {"audit", "check"} => cmd.i = 1
    /\ cmd.mode \in {"prepare", "cleanup"} /\ file.provider => cmd.ragflow
    /\ cmd.mode = "prepare" /\ ~cmd.ragflow => cmd.bound = Unbound

\* What the audit listed is still there, and under our names only with the
\* operator's word.
AuditHolds ==
    cmd.mode = "prepare" =>
        /\ cmd.listed \subseteq Live
        /\ \A i \in Projects : Named(i) \cap cmd.listed \subseteq {cmd.recover[i]}

\* The datasets a prepare has so far have the names of their projects, and a
\* dataset that the rows name has no other name than its project's.
BoundByName ==
    /\ cmd.mode = "prepare" /\ cmd.ragflow =>
          \A i \in Projects : \/ cmd.bound[i] \in Named(i)
                              \/ cmd.at = "audit"
                              \/ cmd.at \in {"find", "create"} /\ cmd.i <= i
    /\ \A i \in Projects : rows.bound[i] \in Live => rows.bound[i] \in Named(i)

\* A dataset is created only when the one of the state file is gone.
CreatesTheMissing == cmd.at = "create" => file.bound[cmd.i] \notin Named(cmd.i)

\* The datasets that cleanup has been through are gone.
DeletedSoFar ==
    \A i \in Projects :
       \/ cmd.at = "delete" /\ i < cmd.i
       \/ cmd.at = "erase" /\ cmd.ragflow
       => rows.bound[i] \notin Live

FixtureInv ==
    /\ FixtureTypeOK /\ FileSound /\ CommandFits /\ AuditHolds
    /\ AdoptsOnlyWhatWasNamed /\ BoundByName /\ CreatesTheMissing /\ DeletedSoFar

-----------------------------------------------------------------------------
(* Commands and datasets. *)

LEMMA NewCommandType ==
    ASSUME NEW mode \in Modes, NEW at \in CommandSteps \cup Ended
    PROVE  /\ NewCommand(mode, at) \in Command
           /\ NewCommand(mode, at).mode = mode /\ NewCommand(mode, at).at = at
           /\ NewCommand(mode, at).i = 1 /\ NewCommand(mode, at).bound = Unbound
           /\ NewCommand(mode, at).ragflow = FALSE /\ NewCommand(mode, at).listed = {}
<1>1. Unbound \in Bound
  BY DEF Unbound, Bound
<1>2. 1 \in 1..NProjects + 1
  BY FixtureAssumption
<1>3. QED
  BY <1>1, <1>2 DEF NewCommand, Command

LEMMA GotoEffect ==
    ASSUME FixtureTypeOK, NEW at \in CommandSteps \cup Ended, Goto(at)
    PROVE  /\ cmd' \in Command /\ cmd'.at = at
           /\ cmd'.mode = cmd.mode /\ cmd'.ragflow = cmd.ragflow /\ cmd'.recover = cmd.recover
           /\ cmd'.i = cmd.i /\ cmd'.bound = cmd.bound /\ cmd'.listed = cmd.listed
  BY DEF FixtureTypeOK, Goto, Command

\* A round of a loop ends.
LEMMA LoopEffect ==
    ASSUME NEW c \in Command, c.i \in Projects, NEW again \in CommandSteps, NEW after \in CommandSteps,
           cmd' = Loop(c, again, after)
    PROVE  /\ cmd' \in Command /\ cmd'.i \in Projects
           /\ cmd'.mode = c.mode /\ cmd'.ragflow = c.ragflow /\ cmd'.recover = c.recover
           /\ cmd'.bound = c.bound /\ cmd'.listed = c.listed
           /\ \/ c.i = NProjects /\ cmd'.at = after
              \/ c.i # NProjects /\ cmd'.at = again /\ cmd'.i = c.i + 1
<1>1. CASE c.i = NProjects
  <2>1. 1 \in 1..NProjects + 1 /\ 1 \in Projects
    BY FixtureAssumption DEF Projects
  <2>2. cmd' = [c EXCEPT !.at = after, !.i = 1]
    BY <1>1 DEF Loop
  <2>3. QED
    BY <1>1, <2>1, <2>2 DEF Command
<1>2. CASE c.i # NProjects
  <2>1. c.i + 1 \in 1..NProjects + 1 /\ c.i + 1 \in Projects
    BY <1>2, FixtureAssumption DEF Projects
  <2>2. cmd' = [c EXCEPT !.at = again, !.i = c.i + 1]
    BY <1>2 DEF Loop
  <2>3. QED
    BY <1>2, <2>1, <2>2 DEF Command
<1>3. QED
  BY <1>1, <1>2

\* A dataset is bound to the project of the round.
BindSpace(s) == [cmd EXCEPT !.bound[cmd.i] = s]

LEMMA BindEffect ==
    ASSUME FixtureTypeOK, cmd.i \in Projects, NEW s \in Spaces,
           NEW c, c = BindSpace(s)
    PROVE  /\ c \in Command /\ c.i = cmd.i /\ c.mode = cmd.mode /\ c.ragflow = cmd.ragflow
           /\ c.recover = cmd.recover /\ c.listed = cmd.listed /\ c.bound[cmd.i] = s
           /\ \A i \in Projects : i # cmd.i => c.bound[i] = cmd.bound[i]
<1>1. cmd \in Command /\ cmd.bound \in Bound
  BY DEF FixtureTypeOK, Command
<1>2. PICK b : b = [cmd.bound EXCEPT ![cmd.i] = s]
  OBVIOUS
<1>3. b \in Bound /\ b[cmd.i] = s /\ \A i \in Projects : i # cmd.i => b[i] = cmd.bound[i]
  BY <1>1, <1>2 DEF Bound
<1>4. c = [cmd EXCEPT !.bound = b]
  BY <1>2 DEF BindSpace
<1>5. QED
  BY <1>1, <1>3, <1>4 DEF Command

\* A step that changes no name.
NamesKept ==
    /\ space' \in [Spaces -> Space]
    /\ \A s \in Spaces : space'[s].project = space[s].project

LEMMA NamesStay ==
    ASSUME NamesKept
    PROVE  Live' = Live /\ \A i : Named(i)' = Named(i)
  BY DEF NamesKept, Live, Named

LEMMA SpaceUnchanged ==
    ASSUME FixtureTypeOK, UNCHANGED space
    PROVE  NamesKept
  BY DEF FixtureTypeOK, NamesKept

LEMMA DocChanges ==
    ASSUME FixtureTypeOK, NEW s, NEW d \in {"none", "mapped", "queued", "parsed", "failed"},
           space' = [space EXCEPT ![s].doc = d]
    PROVE  NamesKept /\ (s \in Spaces => space'[s].doc = d)
           /\ \A t \in Spaces \ {s} : space'[t] = space[t]
<1>1. CASE s \in Spaces
  <2>1. PICK y : y = [space[s] EXCEPT !.doc = d]
    OBVIOUS
  <2>2. y \in Space /\ y.project = space[s].project /\ y.scope = space[s].scope /\ y.doc = d
    BY <1>1, <2>1 DEF FixtureTypeOK, Space
  <2>3. space' = [space EXCEPT ![s] = y]
    BY <2>1
  <2>4. QED
    BY <1>1, <2>2, <2>3, FixtureAssumption DEF FixtureTypeOK, NamesKept
<1>2. CASE s \notin Spaces
  <2>1. space' = space
    BY <1>2 DEF FixtureTypeOK
  <2>2. QED
    BY <1>2, <2>1 DEF FixtureTypeOK, NamesKept
<1>3. QED
  BY <1>1, <1>2

-----------------------------------------------------------------------------
(* The commands end and go on. *)

\* A command that ends leaves nothing to say of itself.
LEMMA EndStep ==
    ASSUME FixtureInv, NEW at \in Ended, End(at), NamesKept, rows' = rows,
           file' \in File, FileSound', faults' \in 0..MaxFaults
    PROVE  FixtureInv'
<1>1. /\ cmd' \in Command /\ cmd'.mode = "verify" /\ cmd'.at = at /\ cmd'.i = 1
  BY NewCommandType DEF End, Modes, Ended
<1>2. at \notin CommandSteps
  BY DEF Ended, CommandSteps
<1>3. /\ Live' = Live /\ \A i : Named(i)' = Named(i)
  BY NamesStay
<1>4. FixtureTypeOK'
  BY <1>1 DEF FixtureInv, FixtureTypeOK, NamesKept
<1>5. CommandFits' /\ AuditHolds' /\ AdoptsOnlyWhatWasNamed' /\ CreatesTheMissing'
      /\ DeletedSoFar'
  BY <1>1, FixtureAssumption
     DEF CommandFits, AuditHolds, AdoptsOnlyWhatWasNamed, CreatesTheMissing, DeletedSoFar,
         Preparing, Cleaning, Provider, Ended, Projects
<1>6. BoundByName'
  BY <1>1, <1>3 DEF FixtureInv, BoundByName
<1>7. QED
  BY <1>3, <1>4, <1>5, <1>6 DEF FixtureInv

LEMMA SimpleEnd ==
    ASSUME FixtureInv, NEW at \in Ended, End(at), UNCHANGED <<space, rows, file>>,
           faults' \in 0..MaxFaults
    PROVE  FixtureInv'
<1>1. NamesKept
  BY SpaceUnchanged DEF FixtureInv
<1>2. file' \in File /\ FileSound'
  BY DEF FixtureInv, FixtureTypeOK, FileSound, verify_fixture_state
<1>3. QED
  BY <1>1, <1>2, EndStep

\* A step that leaves the rows, the file and the names as they are.
LEMMA GoesOn ==
    ASSUME FixtureInv, NamesKept, rows' = rows, file' = file, faults' \in 0..MaxFaults,
           cmd' \in Command, CommandFits', AuditHolds', AdoptsOnlyWhatWasNamed',
           BoundByName', CreatesTheMissing', DeletedSoFar'
    PROVE  FixtureInv'
<1>1. FixtureTypeOK' /\ FileSound'
  BY DEF FixtureInv, FixtureTypeOK, NamesKept, FileSound, verify_fixture_state
<1>2. QED
  BY <1>1 DEF FixtureInv

LEMMA ProviderStep ==
    ASSUME FixtureInv, NEW s \in Spaces, Parse(s) \/ Describe(s)
    PROVE  FixtureInv'
<1>1. cmd' = cmd /\ rows' = rows /\ file' = file /\ faults' \in 0..MaxFaults
  <2>1. cmd' = cmd /\ rows' = rows /\ file' = file
    BY DEF Parse, Describe
  <2>2. faults' = faults \/ (faults < MaxFaults /\ faults' = faults + 1)
    BY DEF Parse, Describe
  <2>3. faults' \in 0..MaxFaults
    BY <2>2, FixtureAssumption DEF FixtureInv, FixtureTypeOK
  <2>4. QED
    BY <2>1, <2>3
<1>2. NamesKept
  <2>1. CASE Parse(s)
    BY <2>1, DocChanges DEF Parse, FixtureInv
  <2>2. CASE Describe(s)
    <3>1. PICK y : y = [space[s] EXCEPT !.scope = "uuid"]
      OBVIOUS
    <3>2. y \in Space /\ y.project = space[s].project
      BY <3>1 DEF FixtureInv, FixtureTypeOK, Space
    <3>3. space' = [space EXCEPT ![s] = y]
      BY <2>2, <3>1 DEF Describe
    <3>4. QED
      BY <3>2, <3>3, FixtureAssumption DEF FixtureInv, FixtureTypeOK, NamesKept
  <2>3. QED
    BY <2>1, <2>2
<1>3. Live' = Live /\ \A i : Named(i)' = Named(i)
  BY <1>2, NamesStay
<1>4. cmd' \in Command /\ CommandFits' /\ AuditHolds' /\ AdoptsOnlyWhatWasNamed'
  BY <1>1, <1>3 DEF FixtureInv, FixtureTypeOK, CommandFits, AuditHolds, AdoptsOnlyWhatWasNamed
<1>5. BoundByName' /\ CreatesTheMissing' /\ DeletedSoFar'
  BY <1>1, <1>3 DEF FixtureInv, BoundByName, CreatesTheMissing, DeletedSoFar
<1>6. QED
  BY <1>1, <1>2, <1>4, <1>5, GoesOn

LEMMA CommandStarts ==
    ASSUME FixtureInv, NEW mode \in Modes, NEW ragflow \in BOOLEAN,
           NEW recover \in RecoveryIds(mode), RunCommand(mode, ragflow, recover)
    PROVE  FixtureInv'
<1>1. /\ UNCHANGED <<space, rows, file, faults>> /\ NamesKept /\ faults' \in 0..MaxFaults
      /\ Live' = Live /\ \A i : Named(i)' = Named(i)
  BY SpaceUnchanged, NamesStay DEF RunCommand, FixtureInv, FixtureTypeOK
<1>2. CASE Refused(mode, ragflow, recover)
  BY <1>1, <1>2, SimpleEnd DEF RunCommand, Ended
<1>3. CASE ~Refused(mode, ragflow, recover)
  <2>1. PICK at : at = FirstStep(mode, ragflow)
    OBVIOUS
  <2>2. /\ at \in CommandSteps
        /\ mode = "verify" => at = "verify"
        /\ mode = "cleanup" => at = "check"
        /\ mode = "prepare" /\ ~ragflow => at = "commit"
        /\ mode = "prepare" /\ ragflow /\ ~file.there => at = "audit"
        /\ mode = "prepare" /\ ragflow /\ file.there => at = "find"
    <3>1. CASE mode = "verify"
      BY <2>1, <3>1 DEF FirstStep, CommandSteps
    <3>2. CASE mode = "cleanup"
      BY <2>1, <3>2 DEF FirstStep, CommandSteps
    <3>3. CASE mode = "prepare" /\ ~ragflow
      BY <2>1, <3>3 DEF FirstStep, CommandSteps
    <3>4. CASE mode = "prepare" /\ ragflow /\ ~file.there
      BY <2>1, <3>4 DEF FirstStep, CommandSteps
    <3>5. CASE mode = "prepare" /\ ragflow /\ file.there
      BY <2>1, <3>5 DEF FirstStep, CommandSteps
    <3>6. QED
      BY <3>1, <3>2, <3>3, <3>4, <3>5 DEF Modes
  <2>3. recover \in Bound
    BY DEF RecoveryIds, Bound, Live
  <2>4. PICK c : c = NewCommand(mode, at)
    OBVIOUS
  <2>5. /\ c \in Command /\ c.mode = mode /\ c.at = at /\ c.i = 1 /\ c.bound = Unbound
        /\ c.listed = {}
    <3>1. at \in CommandSteps \cup Ended
      BY <2>2
    <3>2. /\ Unbound \in Bound
          /\ 1 \in 1..NProjects + 1
      BY FixtureAssumption DEF Unbound, Bound
    <3>3. NewCommand(mode, at) \in Command
      BY <3>1, <3>2 DEF NewCommand, Command
    <3>4. QED
      BY <2>4, <3>3 DEF NewCommand
  <2>6. cmd' = [c EXCEPT !.ragflow = ragflow, !.recover = recover]
    BY <1>3, <2>1, <2>4 DEF RunCommand
  <2>7. /\ cmd' \in Command /\ cmd'.mode = mode /\ cmd'.at = at /\ cmd'.i = 1
        /\ cmd'.bound = Unbound /\ cmd'.ragflow = ragflow /\ cmd'.listed = {}
    BY <2>3, <2>5, <2>6 DEF Command
  <2>8. CommandFits'
    <3>1. 1 \in Projects
      BY FixtureAssumption DEF Projects
    <3>2. mode \in {"prepare", "cleanup"} /\ file.provider => ragflow
      BY <1>3 DEF FixtureInv, FileSound, Refused, NeedsRagflow
    <3>3. (at \in Preparing <=> mode = "prepare") /\ (at \in Cleaning <=> mode = "cleanup")
      BY <2>2 DEF Preparing, Cleaning, Modes
    <3>4. (at \in Provider => ragflow) /\ (at = "audit" => ~file.there)
      BY <2>2 DEF Provider, Modes
    <3>5. file' = file
      BY <1>1
    <3>6. QED
      BY <2>7, <3>1, <3>2, <3>3, <3>4, <3>5 DEF CommandFits
  <2>9. AuditHolds' /\ CreatesTheMissing' /\ DeletedSoFar'
    BY <1>1, <2>2, <2>7 DEF AuditHolds, CreatesTheMissing, DeletedSoFar, Modes
  <2>10. AdoptsOnlyWhatWasNamed'
    BY <2>7 DEF AdoptsOnlyWhatWasNamed
  <2>11. BoundByName'
    <3>1. \A i \in Projects : 1 <= i
      BY FixtureAssumption DEF Projects
    <3>2. mode = "prepare" /\ ragflow => at \in {"audit", "find"}
      BY <2>2
    <3>3. \A i \in Projects : rows'.bound[i] \in Live' => rows'.bound[i] \in Named(i)'
      BY <1>1 DEF FixtureInv, BoundByName
    <3>4. QED
      BY <2>7, <3>1, <3>2, <3>3 DEF BoundByName
  <2>12. QED
    BY <1>1, <2>7, <2>8, <2>9, <2>10, <2>11, GoesOn
<1>4. QED
  BY <1>2, <1>3

\* What the audit lists under our names is what the operator named.
LEMMA AuditStep ==
    ASSUME FixtureInv, Audit
    PROVE  FixtureInv'
<1>1. /\ UNCHANGED <<space, rows, file, faults>> /\ NamesKept /\ faults' \in 0..MaxFaults
      /\ Live' = Live /\ \A i : Named(i)' = Named(i)
  BY SpaceUnchanged, NamesStay DEF Audit, FixtureInv, FixtureTypeOK
<1>2. CASE End("refused")
  BY <1>1, <1>2, SimpleEnd DEF Ended
<1>3. CASE AuditAccepts(cmd.recover) /\ cmd' = [cmd EXCEPT !.at = "find", !.listed = Live]
  <2>1. /\ cmd' \in Command /\ cmd'.at = "find" /\ cmd'.mode = cmd.mode
        /\ cmd'.ragflow = cmd.ragflow /\ cmd'.i = cmd.i /\ cmd'.bound = cmd.bound
        /\ cmd'.recover = cmd.recover /\ cmd'.listed = Live
    BY <1>3 DEF FixtureInv, FixtureTypeOK, Command, CommandSteps, Live
  <2>2. cmd.at = "audit"
    BY DEF Audit
  <2>3. CommandFits'
    BY <1>1, <2>1, <2>2 DEF FixtureInv, CommandFits, Preparing, Cleaning, Provider
  <2>4. AuditHolds'
    BY <1>1, <1>3, <2>1 DEF AuditHolds, AuditAccepts
  <2>5. CreatesTheMissing' /\ DeletedSoFar'
    BY <2>1 DEF CreatesTheMissing, DeletedSoFar
  <2>6. AdoptsOnlyWhatWasNamed'
    <3>1. cmd.bound = Unbound
      BY <2>2 DEF FixtureInv, CommandFits
    <3>2. NoId \notin Live
      BY FixtureAssumption DEF Live
    <3>3. QED
      BY <2>1, <3>1, <3>2 DEF AdoptsOnlyWhatWasNamed, Unbound
  <2>7. BoundByName'
    <3>1. \A i \in Projects : 1 <= i
      BY FixtureAssumption DEF Projects
    <3>2. cmd'.i = 1
      BY <2>1, <2>2 DEF FixtureInv, CommandFits
    <3>3. QED
      BY <1>1, <2>1, <3>1, <3>2 DEF FixtureInv, BoundByName
  <2>8. QED
    BY <1>1, <2>1, <2>3, <2>4, <2>5, <2>6, <2>7, GoesOn
<1>4. QED
  BY <1>2, <1>3 DEF Audit

-----------------------------------------------------------------------------
(* The steps of prepare. *)

\* A round of the loop over the datasets ends with a dataset of the name, and with
\* one that the audit listed only if the operator named it.
LEMMA RoundEnds ==
    ASSUME FixtureInv, cmd.at \in {"find", "create"}, NEW s \in Spaces, NEW p, p = cmd.i,
           cmd' = Loop(BindSpace(s), "find", "commit"),
           s \in Named(p)', s \in cmd.listed => s = cmd.recover[p],
           \A i \in Projects : Named(i) \subseteq Named(i)', file' = file, rows' = rows
    PROVE  /\ cmd' \in Command /\ CommandFits' /\ AdoptsOnlyWhatWasNamed'
           /\ cmd'.at \in {"find", "commit"} /\ cmd'.mode = "prepare" /\ cmd'.ragflow
           /\ cmd'.listed = cmd.listed /\ cmd'.recover = cmd.recover
           /\ \A i \in Projects : \/ cmd'.bound[i] \in Named(i)'
                                  \/ cmd'.at \in {"find", "create"} /\ cmd'.i <= i
<1>1. /\ cmd.mode = "prepare" /\ cmd.ragflow /\ cmd.i \in Projects
  BY DEF FixtureInv, CommandFits, Preparing, Provider
<1>2. PICK c : c = BindSpace(s)
  OBVIOUS
<1>3. /\ c \in Command /\ c.i = cmd.i /\ c.mode = cmd.mode /\ c.ragflow = cmd.ragflow
      /\ c.recover = cmd.recover /\ c.listed = cmd.listed /\ c.bound[cmd.i] = s
      /\ \A i \in Projects : i # cmd.i => c.bound[i] = cmd.bound[i]
  <2>1. FixtureTypeOK /\ cmd.i \in Projects
    BY <1>1 DEF FixtureInv
  <2>2. QED
    BY <1>2, <2>1, BindEffect
<1>4. /\ cmd' \in Command /\ cmd'.i \in Projects
      /\ cmd'.mode = c.mode /\ cmd'.ragflow = c.ragflow /\ cmd'.bound = c.bound
      /\ cmd'.listed = c.listed /\ cmd'.recover = c.recover
      /\ \/ c.i = NProjects /\ cmd'.at = "commit"
         \/ c.i # NProjects /\ cmd'.at = "find" /\ cmd'.i = c.i + 1
  BY <1>1, <1>2, <1>3, LoopEffect DEF CommandSteps
<1>5. cmd'.at \in {"find", "commit"}
  BY <1>4
<1>6. CommandFits'
  BY <1>1, <1>3, <1>4, <1>5 DEF FixtureInv, CommandFits, Preparing, Cleaning, Provider
<1>7. AdoptsOnlyWhatWasNamed'
  <2>1. SUFFICES ASSUME NEW i \in Projects, c.bound[i] \in cmd.listed
                 PROVE  c.bound[i] = cmd.recover[i]
    BY <1>3, <1>4 DEF AdoptsOnlyWhatWasNamed
  <2>2. cmd.bound[i] \in cmd.listed => cmd.bound[i] = cmd.recover[i]
    BY <1>1 DEF FixtureInv, AdoptsOnlyWhatWasNamed
  <2>3. QED
    BY <1>3, <2>1, <2>2
<1>8. ASSUME NEW i \in Projects
      PROVE  cmd'.bound[i] \in Named(i)' \/ (cmd'.at \in {"find", "create"} /\ cmd'.i <= i)
  <2>1. CASE i = cmd.i
    BY <1>3, <1>4, <2>1
  <2>2. CASE i # cmd.i
    <3>1. cmd.bound[i] \in Named(i) \/ cmd.i <= i
      BY <1>1 DEF FixtureInv, BoundByName
    <3>2. CASE cmd.bound[i] \in Named(i)
      BY <1>3, <1>4, <2>2, <3>2
    <3>3. CASE cmd.i <= i
      <4>1. cmd.i \in Int /\ i \in Int /\ NProjects \in Int /\ i <= NProjects
        BY <1>1, FixtureAssumption DEF Projects
      <4>2. c.i # NProjects /\ cmd.i + 1 <= i
        BY <1>3, <2>2, <3>3, <4>1
      <4>3. QED
        BY <1>3, <1>4, <4>2
    <3>4. QED
      BY <3>1, <3>2, <3>3
  <2>3. QED
    BY <2>1, <2>2
<1>9. QED
  BY <1>1, <1>3, <1>4, <1>5, <1>6, <1>7, <1>8

LEMMA FindSpaceStep ==
    ASSUME FixtureInv, FindSpace
    PROVE  FixtureInv'
<1>1. /\ UNCHANGED <<space, rows, file, faults>> /\ NamesKept /\ faults' \in 0..MaxFaults
      /\ Live' = Live /\ \A i : Named(i)' = Named(i)
  BY SpaceUnchanged, NamesStay DEF FindSpace, FixtureInv, FixtureTypeOK
<1>2. cmd.at = "find" /\ cmd.mode = "prepare" /\ cmd.ragflow /\ cmd.i \in Projects
  BY DEF FindSpace, FixtureInv, CommandFits, Preparing, Provider
<1>3. ASSUME NEW s \in Named(cmd.i),
             cmd' = Loop([cmd EXCEPT !.bound[cmd.i] = s], "find", "commit")
      PROVE  FixtureInv'
  <2>1. s \in Spaces /\ s \in Live
    BY <1>3 DEF Named, Live
  <2>2. s \in cmd.listed => s = cmd.recover[cmd.i]
    BY <1>2, <1>3 DEF FixtureInv, AuditHolds
  <2>3. PICK p : p = cmd.i
    OBVIOUS
  <2>4. /\ cmd' \in Command /\ CommandFits' /\ AdoptsOnlyWhatWasNamed'
        /\ cmd'.at \in {"find", "commit"} /\ cmd'.mode = "prepare" /\ cmd'.ragflow
        /\ cmd'.listed = cmd.listed /\ cmd'.recover = cmd.recover
        /\ \A i \in Projects : \/ cmd'.bound[i] \in Named(i)'
                               \/ cmd'.at \in {"find", "create"} /\ cmd'.i <= i
    <3>1. s \in Named(p)' /\ \A i \in Projects : Named(i) \subseteq Named(i)'
      BY <1>1, <1>3, <2>3
    <3>2. QED
      BY <1>1, <1>2, <1>3, <2>1, <2>2, <2>3, <3>1, RoundEnds DEF BindSpace
  <2>5. AuditHolds' /\ CreatesTheMissing' /\ DeletedSoFar'
    BY <1>1, <1>2, <2>4 DEF FixtureInv, AuditHolds, CreatesTheMissing, DeletedSoFar
  <2>6. BoundByName'
    BY <1>1, <2>4 DEF FixtureInv, BoundByName
  <2>7. QED
    BY <1>1, <2>4, <2>5, <2>6, GoesOn
<1>4. CASE Named(cmd.i) = {} /\ Goto("create")
  <2>1. /\ cmd' \in Command /\ cmd'.at = "create" /\ cmd'.mode = cmd.mode
        /\ cmd'.ragflow = cmd.ragflow /\ cmd'.i = cmd.i /\ cmd'.bound = cmd.bound
        /\ cmd'.listed = cmd.listed /\ cmd'.recover = cmd.recover
    BY <1>4, GotoEffect DEF FixtureInv, CommandSteps
  <2>2. CommandFits'
    BY <1>1, <1>2, <2>1 DEF FixtureInv, CommandFits, Preparing, Cleaning, Provider
  <2>3. AuditHolds' /\ CreatesTheMissing' /\ DeletedSoFar'
    BY <1>1, <1>2, <1>4, <2>1 DEF FixtureInv, AuditHolds, CreatesTheMissing, DeletedSoFar
  <2>4. AdoptsOnlyWhatWasNamed' /\ BoundByName'
    BY <1>1, <1>2, <2>1 DEF FixtureInv, AdoptsOnlyWhatWasNamed, BoundByName
  <2>5. QED
    BY <1>1, <2>1, <2>2, <2>3, <2>4, GoesOn
<1>5. QED
  BY <1>3, <1>4 DEF FindSpace

\* A new dataset has its name alone, and no place names it yet.
LEMMA SpaceCreated ==
    ASSUME FixtureInv, NEW s \in Unheld, NEW p \in Projects, NEW d \in {"code", "other"},
           space' = [space EXCEPT ![s] = [project |-> p, scope |-> d, doc |-> "none"]]
    PROVE  /\ space' \in [Spaces -> Space]
           /\ s \in Spaces \ Live /\ Live' = Live \cup {s} /\ s \in Named(p)'
           /\ \A i \in Projects : /\ Named(i) \subseteq Named(i)'
                                  /\ Named(i)' \subseteq Named(i) \cup {s}
                                  /\ s \notin {rows.bound[i], file.bound[i], cmd.bound[i]}
           /\ cmd.mode = "prepare" => s \notin cmd.listed
<1>1. /\ s \in Spaces /\ s \notin Live
      /\ \A i \in Projects : s \notin {rows.bound[i], file.bound[i], cmd.bound[i]}
  BY DEF Unheld
<1>2. PICK y : y = [project |-> p, scope |-> d, doc |-> "none"]
  OBVIOUS
<1>3. y \in Space /\ y.project = p /\ p # NoId
  <2>1. y \in Space /\ y.project = p
    BY <1>2 DEF Space
  <2>2. p # NoId
    BY FixtureAssumption
  <2>3. QED
    BY <2>1, <2>2
<1>4. space' = [space EXCEPT ![s] = y]
  BY <1>2
<1>5. /\ space' \in [Spaces -> Space] /\ space'[s] = y
      /\ \A t \in Spaces \ {s} : space'[t] = space[t]
  BY <1>1, <1>3, <1>4 DEF FixtureInv, FixtureTypeOK
<1>6. Live' = Live \cup {s}
  BY <1>1, <1>3, <1>5 DEF Live
<1>7. s \in Named(p)'
  BY <1>3, <1>5, <1>6 DEF Named
<1>8. \A i \in Projects : Named(i) \subseteq Named(i)' /\ Named(i)' \subseteq Named(i) \cup {s}
  BY <1>1, <1>5, <1>6 DEF Named, Live
<1>9. cmd.mode = "prepare" => s \notin cmd.listed
  BY <1>1 DEF FixtureInv, AuditHolds
<1>10. QED
  BY <1>1, <1>5, <1>6, <1>7, <1>8, <1>9

LEMMA SomebodyElseStep ==
    ASSUME FixtureInv, SomebodyElse
    PROVE  FixtureInv'
<1>1. PICK s \in Unheld, p \in Projects :
         space' = [space EXCEPT ![s] = [project |-> p, scope |-> "other", doc |-> "none"]]
  BY DEF SomebodyElse
<1>2. UNCHANGED <<rows, file, cmd, faults>>
  BY DEF SomebodyElse
<1>3. /\ space' \in [Spaces -> Space]
      /\ s \in Spaces \ Live /\ Live' = Live \cup {s} /\ s \in Named(p)'
      /\ \A i \in Projects : /\ Named(i) \subseteq Named(i)'
                             /\ Named(i)' \subseteq Named(i) \cup {s}
                             /\ s \notin {rows.bound[i], file.bound[i], cmd.bound[i]}
      /\ cmd.mode = "prepare" => s \notin cmd.listed
  BY <1>1, SpaceCreated
<1>4. FixtureTypeOK' /\ FileSound' /\ CommandFits' /\ AdoptsOnlyWhatWasNamed'
  BY <1>2, <1>3 DEF FixtureInv, FixtureTypeOK, FileSound, verify_fixture_state, CommandFits,
                    AdoptsOnlyWhatWasNamed
<1>5. AuditHolds'
  BY <1>2, <1>3 DEF FixtureInv, AuditHolds
<1>6. BoundByName'
  BY <1>2, <1>3 DEF FixtureInv, BoundByName
<1>7. CreatesTheMissing'
  <2>1. cmd.i \in Projects
    BY DEF FixtureInv, CommandFits
  <2>2. QED
    BY <1>2, <1>3, <2>1 DEF FixtureInv, CreatesTheMissing
<1>8. DeletedSoFar'
  BY <1>2, <1>3 DEF FixtureInv, DeletedSoFar
<1>9. QED
  BY <1>4, <1>5, <1>6, <1>7, <1>8 DEF FixtureInv

LEMMA CreateSpaceStep ==
    ASSUME FixtureInv, CreateSpace
    PROVE  FixtureInv'
<1>1. rows' = rows /\ file' = file
  BY DEF CreateSpace
<1>2. cmd.at = "create" /\ cmd.mode = "prepare" /\ cmd.ragflow /\ cmd.i \in Projects
  BY DEF CreateSpace, FixtureInv, CommandFits, Preparing, Provider
<1>3. CASE End("failed") /\ UNCHANGED <<space, faults>>
  <2>1. faults' \in 0..MaxFaults
    BY <1>3 DEF FixtureInv, FixtureTypeOK
  <2>2. QED
    BY <1>1, <1>3, <2>1, SimpleEnd DEF Ended
<1>4. ASSUME NEW s \in FreshSpaces,
             space' = [space EXCEPT ![s] = [project |-> cmd.i, scope |-> "code", doc |-> "none"]],
             \/ cmd' = Loop([cmd EXCEPT !.bound[cmd.i] = s], "find", "commit") /\ faults' = faults
             \/ faults < MaxFaults /\ faults' = faults + 1 /\ cmd' = cmd
      PROVE  FixtureInv'
  <2>1. PICK p \in Projects : p = cmd.i
    BY <1>2
  <2>2. /\ space' \in [Spaces -> Space]
        /\ s \in Spaces \ Live /\ Live' = Live \cup {s} /\ s \in Named(p)'
        /\ \A i \in Projects : /\ Named(i) \subseteq Named(i)'
                               /\ Named(i)' \subseteq Named(i) \cup {s}
                               /\ s \notin {rows.bound[i], file.bound[i], cmd.bound[i]}
        /\ s \notin cmd.listed
    BY <1>2, <1>4, <2>1, SpaceCreated DEF FreshSpaces
  <2>3. faults' \in 0..MaxFaults
    BY <1>4, FixtureAssumption DEF FixtureInv, FixtureTypeOK
  <2>4. \A i \in Projects : rows'.bound[i] \in Live' => rows'.bound[i] \in Named(i)'
    BY <1>1, <2>2 DEF FixtureInv, BoundByName
  <2>5. FileSound' /\ rows' \in Rows /\ file' \in File
    BY <1>1 DEF FixtureInv, FixtureTypeOK, FileSound, verify_fixture_state
  <2>6. cmd' \in Command /\ CommandFits' /\ AdoptsOnlyWhatWasNamed' /\ BoundByName'
        /\ cmd'.at \in {"find", "create", "commit"} /\ (cmd'.at = "create" => cmd' = cmd)
        /\ cmd'.listed = cmd.listed /\ cmd'.recover = cmd.recover
    <3>1. CASE cmd' = Loop([cmd EXCEPT !.bound[cmd.i] = s], "find", "commit")
      <4>1. cmd' = Loop(BindSpace(s), "find", "commit")
        BY <3>1 DEF BindSpace
      <4>2. /\ cmd' \in Command /\ CommandFits' /\ AdoptsOnlyWhatWasNamed'
            /\ cmd'.at \in {"find", "commit"} /\ cmd'.mode = "prepare" /\ cmd'.ragflow
            /\ cmd'.listed = cmd.listed /\ cmd'.recover = cmd.recover
            /\ \A i \in Projects : \/ cmd'.bound[i] \in Named(i)'
                                   \/ cmd'.at \in {"find", "create"} /\ cmd'.i <= i
        BY <1>1, <1>2, <2>1, <2>2, <4>1, RoundEnds
      <4>3. BoundByName'
        BY <2>4, <4>2 DEF BoundByName
      <4>4. QED
        BY <4>2, <4>3
    <3>2. CASE cmd' = cmd
      <4>1. cmd' \in Command /\ CommandFits' /\ AdoptsOnlyWhatWasNamed'
        BY <1>1, <3>2 DEF FixtureInv, FixtureTypeOK, CommandFits, AdoptsOnlyWhatWasNamed
      <4>2. BoundByName'
        BY <1>2, <2>2, <2>4, <3>2 DEF FixtureInv, BoundByName
      <4>3. QED
        BY <1>2, <3>2, <4>1, <4>2
    <3>3. QED
      BY <1>4, <3>1, <3>2
  <2>7. AuditHolds'
    BY <1>2, <2>2, <2>6 DEF FixtureInv, AuditHolds
  <2>8. CreatesTheMissing'
    <3>1. SUFFICES ASSUME cmd' = cmd PROVE file.bound[p] \notin Named(p)'
      BY <1>1, <2>1, <2>6 DEF CreatesTheMissing, Named
    <3>2. QED
      BY <1>2, <2>1, <2>2 DEF FixtureInv, CreatesTheMissing
  <2>9. DeletedSoFar'
    BY <2>6 DEF DeletedSoFar
  <2>10. QED
    BY <2>2, <2>3, <2>5, <2>6, <2>7, <2>8, <2>9 DEF FixtureInv, FixtureTypeOK
<1>5. QED
  BY <1>3, <1>4 DEF CreateSpace

\* A step of prepare after its loop over the datasets.
LEMMA PrepareGoesOn ==
    ASSUME FixtureInv, NamesKept, UNCHANGED <<rows, file, faults>>,
           cmd.at \in {"commit", "ingest", "parse", "poll"}, cmd' \in Command,
           cmd'.mode = cmd.mode, cmd'.ragflow = cmd.ragflow, cmd'.bound = cmd.bound,
           cmd'.listed = cmd.listed, cmd'.recover = cmd.recover,
           cmd'.i \in Projects, cmd'.at \in {"ingest", "parse", "poll", "write"},
           cmd'.at # "write" => cmd.ragflow
    PROVE  FixtureInv'
<1>1. Live' = Live /\ \A i : Named(i)' = Named(i)
  BY NamesStay
<1>2. cmd.mode = "prepare"
  BY DEF FixtureInv, CommandFits, Preparing
<1>3. CommandFits'
  BY <1>2 DEF FixtureInv, CommandFits, Preparing, Cleaning, Provider
<1>4. CreatesTheMissing' /\ DeletedSoFar'
  BY DEF CreatesTheMissing, DeletedSoFar
<1>5. AdoptsOnlyWhatWasNamed' /\ AuditHolds'
  BY <1>1, <1>2 DEF FixtureInv, AdoptsOnlyWhatWasNamed, AuditHolds
<1>6. BoundByName'
  BY <1>1, <1>2 DEF FixtureInv, BoundByName
<1>7. faults' \in 0..MaxFaults
  BY DEF FixtureInv, FixtureTypeOK
<1>8. QED
  BY <1>3, <1>4, <1>5, <1>6, <1>7, GoesOn

LEMMA CommitRowsStep ==
    ASSUME FixtureInv, CommitRows
    PROVE  FixtureInv'
<1>1. UNCHANGED <<space, file, faults>> /\ NamesKept /\ Live' = Live /\ \A i : Named(i)' = Named(i)
  BY SpaceUnchanged, NamesStay DEF CommitRows, FixtureInv
<1>2. cmd.at = "commit" /\ cmd.mode = "prepare" /\ cmd.bound \in Bound
  BY DEF CommitRows, FixtureInv, FixtureTypeOK, CommandFits, Preparing, Command
<1>3. PICK at : at = IF cmd.ragflow THEN "ingest" ELSE "write"
  OBVIOUS
<1>4. at \in CommandSteps /\ at \in {"ingest", "write"} /\ (at = "ingest" => cmd.ragflow)
  BY <1>3 DEF CommandSteps
<1>5. /\ cmd' \in Command /\ cmd'.at = at /\ cmd'.mode = cmd.mode
      /\ cmd'.ragflow = cmd.ragflow /\ cmd'.i = cmd.i /\ cmd'.bound = cmd.bound
      /\ cmd'.listed = cmd.listed /\ cmd'.recover = cmd.recover
  BY <1>3, <1>4, GotoEffect DEF CommitRows, FixtureInv
<1>6. rows' \in Rows /\ rows'.bound = cmd.bound
  BY <1>2 DEF CommitRows, Rows
<1>7. CommandFits'
  BY <1>1, <1>2, <1>4, <1>5 DEF FixtureInv, CommandFits, Preparing, Cleaning, Provider
<1>8. CreatesTheMissing' /\ DeletedSoFar'
  BY <1>4, <1>5 DEF CreatesTheMissing, DeletedSoFar
<1>9. AdoptsOnlyWhatWasNamed' /\ AuditHolds'
  BY <1>1, <1>2, <1>5 DEF FixtureInv, AdoptsOnlyWhatWasNamed, AuditHolds
<1>10. BoundByName'
  <2>1. cmd.ragflow => \A i \in Projects : cmd.bound[i] \in Named(i)
    BY <1>2 DEF FixtureInv, BoundByName
  <2>2. ~cmd.ragflow => \A i \in Projects : cmd.bound[i] \notin Live
    BY <1>2, FixtureAssumption DEF FixtureInv, CommandFits, Unbound, Live
  <2>3. QED
    BY <1>1, <1>5, <1>6, <2>1, <2>2 DEF BoundByName
<1>11. FixtureTypeOK' /\ FileSound'
  BY <1>1, <1>5, <1>6 DEF FixtureInv, FixtureTypeOK, FileSound, verify_fixture_state
<1>12. QED
  BY <1>7, <1>8, <1>9, <1>10, <1>11 DEF FixtureInv

LEMMA IngestStep ==
    ASSUME FixtureInv, Ingest \/ StartParse
    PROVE  FixtureInv'
<1>1. /\ UNCHANGED <<rows, file, faults>> /\ cmd.at \in {"ingest", "parse"}
      /\ cmd \in Command /\ cmd.i \in Projects /\ cmd.ragflow
  BY DEF Ingest, StartParse, FixtureInv, FixtureTypeOK, CommandFits, Provider
<1>2. CASE cmd' = Loop(cmd, "ingest", "poll") /\ NamesKept
  <2>1. /\ cmd' \in Command /\ cmd'.i \in Projects
        /\ cmd'.mode = cmd.mode /\ cmd'.ragflow = cmd.ragflow /\ cmd'.bound = cmd.bound
        /\ cmd'.listed = cmd.listed /\ cmd'.recover = cmd.recover
        /\ cmd'.at \in {"ingest", "poll"}
    BY <1>1, <1>2, LoopEffect DEF CommandSteps
  <2>2. QED
    BY <1>1, <1>2, <2>1, PrepareGoesOn
<1>3. CASE Goto("parse") /\ NamesKept
  <2>1. /\ cmd' \in Command /\ cmd'.i \in Projects /\ cmd'.at = "parse"
        /\ cmd'.mode = cmd.mode /\ cmd'.ragflow = cmd.ragflow /\ cmd'.bound = cmd.bound
        /\ cmd'.listed = cmd.listed /\ cmd'.recover = cmd.recover
    BY <1>1, <1>3, GotoEffect DEF FixtureInv, CommandSteps
  <2>2. QED
    BY <1>1, <1>3, <2>1, PrepareGoesOn
<1>4. NamesKept
  <2>1. PICK s : s = cmd.bound[cmd.i]
    OBVIOUS
  <2>2. \/ space' = space
        \/ space' = [space EXCEPT ![s].doc = "mapped"]
        \/ space' = [space EXCEPT ![s].doc = "queued"]
    BY <2>1 DEF Ingest, StartParse
  <2>3. QED
    BY <2>2, DocChanges, SpaceUnchanged DEF FixtureInv
<1>5. QED
  BY <1>2, <1>3, <1>4 DEF Ingest, StartParse

LEMMA PollStep ==
    ASSUME FixtureInv, Poll
    PROVE  FixtureInv'
<1>1. /\ UNCHANGED <<space, rows, file, faults>> /\ cmd.at = "poll" /\ faults' \in 0..MaxFaults
      /\ cmd \in Command /\ cmd.i \in Projects /\ cmd.ragflow
  BY DEF Poll, FixtureInv, FixtureTypeOK, CommandFits, Provider
<1>2. CASE End("failed")
  BY <1>1, <1>2, SimpleEnd DEF Ended
<1>3. CASE cmd' = Loop(cmd, "poll", "write")
  <2>1. /\ cmd' \in Command /\ cmd'.i \in Projects
        /\ cmd'.mode = cmd.mode /\ cmd'.ragflow = cmd.ragflow /\ cmd'.bound = cmd.bound
        /\ cmd'.listed = cmd.listed /\ cmd'.recover = cmd.recover
        /\ cmd'.at \in {"poll", "write"}
    BY <1>1, <1>3, LoopEffect DEF CommandSteps
  <2>2. NamesKept
    BY <1>1, SpaceUnchanged DEF FixtureInv
  <2>3. QED
    BY <1>1, <2>1, <2>2, PrepareGoesOn
<1>4. QED
  BY <1>2, <1>3 DEF Poll

LEMMA WriteStateStep ==
    ASSUME FixtureInv, WriteState
    PROVE  FixtureInv'
<1>1. /\ UNCHANGED <<space, rows, faults>> /\ faults' \in 0..MaxFaults /\ NamesKept
      /\ cmd \in Command /\ file \in File
  BY SpaceUnchanged DEF WriteState, FixtureInv, FixtureTypeOK
<1>2. PICK state : state = [there |-> TRUE, provider |-> cmd.ragflow, bound |-> cmd.bound]
  OBVIOUS
<1>3. state \in File /\ state.there
  BY <1>1, <1>2 DEF File, Command
<1>4. CASE file' = state /\ verify_fixture_state(state) /\ End("done")
  <2>1. FileSound'
    BY <1>3, <1>4 DEF FileSound, verify_fixture_state
  <2>2. QED
    BY <1>1, <1>3, <1>4, <2>1, EndStep DEF Ended
<1>5. CASE End("refused") /\ file' = file
  BY <1>1, <1>5, SimpleEnd DEF Ended
<1>6. QED
  BY <1>2, <1>4, <1>5 DEF WriteState

-----------------------------------------------------------------------------
(* The steps of verify and cleanup, and the faults. *)

LEMMA VerifyStep ==
    ASSUME FixtureInv, Verify
    PROVE  FixtureInv'
<1>1. UNCHANGED <<space, rows, file>> /\ faults' \in 0..MaxFaults
  BY DEF Verify, FixtureInv, FixtureTypeOK
<1>2. PICK at \in Ended : End(at)
  BY DEF Verify, Ended
<1>3. QED
  BY <1>1, <1>2, SimpleEnd

LEMMA StopStep ==
    ASSUME FixtureInv, Stop
    PROVE  FixtureInv'
<1>1. UNCHANGED <<space, rows, file>> /\ End("failed") /\ "failed" \in Ended
  BY DEF Stop, Ended
<1>2. faults' \in 0..MaxFaults
  BY FixtureAssumption DEF Stop, FixtureInv, FixtureTypeOK
<1>3. QED
  BY <1>1, <1>2, SimpleEnd

LEMMA CheckRowsStep ==
    ASSUME FixtureInv, CheckRows
    PROVE  FixtureInv'
<1>1. /\ UNCHANGED <<space, rows, file, faults>> /\ NamesKept /\ faults' \in 0..MaxFaults
      /\ Live' = Live /\ (\A i : Named(i)' = Named(i))
  BY SpaceUnchanged, NamesStay DEF CheckRows, FixtureInv, FixtureTypeOK
<1>2. cmd.at = "check" /\ cmd.mode = "cleanup" /\ cmd.i = 1
  BY DEF CheckRows, FixtureInv, CommandFits, Cleaning
<1>3. CASE End("refused")
  BY <1>1, <1>3, SimpleEnd DEF Ended
<1>4. CASE Goto(IF cmd.ragflow THEN "delete" ELSE "erase")
  <2>1. PICK at : at = IF cmd.ragflow THEN "delete" ELSE "erase"
    OBVIOUS
  <2>2. at \in CommandSteps /\ at \in {"delete", "erase"} /\ (at = "delete" <=> cmd.ragflow)
    BY <2>1 DEF CommandSteps
  <2>3. /\ cmd' \in Command /\ cmd'.at = at /\ cmd'.mode = cmd.mode
        /\ cmd'.ragflow = cmd.ragflow /\ cmd'.i = cmd.i /\ cmd'.bound = cmd.bound
    BY <1>4, <2>1, <2>2, GotoEffect DEF FixtureInv
  <2>4. CommandFits'
    BY <1>1, <1>2, <2>2, <2>3 DEF FixtureInv, CommandFits, Preparing, Cleaning, Provider
  <2>5. AuditHolds' /\ CreatesTheMissing' /\ AdoptsOnlyWhatWasNamed'
    BY <1>2, <2>2, <2>3 DEF AuditHolds, CreatesTheMissing, AdoptsOnlyWhatWasNamed
  <2>6. BoundByName'
    BY <1>1, <1>2, <2>3 DEF FixtureInv, BoundByName
  <2>7. DeletedSoFar'
    <3>1. \A i \in Projects : ~(i < 1)
      BY FixtureAssumption DEF Projects
    <3>2. QED
      BY <1>2, <2>2, <2>3, <3>1 DEF DeletedSoFar
  <2>8. QED
    BY <1>1, <2>3, <2>4, <2>5, <2>6, <2>7, GoesOn
<1>5. QED
  BY <1>3, <1>4 DEF CheckRows

LEMMA SpaceDeleted ==
    ASSUME FixtureInv, NEW s \in Spaces, space' = [space EXCEPT ![s] = NoSpace]
    PROVE  /\ space' \in [Spaces -> Space]
           /\ Live' = Live \ {s} /\ \A i \in Projects : Named(i)' = Named(i) \ {s}
<1>1. NoSpace \in Space /\ NoSpace.project = NoId
  BY DEF NoSpace, Space
<1>2. /\ space' \in [Spaces -> Space] /\ space'[s] = NoSpace
      /\ \A t \in Spaces \ {s} : space'[t] = space[t]
  BY <1>1 DEF FixtureInv, FixtureTypeOK
<1>3. Live' = Live \ {s}
  BY <1>1, <1>2 DEF Live
<1>4. \A i \in Projects : Named(i)' = Named(i) \ {s}
  BY <1>2, <1>3 DEF Named, Live
<1>5. QED
  BY <1>2, <1>3, <1>4

LEMMA DeleteSpaceStep ==
    ASSUME FixtureInv, DeleteSpace
    PROVE  FixtureInv'
<1>1. UNCHANGED <<rows, file, faults>> /\ faults' \in 0..MaxFaults
  BY DEF DeleteSpace, FixtureInv, FixtureTypeOK
<1>2. /\ cmd.at = "delete" /\ cmd.mode = "cleanup" /\ cmd.ragflow /\ cmd.i \in Projects
      /\ cmd \in Command
  BY DEF DeleteSpace, FixtureInv, FixtureTypeOK, CommandFits, Cleaning, Provider
<1>3. CASE End("refused") /\ UNCHANGED space
  BY <1>1, <1>3, SimpleEnd DEF Ended
<1>4. PICK p \in Projects : p = cmd.i
  BY <1>2
<1>5. ASSUME cmd' = Loop(cmd, "delete", "erase"), space' \in [Spaces -> Space],
             Live' \subseteq Live, rows.bound[p] \notin Live',
             \A i \in Projects : Named(i) \cap Live' \subseteq Named(i)'
      PROVE  FixtureInv'
  <2>1. /\ cmd' \in Command /\ cmd'.i \in Projects
        /\ cmd'.mode = cmd.mode /\ cmd'.ragflow = cmd.ragflow /\ cmd'.bound = cmd.bound
        /\ \/ cmd.i = NProjects /\ cmd'.at = "erase"
           \/ cmd.i # NProjects /\ cmd'.at = "delete" /\ cmd'.i = cmd.i + 1
    BY <1>2, <1>5, LoopEffect DEF CommandSteps
  <2>2. CommandFits'
    BY <1>1, <1>2, <2>1 DEF FixtureInv, CommandFits, Preparing, Cleaning, Provider
  <2>3. AuditHolds' /\ CreatesTheMissing' /\ AdoptsOnlyWhatWasNamed'
    BY <1>2, <2>1 DEF AuditHolds, CreatesTheMissing, AdoptsOnlyWhatWasNamed
  <2>4. BoundByName'
    BY <1>1, <1>2, <1>5, <2>1 DEF FixtureInv, BoundByName
  <2>5. DeletedSoFar'
    <3>1. ASSUME NEW i \in Projects, cmd'.at = "erase" \/ i < cmd'.i
          PROVE  rows.bound[i] \notin Live'
      <4>1. i < cmd.i \/ i = p
        <5>1. i \in Int /\ cmd.i \in Int /\ NProjects \in Int /\ i <= NProjects
          BY <1>2, FixtureAssumption DEF Projects
        <5>2. QED
          BY <1>4, <2>1, <3>1, <5>1
      <4>2. i < cmd.i => rows.bound[i] \notin Live
        BY <1>2 DEF FixtureInv, DeletedSoFar
      <4>3. QED
        BY <1>5, <4>1, <4>2
    <3>2. QED
      BY <1>1, <2>1, <3>1 DEF DeletedSoFar
  <2>6. FixtureTypeOK' /\ FileSound'
    BY <1>1, <1>5, <2>1 DEF FixtureInv, FixtureTypeOK, FileSound, verify_fixture_state
  <2>7. QED
    BY <1>5, <2>2, <2>3, <2>4, <2>5, <2>6 DEF FixtureInv
<1>6. CASE Named(cmd.i) = {} /\ cmd' = Loop(cmd, "delete", "erase") /\ UNCHANGED space
  <2>1. NamesKept /\ Live' = Live /\ \A i : Named(i)' = Named(i)
    BY <1>6, SpaceUnchanged, NamesStay DEF FixtureInv
  <2>2. rows.bound[p] \notin Live'
    BY <1>4, <1>6, <2>1 DEF FixtureInv, BoundByName
  <2>3. space' \in [Spaces -> Space]
    BY <2>1 DEF NamesKept
  <2>4. QED
    BY <1>5, <1>6, <2>1, <2>2, <2>3
<1>7. ASSUME NEW s \in Named(cmd.i), OwnSpace(s, cmd.i), space' = [space EXCEPT ![s] = NoSpace],
             cmd' = Loop(cmd, "delete", "erase")
      PROVE  FixtureInv'
  <2>1. s \in Spaces /\ s = rows.bound[p]
    BY <1>4, <1>7 DEF Named, Live, OwnSpace
  <2>2. /\ space' \in [Spaces -> Space]
        /\ Live' = Live \ {s} /\ \A i \in Projects : Named(i)' = Named(i) \ {s}
    BY <1>7, <2>1, SpaceDeleted
  <2>3. QED
    BY <1>5, <1>7, <2>1, <2>2
<1>8. QED
  BY <1>3, <1>6, <1>7 DEF DeleteSpace

LEMMA EraseRowsStep ==
    ASSUME FixtureInv, EraseRows
    PROVE  FixtureInv'
<1>1. UNCHANGED <<space, file, faults>> /\ NamesKept /\ Live' = Live /\ \A i : Named(i)' = Named(i)
  BY SpaceUnchanged, NamesStay DEF EraseRows, FixtureInv
<1>2. cmd.at = "erase" /\ cmd.mode = "cleanup"
  BY DEF EraseRows, FixtureInv, CommandFits, Cleaning
<1>3. /\ cmd' \in Command /\ cmd'.at = "unlink" /\ cmd'.mode = cmd.mode
      /\ cmd'.ragflow = cmd.ragflow /\ cmd'.i = cmd.i /\ cmd'.bound = cmd.bound
  BY GotoEffect DEF EraseRows, FixtureInv, CommandSteps
<1>4. rows' \in Rows /\ rows'.bound = Unbound
  BY DEF EraseRows, NoRows, Rows, Unbound, Bound
<1>5. CommandFits'
  BY <1>1, <1>2, <1>3 DEF FixtureInv, CommandFits, Preparing, Cleaning, Provider
<1>6. AuditHolds' /\ CreatesTheMissing' /\ AdoptsOnlyWhatWasNamed' /\ DeletedSoFar'
  BY <1>2, <1>3 DEF AuditHolds, CreatesTheMissing, AdoptsOnlyWhatWasNamed, DeletedSoFar
<1>7. BoundByName'
  BY <1>1, <1>2, <1>3, <1>4, FixtureAssumption DEF BoundByName, Unbound, Live
<1>8. FixtureTypeOK' /\ FileSound'
  BY <1>1, <1>3, <1>4 DEF FixtureInv, FixtureTypeOK, FileSound, verify_fixture_state
<1>9. QED
  BY <1>5, <1>6, <1>7, <1>8 DEF FixtureInv

LEMMA UnlinkStep ==
    ASSUME FixtureInv, Unlink
    PROVE  FixtureInv'
<1>1. UNCHANGED <<space, rows, faults>> /\ faults' \in 0..MaxFaults /\ NamesKept
  BY SpaceUnchanged DEF Unlink, FixtureInv, FixtureTypeOK
<1>2. file' \in File /\ ~file'.there /\ ~file'.provider
  BY DEF Unlink, NoFile, File, Unbound, Bound
<1>3. FileSound'
  BY <1>2 DEF FileSound
<1>4. QED
  BY <1>1, <1>2, <1>3, EndStep DEF Unlink, Ended

-----------------------------------------------------------------------------
(* The invariant. *)

LEMMA FixtureInitial == FixtureInit => FixtureInv
<1>1. SUFFICES ASSUME FixtureInit PROVE FixtureInv
  OBVIOUS
<1>2. NoSpace \in Space
  BY DEF NoSpace, Space
<1>5. space \in [Spaces -> Space]
  BY <1>1, <1>2 DEF FixtureInit
<1>6. rows \in Rows /\ rows.bound = Unbound
  BY <1>1 DEF FixtureInit, NoRows, Rows, Bound, Unbound
<1>7. file \in File /\ ~file.there /\ ~file.provider
  BY <1>1 DEF FixtureInit, NoFile, File, Bound, Unbound
<1>8. cmd \in Command /\ cmd.mode = "verify" /\ cmd.at = "done" /\ cmd.i = 1 /\ 1 \in Projects
  <2>1. cmd \in Command /\ cmd.mode = "verify" /\ cmd.at = "done" /\ cmd.i = 1
    BY <1>1, NewCommandType DEF FixtureInit, Modes, Ended
  <2>2. 1 \in Projects
    BY FixtureAssumption DEF Projects
  <2>3. QED
    BY <2>1, <2>2
<1>9. faults \in 0..MaxFaults
  BY <1>1, FixtureAssumption DEF FixtureInit
<1>10. FixtureTypeOK /\ FileSound
  BY <1>5, <1>6, <1>7, <1>8, <1>9 DEF FixtureTypeOK, FileSound
<1>12. CommandFits /\ AuditHolds /\ AdoptsOnlyWhatWasNamed /\ CreatesTheMissing
       /\ DeletedSoFar
  BY <1>7, <1>8
     DEF CommandFits, AuditHolds, AdoptsOnlyWhatWasNamed, CreatesTheMissing, DeletedSoFar,
         Preparing, Cleaning, Provider
<1>13. BoundByName
  BY <1>6, <1>8, FixtureAssumption DEF BoundByName, Unbound, Live
<1>14. QED
  BY <1>10, <1>12, <1>13 DEF FixtureInv

LEMMA FixtureStep == FixtureInv /\ [FixtureNext]_fixtureVars => FixtureInv'
<1>1. SUFFICES ASSUME FixtureInv, [FixtureNext]_fixtureVars PROVE FixtureInv'
  OBVIOUS
<1>2. CASE \E mode \in Modes, ragflow \in BOOLEAN :
             \E recover \in RecoveryIds(mode) : RunCommand(mode, ragflow, recover)
  BY <1>1, <1>2, CommandStarts
<1>3. CASE CommandStep
  BY <1>1, <1>3, AuditStep, FindSpaceStep, CreateSpaceStep, CommitRowsStep, IngestStep, PollStep,
     WriteStateStep, VerifyStep, CheckRowsStep, DeleteSpaceStep, EraseRowsStep, UnlinkStep
     DEF CommandStep
<1>4. CASE Stop
  BY <1>1, <1>4, StopStep
<1>5. CASE SomebodyElse \/ \E s \in Spaces : Parse(s) \/ Describe(s)
  BY <1>1, <1>5, ProviderStep, SomebodyElseStep
<1>6. CASE UNCHANGED fixtureVars
  <2>1. UNCHANGED <<space, rows, file, cmd, faults>>
    BY <1>6 DEF fixtureVars
  <2>2. NamesKept /\ Live' = Live /\ (\A i : Named(i)' = Named(i))
    BY <1>1, <2>1, SpaceUnchanged, NamesStay DEF FixtureInv
  <2>3. cmd' \in Command /\ CommandFits' /\ AuditHolds' /\ AdoptsOnlyWhatWasNamed'
        /\ faults' \in 0..MaxFaults
    BY <1>1, <2>1, <2>2 DEF FixtureInv, FixtureTypeOK, CommandFits, AuditHolds,
                            AdoptsOnlyWhatWasNamed
  <2>4. BoundByName' /\ CreatesTheMissing' /\ DeletedSoFar'
    BY <1>1, <2>1, <2>2 DEF FixtureInv, BoundByName, CreatesTheMissing, DeletedSoFar
  <2>5. QED
    BY <1>1, <2>1, <2>2, <2>3, <2>4, GoesOn
<1>7. QED
  BY <1>1, <1>2, <1>3, <1>4, <1>5, <1>6 DEF FixtureNext

LEMMA FixtureInvariant == FixtureSpec => []FixtureInv
  BY FixtureInitial, FixtureStep, PTL DEF FixtureSpec

-----------------------------------------------------------------------------
(* A namespace that verifies. *)

\* The datasets of our names are those of the state file, one for each project,
\* and each has its document.
OnlyOurs ==
    /\ file.there /\ rows.there /\ rows.bound = file.bound /\ file.provider
    /\ \A i \in Projects : Named(i) = {file.bound[i]} /\ space[file.bound[i]].doc # "none"

LEMMA VerifiesMeans ==
    ASSUME FixtureInv
    PROVE  Verifies <=> OnlyOurs
<1>1. file.bound \in Bound /\ \A i \in Projects : Named(i) \subseteq Spaces
  BY DEF FixtureInv, FixtureTypeOK, File, Named, Live
<1>2. ASSUME Verifies PROVE OnlyOurs
  <2>1. PICK l \in [Projects -> Spaces \cup {NoId}] :
           \A i \in Projects : IF Named(i) = {} THEN l[i] = NoId ELSE l[i] \in Named(i)
    <3>1. PICK g : g = [i \in Projects |-> IF Named(i) = {} THEN NoId
                                                          ELSE CHOOSE s \in Named(i) : TRUE]
      OBVIOUS
    <3>2. ASSUME NEW i \in Projects
          PROVE  /\ IF Named(i) = {} THEN g[i] = NoId ELSE g[i] \in Named(i)
                 /\ g[i] \in Spaces \cup {NoId}
      BY <1>1, <3>1
    <3>3. g \in [Projects -> Spaces \cup {NoId}]
      BY <3>1, <3>2
    <3>4. QED
      BY <3>2, <3>3
  <2>2. l \in Listings
    BY <2>1 DEF Listings, Bound
  <2>3. /\ file.there /\ rows.there /\ rows.bound = file.bound /\ file.provider /\ l = file.bound
        /\ \A i \in Projects : space[file.bound[i]].doc # "none"
    BY <1>2, <2>2 DEF Verifies, VerifyPostgres, VerifyProvider
  <2>4. ASSUME NEW i \in Projects PROVE Named(i) = {file.bound[i]}
    <3>1. file.bound[i] # NoId
      BY <2>3 DEF FixtureInv, FileSound, verify_fixture_state
    <3>2. file.bound[i] \in Named(i)
      BY <2>1, <2>3, <3>1
    <3>3. ASSUME NEW s \in Named(i) PROVE s = file.bound[i]
      <4>1. PICK m : m = [l EXCEPT ![i] = s]
        OBVIOUS
      <4>2. s \in Spaces
        BY <1>1, <3>3
      <4>3. m \in [Projects -> Spaces \cup {NoId}] /\ m[i] = s
            /\ \A j \in Projects : j # i => m[j] = l[j]
        BY <2>1, <4>1, <4>2
      <4>4. \A j \in Projects : IF Named(j) = {} THEN m[j] = NoId ELSE m[j] \in Named(j)
        BY <2>1, <3>3, <4>3
      <4>5. m \in Listings
        BY <4>3, <4>4 DEF Listings, Bound
      <4>6. m = file.bound
        BY <1>2, <4>5 DEF Verifies, VerifyProvider
      <4>7. QED
        BY <4>3, <4>6
    <3>4. QED
      BY <3>2, <3>3
  <2>5. QED
    BY <2>3, <2>4 DEF OnlyOurs
<1>3. ASSUME OnlyOurs PROVE Verifies
  <2>1. ASSUME NEW v \in Listings PROVE VerifyProvider(v)
    <3>1. v \in Bound /\ \A i \in Projects : v[i] = file.bound[i]
      BY <1>3, <2>1 DEF Listings, OnlyOurs
    <3>2. v = file.bound
      BY <1>1, <3>1 DEF Bound
    <3>3. QED
      BY <1>3, <3>2 DEF VerifyProvider, OnlyOurs
  <2>2. QED
    BY <1>3, <2>1 DEF Verifies, VerifyPostgres, OnlyOurs
<1>4. QED
  BY <1>2, <1>3

\* Where only ours are listed, the datasets that prepare has found are those of
\* the state file.
LEMMA FoundIsFiled ==
    ASSUME FixtureInv, OnlyOurs, cmd.at \in {"commit", "ingest", "parse", "poll", "write"}
    PROVE  cmd.ragflow /\ cmd.bound = file.bound
<1>1. cmd.mode = "prepare" /\ cmd.ragflow
  BY DEF FixtureInv, CommandFits, OnlyOurs, Preparing
<1>2. \A i \in Projects : cmd.bound[i] = file.bound[i]
  BY <1>1 DEF FixtureInv, BoundByName, OnlyOurs
<1>3. cmd.bound \in Bound /\ file.bound \in Bound
  BY DEF FixtureInv, FixtureTypeOK, Command, File
<1>4. QED
  BY <1>1, <1>2, <1>3 DEF Bound

\* A document gets another state, but is not lost.
LEMMA DocsStay ==
    ASSUME FixtureInv, OnlyOurs, UNCHANGED <<rows, file>>, NEW s,
           NEW d \in {"mapped", "queued", "parsed", "failed"}, space' = [space EXCEPT ![s].doc = d]
    PROVE  OnlyOurs'
<1>1. /\ NamesKept /\ (s \in Spaces => space'[s].doc = d)
      /\ \A t \in Spaces \ {s} : space'[t] = space[t]
  BY DocChanges DEF FixtureInv
<1>2. \A i : Named(i)' = Named(i)
  BY <1>1, NamesStay
<1>3. ASSUME NEW i \in Projects
      PROVE  Named(i)' = {file'.bound[i]} /\ space'[file'.bound[i]].doc # "none"
  <2>1. file' = file /\ Named(i) = {file.bound[i]} /\ space[file.bound[i]].doc # "none"
    BY DEF OnlyOurs
  <2>2. file.bound[i] \in Spaces
    BY <2>1 DEF Named, Live
  <2>3. QED
    BY <1>1, <1>2, <2>1, <2>2
<1>4. QED
  BY <1>3 DEF OnlyOurs

LEMMA OursUnchanged ==
    ASSUME OnlyOurs, UNCHANGED <<space, rows, file>>
    PROVE  OnlyOurs'
  BY DEF OnlyOurs, Named, Live

LEMMA PrepareKeeps ==
    ASSUME FixtureInv, OnlyOurs, cmd.mode = "prepare", [FixtureNext]_fixtureVars, ~SomebodyElse
    PROVE  OnlyOurs'
<1>1. /\ cmd.at \in Preparing /\ cmd.at # "audit" /\ ~Idle /\ cmd.i \in Projects
  BY DEF FixtureInv, CommandFits, OnlyOurs, Preparing, Idle, Ended
<1>2. CASE UNCHANGED <<space, rows, file>>
  BY <1>2, OursUnchanged
<1>3. CASE CreateSpace
  <2>1. file.bound[cmd.i] \in Named(cmd.i)
    BY <1>1 DEF OnlyOurs
  <2>2. cmd.at = "create"
    BY <1>3 DEF CreateSpace
  <2>3. QED
    BY <2>1, <2>2 DEF FixtureInv, CreatesTheMissing
<1>4. CASE CommitRows
  <2>1. cmd.at = "commit" /\ space' = space /\ file' = file
    BY <1>4 DEF CommitRows
  <2>2. cmd.bound = file.bound
    BY <2>1, FoundIsFiled
  <2>3. rows'.there /\ rows'.bound = file.bound
    BY <1>4, <2>2 DEF CommitRows
  <2>4. QED
    BY <2>1, <2>3 DEF OnlyOurs, Named, Live
<1>5. CASE Ingest \/ StartParse
  <2>1. PICK s : s = cmd.bound[cmd.i]
    OBVIOUS
  <2>2. /\ rows' = rows /\ file' = file
        /\ \/ space' = space
           \/ space' = [space EXCEPT ![s].doc = "mapped"]
           \/ space' = [space EXCEPT ![s].doc = "queued"]
    BY <1>5, <2>1 DEF Ingest, StartParse
  <2>3. QED
    BY <2>2, OursUnchanged, DocsStay
<1>6. CASE WriteState
  <2>1. cmd.at = "write" /\ space' = space /\ rows' = rows
    BY <1>6 DEF WriteState
  <2>2. cmd.ragflow /\ cmd.bound = file.bound
    BY <2>1, FoundIsFiled
  <2>3. \/ file' = file
        \/ file' = [there |-> TRUE, provider |-> cmd.ragflow, bound |-> cmd.bound]
    BY <1>6 DEF WriteState
  <2>4. file'.there /\ file'.provider /\ file'.bound = file.bound
    BY <2>2, <2>3 DEF OnlyOurs
  <2>5. QED
    BY <2>1, <2>4 DEF OnlyOurs, Named, Live
<1>7. ASSUME NEW s \in Spaces, Parse(s) \/ Describe(s)
      PROVE  OnlyOurs'
  <2>1. /\ rows' = rows /\ file' = file
        /\ \/ space' = [space EXCEPT ![s].doc = "parsed"]
           \/ space' = [space EXCEPT ![s].doc = "failed"]
    BY <1>1, <1>7 DEF Parse, Describe
  <2>2. QED
    BY <2>1, DocsStay
<1>8. CASE DeleteSpace \/ EraseRows \/ Unlink
  BY <1>1, <1>8 DEF DeleteSpace, EraseRows, Unlink, Preparing
<1>9. CASE Audit \/ FindSpace \/ Poll \/ Verify \/ CheckRows \/ Stop
  BY <1>2, <1>9 DEF Audit, FindSpace, Poll, Verify, CheckRows, Stop
<1>10. CASE UNCHANGED fixtureVars
  BY <1>2, <1>10 DEF fixtureVars
<1>11. QED
  BY <1>1, <1>3, <1>4, <1>5, <1>6, <1>7, <1>8, <1>9, <1>10
     DEF FixtureNext, CommandStep, RunCommand

-----------------------------------------------------------------------------
(* The results. *)

\* The datasets, the rows, the state file and the command keep their types: a
\* loop over PROJECT_CODES never goes past the last project.
THEOREM FixtureTypes == FixtureSpec => []FixtureTypeOK
  BY FixtureInvariant, PTL DEF FixtureInv

\* Whatever datasets somebody else makes at any time and wherever earlier commands
\* were cut short, a prepare takes over one that its audit listed only if the operator
\* named it for its project (_audit_existing_provider_spaces).
THEOREM FixtureAdoptsOnlyWhatWasNamed == FixtureSpec => []AdoptsOnlyWhatWasNamed
  BY FixtureInvariant, PTL DEF FixtureInv

\* No step of a prepare over a namespace that verifies, and no fault during it,
\* leaves a namespace that does not (prepare_v0 and its help text).
THEOREM FixturePrepareIsIdempotent == FixtureSpec => PrepareKeepsWhatVerifies
<1>1. ASSUME FixtureInv, FixtureInv', [FixtureNext]_fixtureVars
      PROVE  [Verifies /\ cmd.mode = "prepare" /\ ~SomebodyElse => Verifies']_fixtureVars
  <2>1. SUFFICES ASSUME Verifies, cmd.mode = "prepare", ~SomebodyElse PROVE Verifies'
    OBVIOUS
  <2>2. OnlyOurs
    BY <1>1, <2>1, VerifiesMeans
  <2>3. OnlyOurs'
    BY <1>1, <2>1, <2>2, PrepareKeeps
  <2>4. (Verifies <=> OnlyOurs)'
    BY <1>1, VerifiesMeans, PTL
  <2>5. QED
    BY <2>3, <2>4
<1>2. QED
  BY <1>1, FixtureInvariant, PTL DEF FixtureSpec, PrepareKeepsWhatVerifies

\* A cleanup that talks to the provider, or runs under a state file with documents of
\* the provider, deletes the rows only after the datasets that they name, also when an
\* earlier command was cut short between the two (cleanup_v0).
THEOREM FixtureRowsOutliveTheirSpaces == FixtureSpec => RowsOutliveTheirSpaces
<1>1. ASSUME FixtureInv, [FixtureNext]_fixtureVars
      PROVE  [rows.there /\ ~rows'.there /\ (cmd.ragflow \/ file.provider) =>
                \A i \in Projects : rows.bound[i] \notin Live]_fixtureVars
  <2>1. SUFFICES ASSUME rows.there, ~rows'.there, cmd.ragflow \/ file.provider
                 PROVE  \A i \in Projects : rows.bound[i] \notin Live
    OBVIOUS
  <2>2. rows' # rows
    BY <2>1
  <2>3. CommitRows => rows'.there
    BY DEF CommitRows
  <2>4. EraseRows
    BY <1>1, <2>1, <2>2, <2>3
       DEF FixtureNext, CommandStep, RunCommand, Audit, FindSpace, CreateSpace, Ingest, StartParse,
           Poll, WriteState, Verify, CheckRows, DeleteSpace, Unlink, Stop, SomebodyElse, Parse,
           Describe, fixtureVars
  <2>5. cmd.at = "erase" /\ cmd.ragflow
    BY <1>1, <2>1, <2>4 DEF EraseRows, FixtureInv, CommandFits, Cleaning
  <2>6. QED
    BY <1>1, <2>5 DEF FixtureInv, DeletedSoFar
<1>2. QED
  BY <1>1, FixtureInvariant, PTL DEF FixtureSpec, RowsOutliveTheirSpaces
=============================================================================
