------------------------- MODULE EvaluationFixtures -------------------------
(***************************************************************************)
(* The fixtures of one evaluation namespace: project-agent-eval-prepare    *)
(* (cli/evaluation_prepare.py) with prepare_v0 and cleanup_v0              *)
(* (evaluation/fixtures.py) and the datasets they keep at RAGFlow through  *)
(* the adapter (infrastructure/ragflow/adapter.py).                        *)
(*                                                                         *)
(* prepare, verify and cleanup are commands an operator gives one after    *)
(* the other.  What they leave is in three places that no transaction      *)
(* joins: the provider's datasets, the rows and fixture-state.json.  A     *)
(* command may fail or be killed between any two steps.                    *)
(***************************************************************************)
EXTENDS Integers, FiniteSets

CONSTANTS
    NProjects,   \* Len(PROJECT_CODES)
    Spaces,      \* bound: the datasets the provider may ever hold under our names
    Stranger,    \* those of them that somebody else makes
    MaxFaults,   \* bound: commands that fail or are killed, answers and parses lost
    NoId

Projects == 1..NProjects

ASSUME FixtureAssumption ==
    /\ NProjects \in Nat \ {0}
    /\ Stranger \subseteq Spaces
    /\ NoId \notin Spaces \cup Projects
    /\ MaxFaults \in Nat

VARIABLES
    space,     \* space[s]: the dataset at the provider
    rows,      \* the fixture rows, which one transaction writes or deletes
    file,      \* fixture-state.json
    cmd,       \* the command that runs, or the last one
    faults     \* against MaxFaults

fixtureVars == <<space, rows, file, cmd, faults>>

\* scope: whether the description ends in the project's UUID, its code, or is
\* somebody else's.  doc: the corpus document of the project; "mapped" has its
\* metadata and was never handed to the parser.
Space == [project : Projects \cup {NoId}, scope : {"uuid", "code", "other"},
          doc : {"none", "mapped", "queued", "parsed", "failed"}]
NoSpace == [project |-> NoId, scope |-> "other", doc |-> "none"]

Bound == [Projects -> Spaces \cup {NoId}]
Unbound == [i \in Projects |-> NoId]

\* bound: external_space_id; NoId stands for "{namespace}:{code}", which is what
\* a prepare without --with-ragflow stores.
Rows == [there : BOOLEAN, bound : Bound]
\* provider: ragflow_documents is not empty.
File == [there : BOOLEAN, provider : BOOLEAN, bound : Bound]
NoFile == [there |-> FALSE, provider |-> FALSE, bound |-> Unbound]
NoRows == [there |-> FALSE, bound |-> Unbound]

Modes == {"prepare", "verify", "cleanup"}
Ended == {"done", "refused", "failed"}
CommandSteps == {"audit", "find", "create", "commit", "ingest", "parse", "poll",
                 "write", "verify", "check", "delete", "erase", "unlink"}
\* ragflow: --with-ragflow.  recover: --recover-dataset.  i: the project the
\* loop is at.  bound: the knowledge_space_ids of the adapter so far.  listed: the
\* datasets that the audit of this command was shown.
Command == [mode : Modes, ragflow : BOOLEAN, recover : Bound, at : CommandSteps \cup Ended,
            i : 1..NProjects + 1, bound : Bound, listed : SUBSET Spaces]

NewCommand(mode, at) == [mode |-> mode, ragflow |-> FALSE, recover |-> Unbound, at |-> at,
                         i |-> 1, bound |-> Unbound, listed |-> {}]

FixtureTypeOK ==
    /\ space \in [Spaces -> Space]
    /\ rows \in Rows
    /\ file \in File
    /\ cmd \in Command
    /\ faults \in 0..MaxFaults

FixtureInit ==
    /\ space = [s \in Spaces |-> NoSpace]
    /\ rows = NoRows
    /\ file = NoFile
    /\ cmd = NewCommand("verify", "done")
    /\ faults = 0

-----------------------------------------------------------------------------
Idle == cmd.at \in Ended
Goto(at) == cmd' = [cmd EXCEPT !.at = at]
End(at) == cmd' = NewCommand("verify", at)    \* a fresh process comes next
\* The next round of the loop over PROJECT_CODES, or what follows the loop.
Loop(c, again, after) ==
    IF c.i = NProjects THEN [c EXCEPT !.at = after, !.i = 1]
                       ELSE [c EXCEPT !.at = again, !.i = c.i + 1]

(* The provider (external). *)

Live == {s \in Spaces : space[s].project # NoId}
\* The datasets a listing shows under the name ws8-v0-{namespace}-{code}.
Named(i) == {s \in Live : space[s].project = i}
\* An id that nobody holds any more stands for any new one.
Unheld == {s \in Spaces \ Live :
             \A i \in Projects : s \notin {rows.bound[i], file.bound[i], cmd.bound[i]}}
FreshSpaces == Unheld \ Stranger

\* Somebody else makes a dataset under one of our names, at any time.
SomebodyElse ==
    /\ \E s \in Unheld \cap Stranger, i \in Projects :
          space' = [space EXCEPT ![s] = [project |-> i, scope |-> "other", doc |-> "none"]]
    /\ UNCHANGED <<rows, file, cmd, faults>>

\* A queued document is parsed, or the parse fails.
Parse(s) ==
    /\ space[s].doc = "queued"
    /\ \/ space' = [space EXCEPT ![s].doc = "parsed"] /\ UNCHANGED faults
       \/ /\ faults < MaxFaults
          /\ space' = [space EXCEPT ![s].doc = "failed"]
          /\ faults' = faults + 1
    /\ UNCHANGED <<rows, file, cmd>>

\* Between two commands the operator gives an orphan the description that the
\* runbook asks for.
Describe(s) ==
    /\ Idle /\ ~file.there
    /\ s \in Live \ Stranger
    /\ space[s].scope = "code"
    /\ space' = [space EXCEPT ![s].scope = "uuid"]
    /\ UNCHANGED <<rows, file, cmd, faults>>

-----------------------------------------------------------------------------
(* run: the command line and the state file. *)

\* What --recover-dataset may say: ids from a listing of the provider, pairwise
\* different; only prepare has the option.
RecoveryIds(mode) ==
    {r \in [Projects -> Live \cup {NoId}] :
        /\ mode # "prepare" => r = Unbound
        /\ \A i, j \in Projects : r[i] = r[j] /\ i # j => r[i] = NoId}

\* A state with documents of the provider binds every project to a dataset of
\* its own; one without binds none.
verify_fixture_state(f) ==
    /\ f.provider => \A i, j \in Projects : f.bound[i] # NoId /\ (f.bound[i] = f.bound[j] => i = j)
    /\ ~f.provider => f.bound = Unbound

\* The refusals before the database or the provider is touched; NeedsRagflow is
\* the guard for a state file that lists documents of the provider.
NeedsState(mode) == mode \in {"verify", "cleanup"} /\ ~file.there
NeedsRagflowNever(mode, ragflow) == FALSE    \* mutant
NeedsRagflow(mode, ragflow) ==
    file.there /\ file.provider /\ mode \in {"prepare", "cleanup"} /\ ~ragflow
MisplacedRecovery(mode, ragflow, recover) ==
    recover # Unbound /\ (mode # "prepare" \/ ~ragflow \/ file.there)
Refused(mode, ragflow, recover) ==
    \/ file.there /\ ~verify_fixture_state(file)
    \/ NeedsState(mode) \/ NeedsRagflow(mode, ragflow) \/ MisplacedRecovery(mode, ragflow, recover)

FirstStep(mode, ragflow) ==
    CASE mode = "verify" -> "verify"
      [] mode = "cleanup" -> "check"
      [] mode = "prepare" /\ ~ragflow -> "commit"
      [] mode = "prepare" /\ ragflow /\ ~file.there -> "audit"
      [] mode = "prepare" /\ ragflow /\ file.there -> "find"

\* The operator gives a command.
RunCommand(mode, ragflow, recover) ==
    /\ Idle
    /\ \/ Refused(mode, ragflow, recover) /\ End("refused")
       \/ /\ ~Refused(mode, ragflow, recover)
          /\ cmd' = [NewCommand(mode, FirstStep(mode, ragflow)) EXCEPT !.ragflow = ragflow,
                                                                       !.recover = recover]
    /\ UNCHANGED <<space, rows, file, faults>>

\* _audit_existing_provider_spaces.
AuditAcceptsAnyName(r) == \A i \in Projects : Cardinality(Named(i)) <= 1    \* mutant
AuditAccepts(r) ==
    \A i \in Projects :
       /\ Cardinality(Named(i)) <= 1
       /\ (r[i] # NoId) = (Named(i) # {})
       /\ \A s \in Named(i) : s = r[i] /\ space[s].scope = "uuid"

Audit ==
    /\ cmd.at = "audit"
    /\ \/ AuditAccepts(cmd.recover) /\ cmd' = [cmd EXCEPT !.at = "find", !.listed = Live]
       \/ ~AuditAccepts(cmd.recover) /\ End("refused")
    /\ UNCHANGED <<space, rows, file, faults>>

-----------------------------------------------------------------------------
(* prepare_v0. *)

\* ensure_space takes over a dataset of the name, whichever is listed first.
FindSpace ==
    /\ cmd.at = "find"
    /\ \/ \E s \in Named(cmd.i) :
             cmd' = Loop([cmd EXCEPT !.bound[cmd.i] = s], "find", "commit")
       \/ Named(cmd.i) = {} /\ Goto("create")
    /\ UNCHANGED <<space, rows, file, faults>>

\* The POST is repeated when its answer is lost; the provider makes a second
\* dataset of the name, or refuses it.
CreateSpace ==
    /\ cmd.at = "create"
    /\ \/ \E s \in FreshSpaces :
             /\ space' = [space EXCEPT ![s] = [project |-> cmd.i, scope |-> "code", doc |-> "none"]]
             /\ \/ /\ cmd' = Loop([cmd EXCEPT !.bound[cmd.i] = s], "find", "commit")
                   /\ UNCHANGED faults
                \/ /\ faults < MaxFaults
                   /\ faults' = faults + 1
                   /\ UNCHANGED cmd
       \/ /\ Named(cmd.i) # {} \/ FreshSpaces = {}
          /\ End("failed")
          /\ UNCHANGED <<space, faults>>
    /\ UNCHANGED <<rows, file>>

\* One transaction merges every row.
CommitRows ==
    /\ cmd.at = "commit"
    /\ rows' = [there |-> TRUE, bound |-> cmd.bound]
    /\ Goto(IF cmd.ragflow THEN "ingest" ELSE "write")
    /\ UNCHANGED <<space, file, faults>>

\* ingest reuses the document whose metadata matches, in whatever state it is;
\* a new one is uploaded and given its metadata ...
Ingest ==
    /\ cmd.at = "ingest"
    /\ LET s == cmd.bound[cmd.i] IN
          \/ /\ space[s].doc # "none"
             /\ cmd' = Loop(cmd, "ingest", "poll")
             /\ UNCHANGED space
          \/ /\ space[s].doc = "none"
             /\ space' = [space EXCEPT ![s].doc = "mapped"]
             /\ Goto("parse")
    /\ UNCHANGED <<rows, file, faults>>

\* ... and then handed to the parser.
StartParse ==
    /\ cmd.at = "parse"
    /\ space' = [space EXCEPT ![cmd.bound[cmd.i]].doc = "queued"]
    /\ cmd' = Loop(cmd, "ingest", "poll")
    /\ UNCHANGED <<rows, file, faults>>

\* The bounded wait: the state of the document is read every second until it
\* is parsed, has failed, or 300 seconds are over.
GivesUpOnFailure(d) == d = "failed"    \* mutant
GivesUp(d) == d # "parsed"
Poll ==
    /\ cmd.at = "poll"
    /\ LET d == space[cmd.bound[cmd.i]].doc IN
          \/ d = "parsed" /\ cmd' = Loop(cmd, "poll", "write")
          \/ GivesUp(d) /\ End("failed")
    /\ UNCHANGED <<space, rows, file, faults>>

\* The state is checked like one that was read, the recovered ids are compared,
\* and the state file is replaced in one step.
WriteState ==
    LET state == [there |-> TRUE, provider |-> cmd.ragflow, bound |-> cmd.bound]
        accepted == /\ verify_fixture_state(state)
                    /\ \A i \in Projects : cmd.recover[i] # NoId => cmd.bound[i] = cmd.recover[i] IN
    /\ cmd.at = "write"
    /\ IF accepted THEN file' = state /\ End("done")
                   ELSE End("refused") /\ UNCHANGED file
    /\ UNCHANGED <<space, rows, faults>>

-----------------------------------------------------------------------------
(* verify and cleanup. *)

\* _verify_postgres and _verify_provider; the latter keeps one id per name, the
\* last one listed.
VerifyPostgres == rows.there
VerifyProvider(visible) ==
    /\ file.provider
    /\ visible = file.bound
    /\ \A i \in Projects : space[file.bound[i]].doc # "none"

Listings == {v \in Bound : \A i \in Projects : IF Named(i) = {} THEN v[i] = NoId
                                                                ELSE v[i] \in Named(i)}
Verify ==
    /\ cmd.at = "verify"
    /\ \E v \in Listings :
          End(IF VerifyPostgres /\ (cmd.ragflow => VerifyProvider(v)) THEN "done" ELSE "refused")
    /\ UNCHANGED <<space, rows, file, faults>>

CheckRows ==
    /\ cmd.at = "check"
    /\ \/ ~VerifyPostgres /\ End("refused")
       \/ VerifyPostgres /\ Goto(IF cmd.ragflow THEN "delete" ELSE "erase")
    /\ UNCHANGED <<space, rows, file, faults>>

\* delete_owned_space: the dataset of the name has to have the stored id.
OwnSpace(s, i) == s = rows.bound[i]
DeleteSpace ==
    /\ cmd.at = "delete"
    /\ \/ /\ Named(cmd.i) = {}
          /\ cmd' = Loop(cmd, "delete", "erase")
          /\ UNCHANGED space
       \/ \E s \in Named(cmd.i) :
             IF OwnSpace(s, cmd.i)
             THEN /\ space' = [space EXCEPT ![s] = NoSpace]
                  /\ cmd' = Loop(cmd, "delete", "erase")
             ELSE End("refused") /\ UNCHANGED space
    /\ UNCHANGED <<rows, file, faults>>

EraseRows ==
    /\ cmd.at = "erase"
    /\ rows' = NoRows
    /\ Goto("unlink")
    /\ UNCHANGED <<space, file, faults>>

Unlink ==
    /\ cmd.at = "unlink"
    /\ file' = NoFile
    /\ End("done")
    /\ UNCHANGED <<space, rows, faults>>

\* The provider, the database or the process fails.
Stop ==
    /\ ~Idle
    /\ faults < MaxFaults
    /\ faults' = faults + 1
    /\ End("failed")
    /\ UNCHANGED <<space, rows, file>>

CommandStep ==
    \/ Audit \/ FindSpace \/ CreateSpace \/ CommitRows \/ Ingest \/ StartParse
    \/ Poll \/ WriteState \/ Verify \/ CheckRows \/ DeleteSpace \/ EraseRows \/ Unlink

FixtureNext ==
    \/ \E mode \in Modes, ragflow \in BOOLEAN :
          \E recover \in RecoveryIds(mode) : RunCommand(mode, ragflow, recover)
    \/ CommandStep
    \/ Stop
    \/ SomebodyElse
    \/ \E s \in Spaces : Parse(s) \/ Describe(s)

FixtureSpec == FixtureInit /\ [][FixtureNext]_fixtureVars

\* A command that was given runs on; nobody has to give one.
FairFixtureSpec == FixtureSpec /\ WF_fixtureVars(CommandStep)

-----------------------------------------------------------------------------
(* Properties. *)

\* The rows name what the state file names, and verify --with-ragflow accepts
\* it whatever order the provider lists its datasets in.
Verifies ==
    /\ file.there
    /\ VerifyPostgres
    /\ rows.bound = file.bound
    /\ \A v \in Listings : VerifyProvider(v)

\* prepare is idempotent (its help text) even when it is cut short: run again
\* over a namespace that verifies, no step of it, nor stopping after any step,
\* leaves one that does not (fixtures.py prepare_v0, evaluation_prepare.py 590-609).
PrepareKeepsWhatVerifies ==
    [][Verifies /\ cmd.mode = "prepare" /\ ~SomebodyElse => Verifies']_fixtureVars

\* A dataset that was there when the audit of a prepare looked, an orphan of a
\* prepare that was cut short or somebody else's, is taken over only if the operator
\* named it for its project (evaluation_prepare.py 95-156).  One that appears between
\* the audit and the listing of ensure_space is outside of this promise.
AdoptsOnlyWhatWasNamed ==
    cmd.mode = "prepare" =>
        \A i \in Projects : cmd.bound[i] \in cmd.listed => cmd.bound[i] = cmd.recover[i]

\* Only what is owned is deleted (the help text of cleanup), because prepare rejects
\* datasets that are not (docs/runbooks/ws8-evaluation-fixtures.md).
CleanupDeletesOnlyOwned == [][Live \cap Stranger \subseteq Live']_fixtureVars

\* The rows are the only record of which dataset to delete: a cleanup under a
\* state file with provider documents, or one that talks to the provider, erases
\* them only when the datasets they name are gone (cleanup_v0, and the guard of
\* run that demands --with-ragflow).
RowsOutliveTheirSpaces ==
    [][rows.there /\ ~rows'.there /\ (cmd.ragflow \/ file.provider) =>
          \A i \in Projects : rows.bound[i] \notin Live]_fixtureVars

\* Every command ends, the wait for a document that nobody handed to the parser
\* included (fixtures.py 136-152, adapter.py 188).
EveryCommandEnds == []<>Idle
=============================================================================
