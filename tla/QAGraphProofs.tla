--------------------------- MODULE QAGraphProofs ---------------------------
(***************************************************************************)
(* Proofs about QAGraph, for any number of chunks, executions and changes  *)
(* and any catalogue.                                                      *)
(***************************************************************************)
EXTENDS QAGraph, FiniteSetTheorems, TLAPS

\* The committed rounds never pass the counter in the checkpoint, and those of the
\* open session never pass the counter of the graph.  The one revision is left
\* when the graph is about to revise.
RoundsCounted ==
    /\ db.rounds <= saved.round
    /\ saved.round <= state.round
    /\ saved.revision <= state.revision
    /\ at \notin Resting \cup {"raised"} => session.rounds <= state.round
    /\ at = "revise_answer" => state.revision = 0

QAInv == TypeOK /\ RoundsCounted

-----------------------------------------------------------------------------
\* What an execution starts with is a state (the input of the graph over the
\* counters of the checkpoint).
LEMMA StartedIsState ==
    ASSUME NEW c \in Counters
    PROVE  /\ Started(c) \in State
           /\ Started(c).round = c.round
           /\ Started(c).revision = c.revision
  BY DEF Started, State, Counters, Reasons, NoDraft

\* The governed pack consists of candidates.
LEMMA PackIsSelection ==
    ASSUME NEW f \in [Chunks -> Fact], NEW C \in SUBSET Chunks
    PROVE  Pack(f, C) \subseteq C
  BY DEF Pack, Resolved, Unresolved, Top

\* What an accepted draft cites are chunks of the pack.
LEMMA CitedIsFrozen ==
    ASSUME TypeOK, GuardAccepts, NEW l \in state.draft.cited \cup state.draft.disclosed
    PROVE  Cited(l) \in state.pack
  <1>1. l \in LabelsOf(facts, state.pack, state.pack)
    BY DEF GuardAccepts, Accepts
  <1>2. PICK c \in state.pack : Position(facts, state.pack, c) = l
    BY <1>1 DEF LabelsOf
  <1> QED
    BY <1>2 DEF Cited, AtLabel

-----------------------------------------------------------------------------
\* The invariant holds at the start (no execution has happened).
LEMMA QAInitInv == QAInit => QAInv
  <1> SUFFICES ASSUME QAInit PROVE QAInv
    OBVIOUS
  <1>1. saved \in Counters
    BY QAAssumption DEF QAInit
  <1>2. TypeOK
    BY <1>1, StartedIsState, QAAssumption, EvidenceAssumption
    DEF QAInit, TypeOK, Resting, Rows, NoRows, Reasons, Chunks
  <1>3. RoundsCounted
    BY <1>1, StartedIsState DEF QAInit, RoundsCounted, NoRows, Resting, Counters
  <1> QED
    BY <1>2, <1>3 DEF QAInv

\* A node that only moves on keeps the invariant when its new state has the round
\* of the old one and a revision the type allows.
LEMMA NodeKeepsInv ==
    ASSUME QAInv, NEW n \in Nodes, NEW next \in Nodes, NEW s \in State, Node(n, next, s),
           s.round = state.round, s.revision >= state.revision,
           next = "revise_answer" => s.revision = 0
    PROVE  QAInv'
  <1>1. TypeOK'
    BY DEF QAInv, TypeOK, Node, worldVars
  <1>2. RoundsCounted'
    <2>1. state' = s /\ at' = next /\ UNCHANGED <<saved, session, db>> /\ at = n
      BY DEF Node
    <2>2. n \notin Resting \cup {"raised"}
      BY DEF Nodes, Resting
    <2> QED
      BY <2>1, <2>2 DEF QAInv, TypeOK, RoundsCounted, State, Counters, Rows
  <1> QED
    BY <1>1, <1>2 DEF QAInv

\* The steps of the job around the graph: an execution counts on from the checkpoint,
\* a failure keeps counters between those of the checkpoint and those of the graph,
\* and the rows are committed together with the counters of the graph.
LEMMA JobKeepsInv ==
    ASSUME QAInv,
           \/ Execute \/ ExecuteDenied \/ PrepareFails \/ Fail \/ Die
           \/ Commit \/ PersistOutcome \/ PersistFails \/ HandleFailure
    PROVE  QAInv'
  <1> USE QAAssumption, EvidenceAssumption
  <1>1. saved \in Counters /\ state \in State
    BY DEF QAInv, TypeOK
  <1>2. CASE Execute
    <2>1. TypeOK'
      BY <1>1, <1>2, StartedIsState
      DEF Execute, MayExecute, FromCheckpoint, QAInv, TypeOK, worldVars, Nodes
    <2>2. RoundsCounted'
      BY <1>1, <1>2, StartedIsState
      DEF Execute, FromCheckpoint, QAInv, TypeOK, RoundsCounted, Counters, Rows
    <2> QED
      BY <2>1, <2>2 DEF QAInv
  <1>3. CASE ExecuteDenied \/ PrepareFails \/ HandleFailure
    <2>1. at' \in Resting \cup {"raised"} /\ UNCHANGED <<state, saved, session, db>>
      BY <1>3 DEF ExecuteDenied, PrepareFails, HandleFailure, Resting
    <2>2. execution' \in 0..MaxExecutions
      BY <1>3 DEF ExecuteDenied, PrepareFails, HandleFailure, MayExecute, QAInv, TypeOK
    <2>3. outcome' \in {"RUNNING", "SUCCEEDED", "REFUSED", "FAILED"}
      BY <1>3 DEF ExecuteDenied, PrepareFails, HandleFailure, QAInv, TypeOK
    <2>4. UNCHANGED worldVars
      BY <1>3 DEF ExecuteDenied, PrepareFails, HandleFailure
    <2>5. TypeOK'
      BY <2>1, <2>2, <2>3, <2>4 DEF QAInv, TypeOK, worldVars
    <2>6. RoundsCounted'
      BY <2>1 DEF QAInv, RoundsCounted, Resting
    <2> QED
      BY <2>5, <2>6 DEF QAInv
  <1>4. CASE Fail \/ Die
    <2>1. PICK next \in {"raised", "dead"} : Interrupted(next)
      BY <1>4 DEF Fail, Die
    <2>2. saved' \in Counters /\ saved.round <= saved'.round
      BY <1>1, <2>1 DEF Interrupted, State, Counters
    <2>3. state' = Started(saved') /\ at' = next /\ session' = db /\ db' = db
      BY <2>1 DEF Interrupted
    <2>4. /\ state' \in State
          /\ state'.round = saved'.round
          /\ state'.revision = saved'.revision
      BY <2>2, <2>3, StartedIsState
    <2>5. TypeOK'
      BY <2>1, <2>2, <2>3, <2>4 DEF Interrupted, QAInv, TypeOK, worldVars, Resting
    <2>6. RoundsCounted'
      BY <1>1, <2>2, <2>3, <2>4 DEF QAInv, TypeOK, RoundsCounted, Counters, Rows, Resting
    <2> QED
      BY <2>5, <2>6 DEF QAInv
  <1>5. CASE Commit
    <2>1. TypeOK'
      BY <1>1, <1>5 DEF Commit, QAInv, TypeOK, worldVars, State, Counters
    <2>2. RoundsCounted'
      BY <1>1, <1>5 DEF Commit, QAInv, TypeOK, RoundsCounted, State, Counters, Rows, Resting
    <2> QED
      BY <2>1, <2>2 DEF QAInv
  <1>6. CASE PersistOutcome \/ PersistFails
    <2>1. state' = Started(saved) /\ at' \in Resting /\ UNCHANGED <<saved, session, db>>
      BY <1>6 DEF PersistOutcome, PersistFails, Resting
    <2>2. /\ state' \in State
          /\ state'.round = saved.round
          /\ state'.revision = saved.revision
      BY <1>1, <2>1, StartedIsState
    <2>3. TypeOK'
      BY <1>6, <2>1, <2>2 DEF PersistOutcome, PersistFails, QAInv, TypeOK, worldVars
    <2>4. RoundsCounted'
      BY <1>1, <2>1, <2>2 DEF QAInv, TypeOK, RoundsCounted, Counters, Rows, Resting
    <2> QED
      BY <2>3, <2>4 DEF QAInv
  <1> QED
    BY <1>2, <1>3, <1>4, <1>5, <1>6

-----------------------------------------------------------------------------
\* The nodes before the answer: only retrieve counts a round, in the graph and in
\* the session at once, and only below the limit.
LEMMA RetrievalKeepsInv ==
    ASSUME QAInv,
           \/ load_prompt \/ analyze_query \/ select_project \/ resolve_scope
           \/ resolve_identifiers \/ retrieve \/ grade_retrieval
    PROVE  QAInv'
  <1>1. state \in State /\ published \subseteq Chunks /\ query.hits \subseteq Chunks
    BY DEF QAInv, TypeOK
  <1>2. ASSUME NEW r \in Reasons
        PROVE  /\ WithError(r) \in State
               /\ WithError(r).round = state.round
               /\ WithError(r).revision = state.revision
    BY <1>1, <1>2 DEF WithError, State
  <1> DEFINE Scoped == [state EXCEPT !.scope = AuthorizedVersions]
             Planned == [state EXCEPT !.plan = Constrained]
             NoBundle == save_evidence_bundle(WithError("NO_AUTHORIZED_EVIDENCE"), {})
  <1>3. Scoped \in State /\ Scoped.round = state.round /\ Scoped.revision = state.revision
    BY <1>1 DEF AuthorizedVersions, State
  <1>4. Planned \in State /\ Planned.round = state.round /\ Planned.revision = state.revision
    <2>1. Constrained \subseteq Chunks
      BY <1>1 DEF Constrained
    <2> QED
      BY <1>1, <2>1 DEF State
  <1>5. NoBundle \in State /\ NoBundle.round = state.round /\ NoBundle.revision = state.revision
    BY <1>1 DEF WithError, save_evidence_bundle, State, Reasons
  <1>6. state.revision >= state.revision
    BY <1>1 DEF State
  <1>7. CASE load_prompt \/ analyze_query
    BY <1>1, <1>6, <1>7, NodeKeepsInv DEF load_prompt, analyze_query, Nodes
  <1>8. CASE select_project
    <2>1. "PROJECT_ACCESS_DENIED" \in Reasons /\ "PROJECT_MISMATCH" \in Reasons
      BY DEF Reasons
    <2> QED
      BY <1>1, <1>2, <1>6, <1>8, <2>1, NodeKeepsInv DEF select_project, Nodes
  <1>9. CASE resolve_scope
    BY <1>3, <1>6, <1>9, NodeKeepsInv DEF resolve_scope, Nodes
  <1>10. CASE resolve_identifiers
    BY <1>4, <1>6, <1>10, NodeKeepsInv DEF resolve_identifiers, Nodes
  <1>11. CASE grade_retrieval
    <2>1. "INSUFFICIENT_EVIDENCE" \in Reasons
      BY DEF Reasons
    <2> QED
      BY <1>1, <1>2, <1>6, <1>11, <2>1, NodeKeepsInv DEF grade_retrieval, Nodes
  <1>12. CASE retrieve
    <2>1. "RETRIEVAL_ROUND_LIMIT" \in Reasons
      BY DEF Reasons
    <2>2. CASE Node("retrieve", "refuse", WithError("RETRIEVAL_ROUND_LIMIT"))
      BY <1>2, <1>6, <2>1, <2>2, NodeKeepsInv DEF Nodes
    <2>3. CASE Node("retrieve", "refuse", NoBundle)
      BY <1>5, <1>6, <2>3, NodeKeepsInv DEF Nodes
    <2>4. CASE /\ at = "retrieve"
               /\ ~AtLimit
               /\ \E found \in SUBSET Chunks :
                     state' = save_evidence_bundle([state EXCEPT !.round = @ + 1, !.error = "none"],
                                                   Postfiltered(Provided(found)))
               /\ session' = increment_retrieval_rounds
               /\ at' = "grade_retrieval"
               /\ UNCHANGED <<worldVars, execution, saved, db, outcome>>
      <3>1. state.round \in 0..1
        BY <1>1, <2>4 DEF AtLimit, State
      <3>2. PICK found \in SUBSET Chunks :
               state' = save_evidence_bundle([state EXCEPT !.round = @ + 1, !.error = "none"],
                                             Postfiltered(Provided(found)))
        BY <2>4
      <3>3. Postfiltered(Provided(found)) \in SUBSET Chunks
        BY DEF Postfiltered, Provided
      <3>4. state' \in State /\ state'.round = state.round + 1 /\ state'.revision = state.revision
        <4> DEFINE r == state.round + 1
                   b == Postfiltered(Provided(found))
        <4>1. r \in 0..2 /\ "none" \in Reasons
          BY <3>1 DEF Reasons
        <4>2. state' = [state EXCEPT !.round = r, !.error = "none", !.bundle = b]
          BY <1>1, <3>2 DEF save_evidence_bundle, State
        <4>3. r = state.round + 1 /\ b \in SUBSET Chunks
          BY <3>3
        <4> HIDE DEF r, b
        <4> QED
          BY <1>1, <4>1, <4>2, <4>3 DEF State
      <3>5. session' \in Rows /\ session'.rounds = session.rounds + 1
        BY <2>4 DEF increment_retrieval_rounds, QAInv, TypeOK, Rows
      <3>6. TypeOK'
        BY <2>4, <3>4, <3>5 DEF QAInv, TypeOK, worldVars, Nodes
      <3>7. RoundsCounted'
        BY <1>1, <2>4, <3>1, <3>4, <3>5
        DEF QAInv, TypeOK, RoundsCounted, Counters, Rows, State, Resting
      <3> QED
        BY <3>6, <3>7 DEF QAInv
    <2> QED
      BY <1>12, <2>2, <2>3, <2>4 DEF retrieve
  <1> QED
    BY <1>7, <1>8, <1>9, <1>10, <1>11, <1>12

\* The nodes of the answer: the guard sends a draft to revise_answer only while the
\* revision is unused, which is the one place where revision_count grows.
LEMMA AnswerKeepsInv ==
    ASSUME QAInv,
           \/ govern_evidence \/ generate_answer \/ citation_guard
           \/ revise_answer \/ refuse \/ clarify_project
    PROVE  QAInv'
  <1>1. /\ state \in State /\ session \in Rows /\ facts \in [Chunks -> Fact]
        /\ state.revision >= state.revision
    BY QAAssumption DEF QAInv, TypeOK, State
  <1>2. CASE govern_evidence
    <2> DEFINE current == StillCurrent(state.bundle)
               pack == Pack(facts, current)
               Governed == [state EXCEPT !.current = current, !.pack = pack]
               Refused == WithError("NO_GOVERNED_EVIDENCE")
    <2>1. current \subseteq Chunks
      BY <1>1 DEF StillCurrent, State
    <2>2. pack \subseteq Chunks
      BY <1>1, <2>1, PackIsSelection
    <2>3. Governed \in State /\ Governed.round = state.round /\ Governed.revision = state.revision
      <3> HIDE DEF current, pack
      <3> QED
        BY <1>1, <2>1, <2>2 DEF State
    <2>4. Refused \in State /\ Refused.round = state.round /\ Refused.revision = state.revision
      BY <1>1 DEF WithError, State, Reasons
    <2>5. \/ Node("govern_evidence", "refuse", Refused)
          \/ Node("govern_evidence", "generate_answer", Governed)
      BY <1>2 DEF govern_evidence
    <2> HIDE DEF Governed, Refused
    <2> QED
      BY <1>1, <2>3, <2>4, <2>5, NodeKeepsInv DEF Nodes
  <1>3. CASE generate_answer
    <2>1. PICK d \in Draft :
             Node("generate_answer", "citation_guard", [state EXCEPT !.draft = d])
      BY <1>3 DEF generate_answer
    <2> DEFINE s == [state EXCEPT !.draft = d]
    <2>2. s \in State /\ s.round = state.round /\ s.revision = state.revision
      BY <1>1 DEF State
    <2> HIDE DEF s
    <2> QED
      BY <1>1, <2>1, <2>2, NodeKeepsInv DEF Nodes, s
  <1>4. CASE citation_guard
    <2> DEFINE Undrafted == [WithError("CITATION_GUARD_RETRY") EXCEPT !.draft = NoDraft]
               Refused == [WithError("CITATION_GUARD_FAILED") EXCEPT !.draft = NoDraft]
    <2>1. /\ Undrafted \in State /\ Undrafted.round = state.round
          /\ Undrafted.revision = state.revision
      BY <1>1 DEF WithError, State, Reasons
    <2>2. Refused \in State /\ Refused.round = state.round /\ Refused.revision = state.revision
      BY <1>1 DEF WithError, State, Reasons
    <2>3. CASE /\ GuardAccepts
               /\ session' = [session EXCEPT
                     !.answer = "grounded", !.reason = "none",
                     !.citations = {Cited(l) : l \in state.draft.cited \cup state.draft.disclosed}]
               /\ at = "citation_guard"
               /\ at' = "end"
               /\ state' = [state EXCEPT !.draft = NoDraft, !.route = "answered"]
               /\ UNCHANGED <<worldVars, execution, saved, db, outcome>>
      <3>1. {Cited(l) : l \in state.draft.cited \cup state.draft.disclosed} \subseteq Chunks
        <4>1. state.pack \subseteq Chunks
          BY <1>1 DEF State
        <4> QED
          BY <2>3, <4>1, CitedIsFrozen DEF QAInv
      <3>2. session' \in Rows /\ session'.rounds = session.rounds
        BY <1>1, <2>3, <3>1 DEF Rows, Reasons
      <3>3. state' \in State /\ state'.round = state.round /\ state'.revision = state.revision
        BY <1>1, <2>3 DEF State
      <3>4. TypeOK'
        BY <2>3, <3>2, <3>3 DEF QAInv, TypeOK, worldVars
      <3>5. RoundsCounted'
        BY <2>3, <3>2, <3>3 DEF QAInv, RoundsCounted, Resting
      <3> QED
        BY <3>4, <3>5 DEF QAInv
    <2>4. CASE state.revision < 1 /\ Node("citation_guard", "revise_answer", Undrafted)
      <3>1. state.revision = 0
        BY <1>1, <2>4 DEF State
      <3> HIDE DEF Undrafted
      <3> QED
        BY <1>1, <2>1, <2>4, <3>1, NodeKeepsInv DEF Nodes
    <2>5. CASE Node("citation_guard", "refuse", Refused)
      <3> HIDE DEF Refused
      <3> QED
        BY <1>1, <2>2, <2>5, NodeKeepsInv DEF Nodes
    <2> QED
      BY <1>4, <2>3, <2>4, <2>5 DEF citation_guard
  <1>5. CASE revise_answer
    <2>1. PICK d \in Draft :
             Node("revise_answer", "citation_guard",
                  [state EXCEPT !.draft = d, !.revision = RevisionNo, !.error = "none"])
      BY <1>5 DEF revise_answer
    <2> DEFINE s == [state EXCEPT !.draft = d, !.revision = RevisionNo, !.error = "none"]
    <2>2. state.revision = 0
      BY <2>1 DEF Node, QAInv, RoundsCounted
    <2>3. s \in State /\ s.round = state.round /\ s.revision >= state.revision
      <3>1. RevisionNo = 1 /\ "none" \in Reasons
        BY <2>2 DEF RevisionNo, Reasons
      <3>2. s = [state EXCEPT !.draft = d, !.revision = 1, !.error = "none"]
        BY <3>1
      <3>3. 1 \in 0..1 /\ 1 >= 0 /\ d \in Draft \cup {NoDraft}
        OBVIOUS
      <3> HIDE DEF s
      <3> QED
        BY <1>1, <2>2, <3>1, <3>2, <3>3 DEF State
    <2>4. Node("revise_answer", "citation_guard", s)
      BY <2>1
    <2> HIDE DEF s
    <2> QED
      BY <2>3, <2>4, NodeKeepsInv DEF Nodes
  <1>6. CASE refuse \/ clarify_project
    <2>1. PICK n \in {"refuse", "clarify_project"}, kind \in {"refusal", "clarification"},
               reason \in Reasons : EndWith(n, kind, reason)
      <3>1. state.error \in Reasons /\ "PROJECT_CLARIFICATION_REQUIRED" \in Reasons
        BY <1>1 DEF State, Reasons
      <3> QED
        BY <1>6, <3>1 DEF refuse, clarify_project
    <2>2. session' \in Rows /\ session'.rounds = session.rounds
      BY <1>1, <2>1 DEF EndWith, save_answer, Rows
    <2>3. state' \in State /\ state'.round = state.round /\ state'.revision = state.revision
      BY <1>1, <2>1 DEF EndWith, State
    <2>4. TypeOK'
      BY <2>1, <2>2, <2>3 DEF EndWith, QAInv, TypeOK, worldVars
    <2>5. RoundsCounted'
      BY <2>1, <2>2, <2>3 DEF EndWith, QAInv, RoundsCounted, Resting
    <2> QED
      BY <2>4, <2>5 DEF QAInv
  <1> QED
    BY <1>2, <1>3, <1>4, <1>5, <1>6

\* What happens around the run does not touch it.
LEMMA WorldKeepsInv ==
    ASSUME QAInv, EndMembership \/ \E c \in Chunks : ChangeDocument(c)
    PROVE  QAInv'
  <1>1. changes' \in 0..MaxChanges
    BY QAAssumption DEF QAInv, TypeOK, EndMembership, ChangeDocument
  <1>2. published' \subseteq Chunks /\ member' \in BOOLEAN
    BY DEF QAInv, TypeOK, EndMembership, ChangeDocument
  <1>3. UNCHANGED <<facts, query, execution, at, state, saved, session, db, outcome>>
    BY DEF EndMembership, ChangeDocument
  <1>4. TypeOK'
    BY <1>1, <1>2, <1>3 DEF QAInv, TypeOK
  <1>5. RoundsCounted'
    BY <1>3 DEF QAInv, RoundsCounted
  <1> QED
    BY <1>4, <1>5 DEF QAInv

-----------------------------------------------------------------------------
\* The invariant holds in every state of a run.
THEOREM QAInvariant == QASpec => []QAInv
  <1>1. QAInv /\ [QANext]_qaVars => QAInv'
    <2> SUFFICES ASSUME QAInv, [QANext]_qaVars PROVE QAInv'
      OBVIOUS
    <2>1. CASE JobStep
      BY <2>1, JobKeepsInv, RetrievalKeepsInv, AnswerKeepsInv DEF JobStep, GraphStep
    <2>2. CASE EndMembership \/ \E c \in Chunks : ChangeDocument(c)
      BY <2>2, WorldKeepsInv
    <2>3. CASE UNCHANGED qaVars
      BY <2>3 DEF qaVars, worldVars, QAInv, TypeOK, RoundsCounted
    <2> QED
      BY <2>1, <2>2, <2>3 DEF QANext
  <1> QED
    BY <1>1, QAInitInv, PTL DEF QASpec

\* Every component of the graph keeps its type; with it, the counters of AgentState
\* never leave 0..2 and 0..1, however executions and failures alternate.
THEOREM QATypeCorrect == QASpec => []TypeOK
  <1>1. QAInv => TypeOK
    BY DEF QAInv
  <1> QED
    BY <1>1, QAInvariant, PTL

\* agent_runs.retrieval_rounds never exceeds the limit of the retrieve node, for
\* any number of executions of the job.
THEOREM QARoundsBounded == QASpec => []RoundsNeverExceedTwo
  <1>1. QAInv => RoundsNeverExceedTwo
    BY DEF QAInv, TypeOK, RoundsCounted, RoundsNeverExceedTwo, Counters, Rows
  <1> QED
    BY <1>1, QAInvariant, PTL

-----------------------------------------------------------------------------
\* Where the citations of an answer come from.  What is retrieved is in the scope;
\* what is governed is retrieved and current; and a draft only reaches the guard
\* over a governed bundle, citing something.
EvidenceTraced ==
    /\ at \in {"grade_retrieval", "govern_evidence"} => state.bundle \subseteq state.scope
    /\ at \in {"generate_answer", "citation_guard", "revise_answer"} =>
          state.pack \subseteq state.current /\ state.current \subseteq state.scope
    /\ at = "citation_guard" => state.draft.cited # {}
    /\ CitesGovernedEvidence

\* Before it reaches a node with evidence, and around the graph, a run has nothing
\* to trace.
LEMMA NothingToTrace ==
    ASSUME at' \notin {"grade_retrieval", "govern_evidence", "generate_answer",
                       "citation_guard", "revise_answer", "end"}
    PROVE  EvidenceTraced'
  BY DEF EvidenceTraced, CitesGovernedEvidence

\* Every step keeps the trace.
LEMMA TraceStep ==
    ASSUME TypeOK, EvidenceTraced, [QANext]_qaVars
    PROVE  EvidenceTraced'
  <1>1. state \in State /\ session \in Rows /\ facts \in [Chunks -> Fact]
    BY QAAssumption DEF TypeOK
  <1>2. CASE \/ Execute \/ ExecuteDenied \/ PrepareFails \/ Fail \/ Die \/ Commit
             \/ PersistOutcome \/ PersistFails \/ HandleFailure \/ load_prompt \/ analyze_query
             \/ select_project \/ resolve_scope \/ resolve_identifiers
    BY <1>2, NothingToTrace
    DEF Execute, ExecuteDenied, PrepareFails, Fail, Die, Interrupted, Commit, PersistOutcome,
        PersistFails, HandleFailure, load_prompt, analyze_query, select_project, resolve_scope,
        resolve_identifiers, Node
  <1>3. CASE \/ EndMembership \/ UNCHANGED qaVars
             \/ \E c \in Chunks : ChangeDocument(c)
    <2>1. UNCHANGED <<at, state, session>>
      BY <1>3 DEF EndMembership, ChangeDocument, qaVars
    <2> QED
      BY <2>1 DEF EvidenceTraced, CitesGovernedEvidence
  <1>4. CASE retrieve
    <2>1. CASE at' = "refuse"
      BY <2>1, NothingToTrace
    <2>2. CASE at' # "refuse"
      <3>1. PICK found \in SUBSET Chunks :
               state' = save_evidence_bundle([state EXCEPT !.round = @ + 1, !.error = "none"],
                                             Postfiltered(Provided(found)))
        BY <1>4, <2>2 DEF retrieve, Node
      <3>2. at' = "grade_retrieval"
        BY <1>4, <2>2 DEF retrieve, Node
      <3> DEFINE b == Postfiltered(Provided(found))
      <3>3. b \subseteq state.scope
        BY DEF Postfiltered
      <3> HIDE DEF b
      <3>4. state'.bundle = b /\ state'.scope = state.scope
        BY <1>1, <3>1 DEF save_evidence_bundle, State, b
      <3> QED
        BY <3>2, <3>3, <3>4 DEF EvidenceTraced, CitesGovernedEvidence
    <2> QED
      BY <2>1, <2>2
  <1>5. CASE grade_retrieval
    <2>1. CASE at' = "govern_evidence"
      <3>1. at = "grade_retrieval" /\ state' = state
        BY <1>5, <2>1 DEF grade_retrieval, Node
      <3> QED
        BY <2>1, <3>1 DEF EvidenceTraced, CitesGovernedEvidence
    <2>2. CASE at' \in {"retrieve", "refuse"}
      BY <2>2, NothingToTrace
    <2> QED
      BY <1>5, <2>1, <2>2 DEF grade_retrieval, Node
  <1>6. CASE govern_evidence
    <2> DEFINE current == StillCurrent(state.bundle)
               pack == Pack(facts, current)
    <2>1. CASE at' = "refuse"
      BY <2>1, NothingToTrace
    <2>2. CASE at' # "refuse"
      <3>1. /\ at = "govern_evidence"
            /\ at' = "generate_answer"
            /\ state' = [state EXCEPT !.current = current, !.pack = pack]
        BY <1>6, <2>2 DEF govern_evidence, Node
      <3>2. current \subseteq state.bundle /\ current \subseteq Chunks
        BY <1>1 DEF StillCurrent, State
      <3>3. pack \subseteq current
        BY <1>1, <3>2, PackIsSelection
      <3> HIDE DEF current, pack
      <3>4. state'.current = current /\ state'.pack = pack /\ state'.scope = state.scope
        BY <1>1, <3>1 DEF State
      <3> QED
        BY <3>1, <3>2, <3>3, <3>4 DEF EvidenceTraced, CitesGovernedEvidence
    <2> QED
      BY <2>1, <2>2
  <1>7. CASE generate_answer \/ revise_answer
    <2>1. /\ at \in {"generate_answer", "revise_answer"}
          /\ at' = "citation_guard"
          /\ \E d \in Draft :
                \/ state' = [state EXCEPT !.draft = d]
                \/ state' = [state EXCEPT !.draft = d, !.revision = RevisionNo, !.error = "none"]
      BY <1>7 DEF generate_answer, revise_answer, Node
    <2>2. /\ state'.pack = state.pack /\ state'.current = state.current
          /\ state'.scope = state.scope /\ state'.draft \in Draft
      BY <1>1, <2>1 DEF State
    <2>3. state'.draft.cited # {}
      BY <2>2 DEF Draft
    <2> QED
      BY <2>1, <2>2, <2>3 DEF EvidenceTraced, CitesGovernedEvidence
  <1>8. CASE citation_guard
    <2>1. at = "citation_guard"
      BY <1>8 DEF citation_guard
    <2>2. CASE at' = "refuse"
      BY <2>2, NothingToTrace
    <2>3. CASE at' = "revise_answer"
      <3>1. state' = [WithError("CITATION_GUARD_RETRY") EXCEPT !.draft = NoDraft]
        BY <1>8, <2>3 DEF citation_guard, Node
      <3>2. /\ state'.pack = state.pack /\ state'.current = state.current
            /\ state'.scope = state.scope
        BY <1>1, <3>1 DEF WithError, State
      <3> QED
        BY <2>1, <2>3, <3>2 DEF EvidenceTraced, CitesGovernedEvidence
    <2>4. CASE at' = "end"
      <3> DEFINE cites == {Cited(l) : l \in state.draft.cited \cup state.draft.disclosed}
      <3>1. /\ GuardAccepts
            /\ session' = [session EXCEPT !.answer = "grounded", !.reason = "none",
                                          !.citations = cites]
            /\ state' = [state EXCEPT !.draft = NoDraft, !.route = "answered"]
        BY <1>8, <2>4 DEF citation_guard, Node
      <3>2. cites \subseteq state.pack
        BY <3>1, CitedIsFrozen
      <3>3. cites # {}
        BY <2>1 DEF EvidenceTraced
      <3> HIDE DEF cites
      <3>4. /\ session'.citations = cites
            /\ state'.current = state.current /\ state'.scope = state.scope
        BY <1>1, <3>1 DEF State, Rows
      <3> QED
        BY <2>1, <2>4, <3>2, <3>3, <3>4 DEF EvidenceTraced, CitesGovernedEvidence
    <2> QED
      BY <1>8, <2>2, <2>3, <2>4 DEF citation_guard, Node
  <1>9. CASE refuse \/ clarify_project
    <2>1. at' = "end" /\ state'.route \in {"refusal", "clarification"}
      BY <1>1, <1>9 DEF refuse, clarify_project, EndWith, State
    <2> QED
      BY <2>1 DEF EvidenceTraced, CitesGovernedEvidence
  <1> QED
    BY <1>2, <1>3, <1>4, <1>5, <1>6, <1>7, <1>8, <1>9 DEF QANext, JobStep, GraphStep

\* A grounded answer cites only versions that the user was authorized for and that
\* governance found current, whatever the provider returns, the model drafts and
\* the documents' owners do meanwhile.
THEOREM QACitesGovernedEvidence == QASpec => []CitesGovernedEvidence
  <1>1. QAInit => EvidenceTraced
    BY DEF QAInit, EvidenceTraced, CitesGovernedEvidence
  <1>2. TypeOK /\ EvidenceTraced /\ [QANext]_qaVars => EvidenceTraced'
    BY TraceStep
  <1>3. EvidenceTraced => CitesGovernedEvidence
    BY DEF EvidenceTraced
  <1> QED
    BY <1>1, <1>2, <1>3, QATypeCorrect, PTL DEF QASpec

-----------------------------------------------------------------------------
\* The labels E1, E2, ... of a bundle tell its chunks apart: what sorts before
\* another chunk has a smaller position.
LEMMA EarlierHasSmallerPosition ==
    ASSUME NEW f \in [Chunks -> Fact], NEW P \in SUBSET Chunks,
           NEW c \in P, NEW d \in P, Before(f, c, d)
    PROVE  Position(f, P, c) < Position(f, P, d)
  <1> DEFINE C == {e \in P : Before(f, e, c)}
             D == {e \in P : Before(f, e, d)}
  <1>1. IsFiniteSet(P)
    <2>1. IsFiniteSet(Chunks)
      BY EvidenceAssumption, FS_Interval DEF Chunks
    <2> QED
      BY <2>1, FS_Subset
  <1>2. IsFiniteSet(C) /\ IsFiniteSet(D)
    BY <1>1, FS_Subset
  <1>3. \A e \in P : f[e].rank \in Ranks /\ e \in Int
    BY EvidenceAssumption DEF Fact, Chunks
  <1>4. C \subseteq D
    BY <1>3 DEF Before, Ranks
  <1>5. c \in D /\ c \notin C
    BY <1>3 DEF Before, Ranks
  <1> HIDE DEF C, D
  <1>6. Cardinality(C) \in Nat /\ Cardinality(D) \in Nat
    BY <1>2, FS_CardinalityType
  <1>7. Cardinality(C) <= Cardinality(D) /\ Cardinality(C) # Cardinality(D)
    BY <1>2, <1>4, <1>5, FS_Subset
  <1>8. Cardinality(C) < Cardinality(D)
    BY <1>6, <1>7
  <1> QED
    BY <1>6, <1>8 DEF Position, C, D

\* The chunk at the label of a chunk is that chunk.
LEMMA LabelsAreUnique ==
    ASSUME NEW f \in [Chunks -> Fact], NEW P \in SUBSET Chunks, NEW d \in P
    PROVE  AtLabel(f, P, Position(f, P, d)) = d
  <1>1. PICK c \in P : /\ c = AtLabel(f, P, Position(f, P, d))
                       /\ Position(f, P, c) = Position(f, P, d)
    BY DEF AtLabel
  <1>2. ASSUME c # d PROVE FALSE
    <2>1. Before(f, c, d) \/ Before(f, d, c)
      BY <1>2, EvidenceAssumption DEF Before, Fact, Ranks, Chunks
    <2>2. Position(f, P, c) < Position(f, P, d) \/ Position(f, P, d) < Position(f, P, c)
      BY <2>1, EarlierHasSmallerPosition
    <2>3. Position(f, P, c) \in Int
      <3>1. IsFiniteSet(Chunks)
        BY EvidenceAssumption, FS_Interval DEF Chunks
      <3>2. IsFiniteSet({e \in P : Before(f, e, c)})
        BY <3>1, FS_Subset
      <3> QED
        BY <3>2, FS_CardinalityType DEF Position
    <2> QED
      BY <1>1, <2>2, <2>3
  <1> QED
    BY <1>1, <1>2

\* A chunk of the pack that another candidate contradicts is of the best rank; if
\* the other has that rank too, the two are an unresolved conflict of the pack.
LEMMA PackIsFair ==
    ASSUME NEW f \in [Chunks -> Fact], NEW C \in SUBSET Chunks,
           NEW c \in Pack(f, C), NEW d \in C, Contradict(f, c, d)
    PROVE  /\ f[c].rank <= f[d].rank
           /\ f[c].rank = f[d].rank => d \in Unresolved(f, C) /\ Unresolved(f, C) \subseteq Pack(f, C)
  <1>1. c \in C
    BY PackIsSelection
  <1>2. f[c].claim # "none" /\ f[d].claim # "none"
    BY DEF Contradict
  <1>3. c \in Top(f, C)
    <2>1. Contested(f, C)
      BY <1>1 DEF Contested
    <2>2. Unresolved(f, C) \subseteq Top(f, C)
      BY DEF Unresolved
    <2> QED
      BY <1>2, <2>1, <2>2 DEF Pack, Resolved
  <1>4. f[c].rank <= f[d].rank
    BY <1>2, <1>3 DEF Top
  <1>5. ASSUME f[c].rank = f[d].rank
        PROVE  d \in Unresolved(f, C)
    <2>1. d \in Top(f, C)
      BY <1>2, <1>3, <1>5 DEF Top
    <2>2. Contested(f, Top(f, C))
      BY <1>3, <2>1 DEF Contested
    <2> QED
      BY <2>1, <2>2 DEF Unresolved
  <1> QED
    BY <1>4, <1>5 DEF Pack

\* The bundle the guard reads is the pack of the candidates that were current.
Governed ==
    /\ at \in {"generate_answer", "citation_guard", "revise_answer"} =>
          state.pack = Pack(facts, state.current)
    /\ ContradictionsAreShown

\* A step that leads to none of these nodes has nothing to show.
LEMMA NothingToShow ==
    ASSUME at' \notin {"generate_answer", "citation_guard", "revise_answer", "end"}
    PROVE  Governed'
  BY DEF Governed, ContradictionsAreShown

\* Every step keeps what was governed.
LEMMA GovernedStep ==
    ASSUME TypeOK, Governed, [QANext]_qaVars
    PROVE  Governed'
  <1>1. state \in State /\ session \in Rows /\ facts \in [Chunks -> Fact]
    BY QAAssumption DEF TypeOK
  <1>2. CASE \/ Execute \/ ExecuteDenied \/ PrepareFails \/ Fail \/ Die \/ Commit
             \/ PersistOutcome \/ PersistFails \/ HandleFailure \/ load_prompt \/ analyze_query
             \/ select_project \/ resolve_scope \/ resolve_identifiers
                \/ retrieve \/ grade_retrieval
    BY <1>2, NothingToShow
    DEF Execute, ExecuteDenied, PrepareFails, Fail, Die, Interrupted, Commit, PersistOutcome,
        PersistFails, HandleFailure, load_prompt, analyze_query, select_project, resolve_scope,
        resolve_identifiers, retrieve, grade_retrieval, Node
  <1>3. CASE \/ EndMembership \/ UNCHANGED qaVars
             \/ \E c \in Chunks : ChangeDocument(c)
    <2>1. UNCHANGED <<at, state, session, facts>>
      BY <1>3 DEF EndMembership, ChangeDocument, qaVars, worldVars
    <2> QED
      BY <2>1 DEF Governed, ContradictionsAreShown, Contradict, Pack, Resolved, Unresolved,
                  Contested, Top, Position, Before
  <1>4. CASE govern_evidence
    <2> DEFINE current == StillCurrent(state.bundle)
               pack == Pack(facts, current)
    <2>1. CASE at' = "refuse"
      BY <2>1, NothingToShow
    <2>2. CASE at' # "refuse"
      <3>1. /\ at' = "generate_answer"
            /\ state' = [state EXCEPT !.current = current, !.pack = pack]
            /\ facts' = facts
        BY <1>4, <2>2 DEF govern_evidence, Node, worldVars
      <3>2. state'.current = current /\ state'.pack = pack
        BY <1>1, <3>1 DEF State
      <3> QED
        BY <3>1, <3>2 DEF Governed, ContradictionsAreShown
    <2> QED
      BY <2>1, <2>2
  <1>5. CASE generate_answer \/ revise_answer
    <2>1. /\ at \in {"generate_answer", "revise_answer"}
          /\ at' = "citation_guard" /\ facts' = facts
          /\ \E d \in Draft :
                \/ state' = [state EXCEPT !.draft = d]
                \/ state' = [state EXCEPT !.draft = d, !.revision = RevisionNo, !.error = "none"]
      BY <1>5 DEF generate_answer, revise_answer, Node, worldVars
    <2>2. state'.pack = state.pack /\ state'.current = state.current
      BY <1>1, <2>1 DEF State
    <2> QED
      BY <2>1, <2>2 DEF Governed, ContradictionsAreShown
  <1>6. CASE citation_guard
    <2>1. at = "citation_guard" /\ facts' = facts
      BY <1>6 DEF citation_guard, Node, worldVars
    <2>2. CASE at' = "refuse"
      BY <2>2, NothingToShow
    <2>3. CASE at' = "revise_answer"
      <3>1. state' = [WithError("CITATION_GUARD_RETRY") EXCEPT !.draft = NoDraft]
        BY <1>6, <2>3 DEF citation_guard, Node
      <3>2. state'.pack = state.pack /\ state'.current = state.current
        BY <1>1, <3>1 DEF WithError, State
      <3> QED
        BY <2>1, <2>3, <3>2 DEF Governed, ContradictionsAreShown
    <2>4. CASE at' = "end"
      <3> DEFINE cites == {Cited(l) : l \in state.draft.cited \cup state.draft.disclosed}
      <3>1. /\ GuardAccepts
            /\ session' = [session EXCEPT !.answer = "grounded", !.reason = "none",
                                          !.citations = cites]
            /\ state' = [state EXCEPT !.draft = NoDraft, !.route = "answered"]
        BY <1>6, <2>4 DEF citation_guard, Node
      <3>2. cites \subseteq state.pack
        BY <3>1, CitedIsFrozen
      <3>3. session'.citations = cites /\ state'.current = state.current
        <4> HIDE DEF cites
        <4> QED
          BY <1>1, <3>1 DEF State, Rows
      <3>4. ASSUME NEW c \in cites, NEW d \in state.current, Contradict(facts, c, d)
            PROVE  /\ facts[c].rank <= facts[d].rank
                   /\ facts[c].rank = facts[d].rank => d \in cites
        <4>1. c \in Pack(facts, state.current) /\ state.pack = Pack(facts, state.current)
          BY <2>1, <3>2, <3>4 DEF Governed
        <4>2. state.current \in SUBSET Chunks /\ state.pack \in SUBSET Chunks
          BY <1>1 DEF State
        <4>3. facts[c].rank <= facts[d].rank
          BY <1>1, <3>4, <4>1, <4>2, PackIsFair
        <4>4. ASSUME facts[c].rank = facts[d].rank PROVE d \in cites
          <5>1. d \in Unresolved(facts, state.current) /\ d \in state.pack
            BY <1>1, <3>4, <4>1, <4>2, <4>4, PackIsFair
          <5>2. d \in FrozenConflicts
            BY <5>1 DEF FrozenConflicts
          <5>3. Position(facts, state.pack, d) \in state.draft.disclosed
            BY <3>1, <5>2 DEF GuardAccepts, Accepts, LabelsOf
          <5>4. Cited(Position(facts, state.pack, d)) = d
            BY <1>1, <4>2, <5>1, LabelsAreUnique DEF Cited
          <5> QED
            BY <5>3, <5>4
        <4> QED
          BY <4>3, <4>4
      <3>5. ContradictionsAreShown'
        <4> HIDE DEF cites
        <4>1. \A c \in cites, d \in state.current :
                 Contradict(facts, c, d) =>
                     /\ facts[c].rank <= facts[d].rank
                     /\ facts[c].rank = facts[d].rank => d \in cites
          BY <3>4
        <4>2. \A c, d : Contradict(facts, c, d)' <=> Contradict(facts, c, d)
          BY <2>1 DEF Contradict
        <4> QED
          BY <2>1, <3>3, <4>1, <4>2 DEF ContradictionsAreShown
      <3> QED
        BY <2>4, <3>5 DEF Governed
    <2> QED
      BY <1>6, <2>2, <2>3, <2>4 DEF citation_guard, Node
  <1>7. CASE refuse \/ clarify_project
    <2>1. at' = "end" /\ state'.route \in {"refusal", "clarification"}
      BY <1>1, <1>7 DEF refuse, clarify_project, EndWith, State
    <2> QED
      BY <2>1 DEF Governed, ContradictionsAreShown
  <1> QED
    BY <1>2, <1>3, <1>4, <1>5, <1>6, <1>7 DEF QANext, JobStep, GraphStep

\* No grounded answer takes a side of a conflict that authority does not decide,
\* however many chunks max_evidence leaves out.
THEOREM QAContradictionsAreShown == QASpec => []ContradictionsAreShown
  <1>1. QAInit => Governed
    BY DEF QAInit, Governed, ContradictionsAreShown
  <1>2. TypeOK /\ Governed /\ [QANext]_qaVars => Governed'
    BY GovernedStep
  <1>3. Governed => ContradictionsAreShown
    BY DEF Governed
  <1> QED
    BY <1>1, <1>2, <1>3, QATypeCorrect, PTL DEF QASpec

-----------------------------------------------------------------------------
\* The rows that belong to the route a graph ended with.
Settles(rows, route) ==
    \/ /\ route = "answered"
       /\ rows.answer = "grounded" /\ rows.citations # {} /\ rows.reason = "none"
    \/ route = "refusal" /\ rows.answer = "refusal" /\ rows.reason # "none"
    \/ route = "clarification" /\ rows.answer = "clarification"

\* The graph refuses for a reason; the rows it ends with, and those that are then
\* committed, belong to its route; and a run with an outcome executes no more, so
\* that nothing overwrites them.
AnswerSettled ==
    /\ at = "refuse" => state.error # "none"
    /\ at = "end" => Settles(session, state.route)
    /\ at = "persist" => Settles(db, state.route)
    /\ outcome # "RUNNING" => at = "idle"
    /\ AnswerMatchesOutcome

\* A node that neither ends the graph nor refuses has nothing to settle.
LEMMA NothingToSettle ==
    ASSUME AnswerSettled, at \notin Resting \cup {"persist"}, at' \notin {"refuse", "end", "persist"},
           UNCHANGED <<db, outcome>>
    PROVE  AnswerSettled'
  BY DEF AnswerSettled, AnswerMatchesOutcome, Resting

\* A node that refuses leaves its reason behind.
LEMMA RefusesForReason ==
    ASSUME AnswerSettled, at \notin Resting \cup {"persist"}, at' = "refuse", state'.error # "none",
           UNCHANGED <<db, outcome>>
    PROVE  AnswerSettled'
  BY DEF AnswerSettled, AnswerMatchesOutcome, Resting

\* Every step keeps answer and outcome together.
LEMMA SettledStep ==
    ASSUME TypeOK, AnswerSettled, CitesGovernedEvidence', [QANext]_qaVars
    PROVE  AnswerSettled'
  <1>1. state \in State /\ session \in Rows
    BY DEF TypeOK
  <1>2. ASSUME NEW r \in Reasons, r # "none", NEW n \in Nodes,
               \/ Node(n, "refuse", WithError(r))
               \/ Node(n, "refuse", save_evidence_bundle(WithError(r), {}))
               \/ Node(n, "refuse", [WithError(r) EXCEPT !.draft = NoDraft])
        PROVE  AnswerSettled'
    <2>1. state'.error # "none"
      BY <1>1, <1>2 DEF Node, WithError, save_evidence_bundle, State
    <2>2. at \notin Resting \cup {"persist"} /\ at' = "refuse" /\ UNCHANGED <<db, outcome>>
      BY <1>2 DEF Node, Nodes, Resting
    <2> QED
      BY <2>1, <2>2, RefusesForReason
  <1>3. CASE \/ EndMembership \/ UNCHANGED qaVars
             \/ \E c \in Chunks : ChangeDocument(c)
    BY <1>3 DEF EndMembership, ChangeDocument, qaVars, AnswerSettled, Settles,
                AnswerMatchesOutcome
  <1>4. CASE Execute \/ ExecuteDenied \/ PrepareFails
    BY <1>4 DEF Execute, ExecuteDenied, PrepareFails, MayExecute, AnswerSettled,
                AnswerMatchesOutcome
  <1>5. CASE Fail \/ Die
    BY <1>5 DEF Fail, Die, Interrupted, Resting, AnswerSettled, AnswerMatchesOutcome
  <1>6. CASE Commit
    BY <1>6 DEF Commit, AnswerSettled, Settles, AnswerMatchesOutcome
  <1>7. CASE PersistOutcome
    BY <1>7 DEF PersistOutcome, AnswerSettled, Settles, AnswerMatchesOutcome
  <1>8. CASE PersistFails
    BY <1>8 DEF PersistFails, AnswerSettled, AnswerMatchesOutcome
  <1>9. CASE HandleFailure
    BY <1>9 DEF HandleFailure, AnswerSettled, AnswerMatchesOutcome
  <1>10. CASE \/ load_prompt \/ analyze_query \/ resolve_scope \/ resolve_identifiers
              \/ generate_answer \/ revise_answer
    BY <1>10, NothingToSettle
    DEF Resting, load_prompt, analyze_query, resolve_scope, resolve_identifiers, generate_answer,
        revise_answer, Node
  <1>11. CASE select_project
    <2>1. CASE at' = "refuse"
      BY <1>2, <1>11, <2>1 DEF select_project, Node, Nodes, Reasons
    <2>2. CASE at' # "refuse"
      BY <1>11, <2>2, NothingToSettle DEF select_project, Node, Resting
    <2> QED
      BY <2>1, <2>2
  <1>12. CASE retrieve
    <2>1. CASE at' = "refuse"
      <3>1. PICK r \in Reasons \ {"none"} :
                  \/ Node("retrieve", "refuse", WithError(r))
                  \/ Node("retrieve", "refuse", save_evidence_bundle(WithError(r), {}))
        BY <1>12, <2>1 DEF retrieve, Reasons
      <3> QED
        BY <1>2, <3>1 DEF Nodes
    <2>2. CASE at' # "refuse"
      BY <1>12, <2>2, NothingToSettle DEF retrieve, Node, Resting
    <2> QED
      BY <2>1, <2>2
  <1>13. CASE grade_retrieval
    <2>1. CASE at' = "refuse"
      <3>1. Node("grade_retrieval", "refuse", WithError("INSUFFICIENT_EVIDENCE"))
        BY <1>13, <2>1 DEF grade_retrieval, Node
      <3> QED
        BY <1>2, <3>1 DEF Nodes, Reasons
    <2>2. CASE at' # "refuse"
      BY <1>13, <2>2, NothingToSettle DEF grade_retrieval, Node, Resting
    <2> QED
      BY <2>1, <2>2
  <1>14. CASE govern_evidence
    <2>1. CASE at' = "refuse"
      <3>1. Node("govern_evidence", "refuse", WithError("NO_GOVERNED_EVIDENCE"))
        BY <1>14, <2>1 DEF govern_evidence, Node
      <3> QED
        BY <1>2, <3>1 DEF Nodes, Reasons
    <2>2. CASE at' # "refuse"
      BY <1>14, <2>2, NothingToSettle DEF govern_evidence, Node, Resting
    <2> QED
      BY <2>1, <2>2
  <1>15. CASE citation_guard
    <2>1. CASE at' = "refuse"
      <3>1. Node("citation_guard", "refuse",
                 [WithError("CITATION_GUARD_FAILED") EXCEPT !.draft = NoDraft])
        BY <1>15, <2>1 DEF citation_guard, Node
      <3> QED
        BY <1>2, <3>1 DEF Nodes, Reasons
    <2>2. CASE at' = "revise_answer"
      BY <1>15, <2>2, NothingToSettle DEF citation_guard, Node, Resting
    <2>3. CASE at' = "end"
      <3> DEFINE cites == {Cited(l) : l \in state.draft.cited \cup state.draft.disclosed}
      <3>1. /\ at = "citation_guard" /\ UNCHANGED <<db, outcome>>
            /\ session' = [session EXCEPT !.answer = "grounded", !.reason = "none",
                                          !.citations = cites]
            /\ state' = [state EXCEPT !.draft = NoDraft, !.route = "answered"]
        BY <1>15, <2>3 DEF citation_guard, Node
      <3> HIDE DEF cites
      <3>2. /\ session'.answer = "grounded" /\ session'.reason = "none"
            /\ state'.route = "answered"
        BY <1>1, <3>1 DEF State, Rows
      <3>3. session'.citations # {}
        BY <2>3, <3>2 DEF CitesGovernedEvidence
      <3> QED
        BY <2>3, <3>1, <3>2, <3>3 DEF AnswerSettled, Settles, AnswerMatchesOutcome
    <2> QED
      BY <1>15, <2>1, <2>2, <2>3 DEF citation_guard, Node
  <1>16. CASE refuse \/ clarify_project
    <2>1. /\ at \in {"refuse", "clarify_project"} /\ at' = "end" /\ UNCHANGED <<db, outcome>>
          /\ \/ /\ at = "refuse" /\ state' = [state EXCEPT !.route = "refusal"]
                /\ session' = [session EXCEPT !.answer = "refusal", !.reason = state.error]
             \/ /\ state' = [state EXCEPT !.route = "clarification"]
                /\ session' = [session EXCEPT !.answer = "clarification",
                                              !.reason = "PROJECT_CLARIFICATION_REQUIRED"]
      BY <1>16 DEF refuse, clarify_project, EndWith, save_answer
    <2>2. \/ /\ state'.route = "refusal" /\ session'.answer = "refusal"
             /\ session'.reason = state.error /\ at = "refuse"
          \/ state'.route = "clarification" /\ session'.answer = "clarification"
      BY <1>1, <2>1 DEF State, Rows
    <2> QED
      BY <2>1, <2>2 DEF AnswerSettled, Settles, AnswerMatchesOutcome
  <1> QED
    BY <1>3, <1>4, <1>5, <1>6, <1>7, <1>8, <1>9, <1>10, <1>11, <1>12, <1>13, <1>14, <1>15, <1>16
    DEF QANext, JobStep, GraphStep

\* The status of a run and the answer of its rows agree although they are committed
\* apart and every execution may write another answer: a SUCCEEDED run has a
\* grounded answer with citations or a question back, a REFUSED one its reason.
THEOREM QAAnswerMatchesOutcome == QASpec => []AnswerMatchesOutcome
  <1>1. QAInit => AnswerSettled
    BY DEF QAInit, AnswerSettled, AnswerMatchesOutcome
  <1>2. TypeOK /\ AnswerSettled /\ CitesGovernedEvidence' /\ [QANext]_qaVars => AnswerSettled'
    BY SettledStep
  <1>3. AnswerSettled => AnswerMatchesOutcome
    BY DEF AnswerSettled
  <1> QED
    BY <1>1, <1>2, <1>3, QATypeCorrect, QACitesGovernedEvidence, PTL DEF QASpec
=============================================================================
