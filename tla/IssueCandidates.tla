-------------------------- MODULE IssueCandidates --------------------------
(***************************************************************************)
(* Ranking the possible duplicates of a report                             *)
(* (application/services/issue_candidates.py) over the search of the       *)
(* sandbox tracker (infrastructure/project_tracker/sandbox.py).            *)
(*                                                                         *)
(* The runs pass neither statuses nor semantic scores, so those two terms  *)
(* of the ranking are constant and left out.  Words stand for the tokens   *)
(* of a text; codes and modules are compared after case folding.           *)
(***************************************************************************)
EXTENDS Integers, Sequences, FiniteSetsExt

CONSTANTS
    PoolLimit,        \* SearchIssuesRequest.limit of find_candidates: 100
    CandidateLimit    \* IssueCandidateQuery.limit: 5

ASSUME CandidateAssumption == PoolLimit \in Nat \ {0} /\ CandidateLimit \in 1..20

\* No value; nothing that is stored is of its kind.
None == [kind |-> "none"]

\* search_issues: the newest issues of the project.
Newer(a, b) == a.created > b.created \/ (a.created = b.created /\ a.key < b.key)
Pool(issues, project) ==
    LET found == {i \in issues : i.project = project}
    IN  {i \in found : Cardinality({j \in found : Newer(j, i)}) < PoolLimit}

\* _overlap: |left \cap right| / min(|left|, |right|), here in sixtieths.
Overlap(left, right) ==
    IF left = {} \/ right = {} THEN 0
    ELSE (60 * Cardinality(left \cap right)) \div Min({Cardinality(left), Cardinality(right)})

StatusScore(s) ==
    CASE s \in {"OPEN", "REOPENED"} -> 8 [] s = "IN_PROGRESS" -> 7 [] s = "RESOLVED" -> 3 [] OTHER -> 0

ExactError(q, i) == q.code # None /\ q.code = i.code
ModuleMatch(q, i) == q.module # None /\ q.module = i.module
Bit(b) == IF b THEN 1 ELSE 0

\* The lexicographic key; the query's title and description are its whole text.
RankKeyRecent(q, i) ==    \* mutant
    <<i.created, Bit(ExactError(q, i)), Bit(ModuleMatch(q, i)), Overlap(q.words, i.title),
      Overlap(q.words, i.words), StatusScore(i.status)>>
RankKey(q, i) ==
    <<Bit(ExactError(q, i)), Bit(ModuleMatch(q, i)), Overlap(q.words, i.title),
      Overlap(q.words, i.words), StatusScore(i.status), i.created>>

Matched(q, i) == \E n \in 1..4 : RankKey(q, i)[n] > 0

Ranks(q, a, b) ==
    LET x == RankKey(q, a)
        y == RankKey(q, b)
    IN  \/ \E n \in DOMAIN x : x[n] > y[n] /\ \A m \in 1..(n - 1) : x[m] = y[m]
        \/ x = y /\ a.key < b.key

\* The first of the sorted matches; the n-th has n - 1 ahead of it.
Ahead(q, found, i) == {j \in found : Ranks(q, j, i)}
find_candidates(q, issues, project) ==
    LET found == {i \in Pool(issues, project) : Matched(q, i)}
    IN  [n \in 1..Min({CandidateLimit, Cardinality(found)}) |->
            CHOOSE i \in found : Cardinality(Ahead(q, found, i)) = n - 1]
=============================================================================
