------------------------- MODULE IssueThreadProofs -------------------------
(***************************************************************************)
(* The safety of the issue graphs, proved for every number of runs on a    *)
(* thread, of attempts and of faults, and for whatever users report.       *)
(*                                                                         *)
(* A resume goes on with whatever the thread's checkpoint is about, so     *)
(* nothing can be said of the run that a resumed call works for.  What     *)
(* holds is said of the calls that execute a run from the start: their     *)
(* state names their own run, and the evidence and the draft they reach    *)
(* confirmation with are rows of their own session (OwnWork).  Only they   *)
(* ask, so that what a run shows is its own and stored (RunGood); and a    *)
(* run that was answered never asks again, so that what was confirmed once *)
(* stays confirmed (Confirmed) until it is an issue.                       *)
(*                                                                         *)
(* The links of a draft are about the tracker at the time of the search,   *)
(* and the property about the tracker as it is: between the two, the links *)
(* are a ranking of some state of the tracker no older than the request    *)
(* (LinksInv).  That a ranking puts an issue with the report's error code  *)
(* first is a fact of the lexicographic order alone (FirstCandidate).      *)
(***************************************************************************)
EXTENDS IssueThread, FiniteSetTheorems, WellFoundedInduction, TLAPS

\* The fields of the records; their values are told apart below.
IsState(s) ==
    s \in [run : {s.run}, scope : {s.scope}, bundle : {s.bundle}, candidates : {s.candidates},
           draft : {s.draft}, receipt : {s.receipt}, creation : {s.creation}, answer : {s.answer},
           route : {s.route}]
IsCall(c) ==
    c \in [at : {c.at}, state : {c.state}, resume : {c.resume}, hash : {c.hash},
           wrote : {c.wrote}, outcome : {c.outcome}]
IsRun(x) ==
    x \in [mode : {x.mode}, text : {x.text}, status : {x.status}, tries : {x.tries},
           calls : {x.calls}, shown : {x.shown}, resume : {x.resume}, hash : {x.hash},
           ref : {x.ref}, before : {x.before}]
CallsFormed ==
    /\ call \in [Runs -> {call[r] : r \in Runs}]
    /\ \A r \in Runs : IsCall(call[r]) /\ IsState(call[r].state)
RunsFormed ==
    /\ run \in [Runs -> {run[r] : r \in Runs}]
    /\ \A r \in Runs : IsRun(run[r]) /\ run[r].calls \in Nat
Formed == CallsFormed /\ RunsFormed /\ IsState(checkpoint.state)

\* Evidence and drafts that a run made itself.
OwnEvidence(r, b) ==
    /\ b # None /\ b.kind = "bundle" /\ b.of = r
    /\ \A v \in b.versions : v.category \in AllowedCategories
OwnDraft(r, d) == d.kind = "draft" /\ d.of = r /\ OwnEvidence(r, d.evidence)
Stored(r, d) == OwnDraft(r, d) /\ d \in rows /\ d.evidence \in rows

\* How far a call that executes run r from the start has come.
OwnWork(r, s, wrote, at) ==
    /\ s.run = r
    /\ at \in {"build", "confirm", "asks"} => run[r].mode # "issue_lookup"
    /\ at \in {"search", "build", "confirm", "asks"} /\ run[r].mode # "issue_lookup" =>
          OwnEvidence(r, s.bundle) /\ s.bundle \in wrote
    /\ at \in {"confirm", "asks"} =>
          OwnDraft(r, s.draft) /\ s.draft \in wrote /\ s.draft.evidence = s.bundle

CallGood(r) ==
    /\ call[r].at # "idle" =>
          /\ run[r].status = "RUNNING"
          /\ call[r].resume = run[r].resume
          /\ call[r].resume = "none" => OwnWork(r, call[r].state, call[r].wrote, call[r].at)
          /\ call[r].resume # "none" => call[r].hash = run[r].hash
    /\ call[r].at = "asks" => call[r].resume = "none"
    /\ call[r].outcome = "WAITING_CONFIRMATION" =>
          call[r].at = "persist" /\ call[r].resume = "none" /\ Stored(r, call[r].state.draft)
    /\ call[r].outcome # "ABSENT"

\* What a run has shown and what it was answered.
RunGood(r) ==
    /\ run[r].status \in {"ABSENT", "WAITING_CONFIRMATION"} => run[r].resume = "none"
    /\ run[r].shown # None \/ run[r].status = "WAITING_CONFIRMATION" \/ run[r].resume # "none" =>
          Stored(r, run[r].shown)
    /\ run[r].resume # "none" => run[r].hash = run[r].shown

\* The user of a run has confirmed the draft it had shown.
Confirmed(d) ==
    \E r \in Runs : /\ d.of = r /\ run[r].shown = d
                    /\ run[r].resume = "CONFIRM" /\ run[r].hash = d

\* A graph creates, a session writes and the tracker holds only what is confirmed.
CreatesConfirmed ==
    /\ checkpoint.next = "create" => Confirmed(checkpoint.state.receipt.draft)
    /\ \A r \in Runs : call[r].at = "create" => Confirmed(call[r].state.receipt.draft)
    /\ \A r \in Runs : \A w \in call[r].wrote : w.kind = "issue" => Confirmed(w.draft)
    /\ \A i \in issues \ OldIssues : Confirmed(i.draft)

ThreadInv == Formed /\ (\A r \in Runs : CallGood(r) /\ RunGood(r)) /\ CreatesConfirmed

\* What the ranking needs of an issue.
Sound(i) ==
    i.key \in Int /\ i.created \in Int /\ IsFiniteSet(i.title) /\ IsFiniteSet(i.words)

\* One key comes before another: the lexicographic order.
Keys == 1..6
Beats(x, y) == \E n \in Keys : x[n] > y[n] /\ \A m \in 1..(n - 1) : x[m] = y[m]
IsKey(x) == \A n \in Keys : x[n] \in Int

\* The tracker and the sessions hold finitely many issues that can be ranked.
IssuesSound ==
    /\ IsFiniteSet(issues) /\ \A i \in issues : Sound(i)
    /\ \A r \in Runs : /\ IsFiniteSet(call[r].wrote)
                      /\ \A w \in call[r].wrote : w.kind = "issue" => Sound(w)

\* Links are a ranking, for the report of a run, of a state of the tracker that
\* the run has lived to see.
IsRanking(text, before, now, links) ==
    \E I \in SUBSET now : before \subseteq I /\ links = find_candidates(text, I, Project)
RankedLinks(r, links) == IsRanking(run[r].text, run[r].before, issues, links)
OwnLinks(r, d) == d.text = run[r].text /\ RankedLinks(r, d.links)

\* The same of a call that executes run r from the start.
Ranked(r, s, at) ==
    /\ at = "build" => s.candidates.kind = "candidates" /\ RankedLinks(r, s.candidates.found)
    /\ at \in {"confirm", "asks"} => OwnLinks(r, s.draft)
CallLinks(r) ==
    /\ call[r].resume = "none" => Ranked(r, call[r].state, call[r].at)
    /\ call[r].outcome = "WAITING_CONFIRMATION" => OwnLinks(r, call[r].state.draft)
RunLinks(r) ==
    /\ run[r].status # "ABSENT" \/ run[r].shown # None =>
          run[r].text \in Texts /\ run[r].before \subseteq issues
    /\ run[r].shown # None => OwnLinks(r, run[r].shown)

LinksInv == IssuesSound /\ \A r \in Runs : CallLinks(r) /\ RunLinks(r)

-----------------------------------------------------------------------------
(* The ranking. *)

LEMMA BeatsOrders ==
    /\ \A x : IsKey(x) => ~Beats(x, x)
    /\ \A x, y, z : IsKey(x) /\ IsKey(y) /\ IsKey(z) /\ Beats(x, y) /\ Beats(y, z) => Beats(x, z)
<1>1. ASSUME NEW x, IsKey(x), Beats(x, x) PROVE FALSE
  BY <1>1 DEF Beats, IsKey
<1>2. ASSUME NEW x, NEW y, NEW z, IsKey(x), IsKey(y), IsKey(z), Beats(x, y), Beats(y, z)
      PROVE  Beats(x, z)
  <2>1. PICK n \in Keys : x[n] > y[n] /\ \A m \in 1..(n - 1) : x[m] = y[m]
    BY <1>2 DEF Beats
  <2>2. PICK k \in Keys : y[k] > z[k] /\ \A m \in 1..(k - 1) : y[m] = z[m]
    BY <1>2 DEF Beats
  <2>3. n \in Int /\ k \in Int /\ x[n] \in Int /\ y[n] \in Int /\ z[n] \in Int
        /\ x[k] \in Int /\ y[k] \in Int /\ z[k] \in Int
    BY <1>2, <2>1, <2>2 DEF IsKey, Keys
  <2>4. CASE n < k
    <3>1. n \in 1..(k - 1)
      BY <2>3, <2>4 DEF Keys
    <3>2. x[n] > z[n] /\ \A m \in 1..(n - 1) : x[m] = z[m]
      BY <2>1, <2>2, <2>3, <2>4, <3>1
    <3>3. QED
      BY <3>2 DEF Beats
  <2>5. CASE ~(n < k)
    <3>1. n = k \/ k \in 1..(n - 1)
      BY <2>3, <2>5 DEF Keys
    <3>2. x[k] > z[k]
      BY <2>1, <2>2, <2>3, <3>1
    <3>3. \A m \in 1..(k - 1) : x[m] = z[m]
      BY <2>1, <2>2, <2>3, <2>5
    <3>4. QED
      BY <3>2, <3>3 DEF Beats
  <2>6. QED
    BY <2>4, <2>5
<1>3. QED
  BY <1>1, <1>2

LEMMA MinOfTwo ==
    ASSUME NEW a \in Nat, NEW b \in Nat
    PROVE  Min({a, b}) \in {a, b} /\ Min({a, b}) <= a /\ Min({a, b}) <= b
<1>1. PICK m \in {a, b} : \A y \in {a, b} : m <= y
  BY a <= b \/ b <= a
<1>2. QED
  BY <1>1 DEF Min

LEMMA OverlapType ==
    ASSUME NEW left, NEW right, IsFiniteSet(left), IsFiniteSet(right)
    PROVE  Overlap(left, right) \in Int
<1>1. CASE left = {} \/ right = {}
  BY <1>1 DEF Overlap
<1>2. CASE ~(left = {} \/ right = {})
  <2>1. /\ Cardinality(left) \in Nat \ {0} /\ Cardinality(right) \in Nat \ {0}
    BY <1>2, FS_CardinalityType, FS_EmptySet
  <2>2. Cardinality(left \cap right) \in Nat
    <3>1. left \cap right \in SUBSET left
      OBVIOUS
    <3>2. QED
      BY <3>1, FS_Subset, FS_CardinalityType
  <2>3. Min({Cardinality(left), Cardinality(right)}) \in Nat \ {0}
    BY <2>1, MinOfTwo
  <2>4. PICK a, b : /\ a = 60 * Cardinality(left \cap right)
                    /\ b = Min({Cardinality(left), Cardinality(right)})
    OBVIOUS
  <2>5. a \in Int /\ b \in Int /\ b > 0
    BY <2>2, <2>3, <2>4
  <2>6. a \div b \in Int
    BY <2>5
  <2>7. QED
    BY <1>2, <2>4, <2>6 DEF Overlap
<1>3. QED
  BY <1>1, <1>2

LEMMA KeyOfIssue ==
    ASSUME NEW q, NEW i, IsFiniteSet(q.words), Sound(i)
    PROVE  IsKey(RankKey(q, i)) /\ DOMAIN RankKey(q, i) = Keys
<1>1. Overlap(q.words, i.title) \in Int /\ Overlap(q.words, i.words) \in Int /\ i.created \in Int
  BY OverlapType DEF Sound
<1>2. Bit(ExactError(q, i)) \in Int /\ Bit(ModuleMatch(q, i)) \in Int
  BY DEF Bit
<1>3. StatusScore(i.status) \in Int
  BY DEF StatusScore
<1>4. QED
  BY <1>1, <1>2, <1>3 DEF RankKey, IsKey, Keys

LEMMA RanksIs ==
    ASSUME NEW q, NEW a, NEW b, IsFiniteSet(q.words), Sound(a), Sound(b)
    PROVE  Ranks(q, a, b) <=> (Beats(RankKey(q, a), RankKey(q, b))
                               \/ (RankKey(q, a) = RankKey(q, b) /\ a.key < b.key))
  BY KeyOfIssue DEF Ranks, Beats

LEMMA RanksOrders ==
    ASSUME NEW q, IsFiniteSet(q.words)
    PROVE  /\ \A a : Sound(a) => ~Ranks(q, a, a)
           /\ \A a, b, c : Sound(a) /\ Sound(b) /\ Sound(c) /\ Ranks(q, a, b) /\ Ranks(q, b, c)
                             => Ranks(q, a, c)
<1>1. ASSUME NEW a, Sound(a), Ranks(q, a, a) PROVE FALSE
  <2>1. ~Beats(RankKey(q, a), RankKey(q, a))
    BY <1>1, KeyOfIssue, BeatsOrders
  <2>2. ~(a.key < a.key)
    BY <1>1 DEF Sound
  <2>3. QED
    BY <1>1, <2>1, <2>2, RanksIs
<1>2. ASSUME NEW a, NEW b, NEW c, Sound(a), Sound(b), Sound(c), Ranks(q, a, b), Ranks(q, b, c)
      PROVE  Ranks(q, a, c)
  <2>1. PICK x, y, z : x = RankKey(q, a) /\ y = RankKey(q, b) /\ z = RankKey(q, c)
    OBVIOUS
  <2>2. IsKey(x) /\ IsKey(y) /\ IsKey(z)
    BY <1>2, <2>1, KeyOfIssue
  <2>3. /\ Beats(x, y) \/ (x = y /\ a.key < b.key)
        /\ Beats(y, z) \/ (y = z /\ b.key < c.key)
    BY <1>2, <2>1, RanksIs
  <2>4. Beats(x, y) /\ Beats(y, z) => Beats(x, z)
    BY <2>2, BeatsOrders
  <2>5. a.key < b.key /\ b.key < c.key => a.key < c.key
    BY <1>2 DEF Sound
  <2>6. Beats(x, z) \/ (x = z /\ a.key < c.key)
    BY <2>3, <2>4, <2>5
  <2>7. QED
    BY <1>2, <2>1, <2>6, RanksIs
<1>3. QED
  BY <1>1, <1>2

\* Of finitely many issues one is ahead of all others.
LEMMA SomeIsFirst ==
    ASSUME NEW q, IsFiniteSet(q.words), NEW found, IsFiniteSet(found), found # {},
           \A i \in found : Sound(i)
    PROVE  \E i \in found : Ahead(q, found, i) = {}
<1> DEFINE N(i) == Cardinality(Ahead(q, found, i))
           T == {N(i) : i \in found}
           R == OpToRel(<, Nat)
<1>1. \A i \in found : Ahead(q, found, i) \in SUBSET found /\ IsFiniteSet(Ahead(q, found, i))
                       /\ N(i) \in Nat
  <2>1. ASSUME NEW i \in found
        PROVE  Ahead(q, found, i) \in SUBSET found
    BY DEF Ahead
  <2>2. QED
    BY <2>1, FS_Subset, FS_CardinalityType
<1>2. T \subseteq Nat /\ T # {}
  <2> HIDE DEF N
  <2>1. QED
    BY <1>1
<1>3. PICK m \in T : \A y \in T : ~(<<y, m>> \in R)
  <2>1. IsWellFoundedOn(R, Nat)
    BY NatLessThanWellFounded
  <2> HIDE DEF T, R
  <2>2. QED
    BY <1>2, <2>1, WFMin
<1>4. PICK i \in found : m = N(i)
  OBVIOUS
<1>5. SUFFICES ASSUME NEW j \in Ahead(q, found, i) PROVE FALSE
  OBVIOUS
<1>6. j \in found /\ Ranks(q, j, i)
  BY DEF Ahead
<1>7. Ahead(q, found, j) \subseteq Ahead(q, found, i)
  <2>1. ASSUME NEW k \in Ahead(q, found, j) PROVE k \in Ahead(q, found, i)
    <3>1. k \in found /\ Ranks(q, k, j)
      BY DEF Ahead
    <3>2. Ranks(q, k, i)
      BY <1>6, <3>1, RanksOrders
    <3>3. QED
      BY <3>1, <3>2 DEF Ahead
  <2>2. QED
    BY <2>1
<1>8. j \notin Ahead(q, found, j)
  BY <1>6, RanksOrders DEF Ahead
<1>9. N(j) < N(i)
  <2>1. PICK S, S2 : S = Ahead(q, found, i) /\ S2 = Ahead(q, found, j)
    OBVIOUS
  <2>2. S2 \in SUBSET S /\ IsFiniteSet(S) /\ S # S2
    BY <1>1, <1>7, <1>8, <2>1
  <2>3. Cardinality(S2) <= Cardinality(S) /\ Cardinality(S) # Cardinality(S2)
    BY <2>2, FS_Subset
  <2>4. Cardinality(S) \in Nat /\ Cardinality(S2) \in Nat
    BY <1>1, <1>6, <2>1
  <2>5. QED
    BY <2>1, <2>3, <2>4
<1>10. N(j) \in T /\ N(j) \in Nat /\ N(i) \in Nat
  BY <1>1, <1>6
<1>11. <<N(j), m>> \in R
  <2> HIDE DEF N
  <2>1. QED
    BY <1>4, <1>9, <1>10 DEF OpToRel
<1>12. QED
  BY <1>3, <1>10, <1>11

\* The pool of a project that is small enough is the project.
LEMMA SmallPool ==
    ASSUME NEW I, IsFiniteSet(I), \A i \in I : Sound(i), NEW p, PoolLimit \in Nat,
           Cardinality({i \in I : i.project = p}) <= PoolLimit
    PROVE  Pool(I, p) = {i \in I : i.project = p}
<1>1. PICK F : F = {i \in I : i.project = p}
  OBVIOUS
<1>2. IsFiniteSet(F) /\ Cardinality(F) \in Nat /\ Cardinality(F) <= PoolLimit
  BY <1>1, FS_Subset, FS_CardinalityType
<1>3. ASSUME NEW i \in F PROVE Cardinality({j \in F : Newer(j, i)}) < PoolLimit
  <2>1. ~Newer(i, i)
    BY <1>1 DEF Newer, Sound
  <2>2. PICK S, S2 : S = {j \in F : Newer(j, i)} /\ S2 = F \ {i}
    OBVIOUS
  <2>3. S \in SUBSET S2 /\ IsFiniteSet(S2) /\ Cardinality(S2) = Cardinality(F) - 1
    BY <1>2, <2>1, <2>2, FS_RemoveElement
  <2>4. Cardinality(S) <= Cardinality(S2) /\ Cardinality(S) \in Nat
    BY <2>3, FS_Subset, FS_CardinalityType
  <2>5. QED
    BY <1>2, <2>2, <2>3, <2>4
<1>4. QED
  BY <1>1, <1>3 DEF Pool

\* The first candidate has the error code of the report if an issue of the project has.
LEMMA FirstCandidate ==
    ASSUME NEW q, IsFiniteSet(q.words), NEW I, IsFiniteSet(I), \A i \in I : Sound(i),
           NEW p, Cardinality({i \in I : i.project = p}) <= PoolLimit,
           NEW x \in I, x.project = p, ExactError(q, x)
    PROVE  /\ find_candidates(q, I, p) # <<>>
           /\ ExactError(q, find_candidates(q, I, p)[1])
<1>1. PICK found : found = {i \in Pool(I, p) : Matched(q, i)}
  OBVIOUS
<1>2. Pool(I, p) = {i \in I : i.project = p}
  BY SmallPool, CandidateAssumption
<1>3. \A i : Sound(i) => IsKey(RankKey(q, i)) /\ DOMAIN RankKey(q, i) = Keys
  BY KeyOfIssue
<1>4. \A i : RankKey(q, i)[1] = Bit(ExactError(q, i))
  BY DEF RankKey
<1>5. x \in found
  <2>1. RankKey(q, x)[1] = 1
    BY <1>4 DEF Bit
  <2>2. Matched(q, x)
    BY <2>1 DEF Matched
  <2>3. QED
    BY <1>1, <1>2, <2>2
<1>6. found \in SUBSET I /\ IsFiniteSet(found) /\ \A i \in found : Sound(i)
  <2>1. found \in SUBSET I
    BY <1>1, <1>2
  <2>2. QED
    BY <2>1, FS_Subset
<1>7. PICK c : c = CHOOSE i \in found : Cardinality(Ahead(q, found, i)) = 0
  OBVIOUS
<1>8. c \in found /\ Ahead(q, found, c) = {}
  <2>1. \E i \in found : Cardinality(Ahead(q, found, i)) = 0
    BY <1>5, <1>6, SomeIsFirst, FS_EmptySet
  <2>2. c \in found /\ Cardinality(Ahead(q, found, c)) = 0
    BY <1>7, <2>1
  <2>3. IsFiniteSet(Ahead(q, found, c))
    <3>1. Ahead(q, found, c) \in SUBSET found
      BY DEF Ahead
    <3>2. QED
      BY <1>6, <3>1, FS_Subset
  <2>4. QED
    BY <2>2, <2>3, FS_EmptySet
<1>9. ExactError(q, c)
  <2>1. SUFFICES ASSUME ~ExactError(q, c) PROVE FALSE
    OBVIOUS
  <2>2. RankKey(q, x)[1] > RankKey(q, c)[1]
    BY <1>4, <2>1 DEF Bit
  <2>3. Beats(RankKey(q, x), RankKey(q, c))
    BY <2>2 DEF Beats, Keys
  <2>4. Ranks(q, x, c)
    BY <1>5, <1>6, <1>8, <2>3, RanksIs
  <2>5. QED
    BY <1>5, <1>8, <2>4 DEF Ahead
<1>10. PICK n : n = Min({CandidateLimit, Cardinality(found)})
  OBVIOUS
<1>11. n \in Nat /\ n >= 1
  <2>1. Cardinality(found) \in Nat \ {0} /\ CandidateLimit \in Nat \ {0}
    BY <1>5, <1>6, FS_CardinalityType, FS_EmptySet, CandidateAssumption
  <2>2. QED
    BY <1>10, <2>1, MinOfTwo
<1>12. find_candidates(q, I, p) =
          [m \in 1..n |-> CHOOSE i \in found : Cardinality(Ahead(q, found, i)) = m - 1]
  BY <1>1, <1>10 DEF find_candidates
<1>13. 1 \in 1..n /\ find_candidates(q, I, p)[1] = c
  BY <1>7, <1>11, <1>12
<1>14. DOMAIN find_candidates(q, I, p) = 1..n
  BY <1>12
<1>15. find_candidates(q, I, p) # <<>>
  <2>1. DOMAIN <<>> = {}
    OBVIOUS
  <2>2. PICK f : f = find_candidates(q, I, p)
    OBVIOUS
  <2>3. 1 \in DOMAIN f
    BY <1>13, <1>14, <2>2
  <2>4. f # <<>>
    BY <2>1, <2>3
  <2>5. QED
    BY <2>2, <2>4
<1>16. QED
  BY <1>9, <1>13, <1>15

-----------------------------------------------------------------------------
(* The records. *)

LEMMA EmptyRecords ==
    /\ IsState(EmptyState)
    /\ IsCall(IdleCall) /\ IdleCall.at = "idle" /\ IdleCall.state = EmptyState
    /\ IdleCall.wrote = {} /\ IdleCall.outcome = "none" /\ IdleCall.resume = "none"
    /\ IsRun(NoRun) /\ NoRun.calls = 0 /\ NoRun.status = "ABSENT" /\ NoRun.resume = "none"
    /\ NoRun.shown = None
<1>1. IsState(EmptyState)
  BY DEF IsState, EmptyState
<1>2. /\ IsCall(IdleCall) /\ IdleCall.at = "idle" /\ IdleCall.state = EmptyState
      /\ IdleCall.wrote = {} /\ IdleCall.outcome = "none" /\ IdleCall.resume = "none"
  BY DEF IsCall, IdleCall
<1>3. /\ IsRun(NoRun) /\ NoRun.calls = 0 /\ NoRun.status = "ABSENT" /\ NoRun.resume = "none"
      /\ NoRun.shown = None
  BY DEF IsRun, NoRun
<1>4. QED
  BY <1>1, <1>2, <1>3

\* A step of one call, given the record it leaves.
LEMMA CallChanges ==
    ASSUME CallsFormed, NEW r \in Runs, NEW y, call' = [call EXCEPT ![r] = y],
           IsCall(y), IsState(y.state)
    PROVE  CallsFormed' /\ call'[r] = y /\ \A q \in Runs \ {r} : call'[q] = call[q]
<1>1. call'[r] = y /\ \A q \in Runs \ {r} : call'[q] = call[q]
  BY DEF CallsFormed
<1>2. call' \in [Runs -> {call'[q] : q \in Runs}]
  BY DEF CallsFormed
<1>3. \A q \in Runs : IsCall(call'[q]) /\ IsState(call'[q].state)
  BY <1>1 DEF CallsFormed
<1>4. QED
  BY <1>1, <1>2, <1>3 DEF CallsFormed, IsCall, IsState

LEMMA RunChanges ==
    ASSUME RunsFormed, NEW r \in Runs, NEW y, run' = [run EXCEPT ![r] = y],
           IsRun(y), y.calls \in Nat
    PROVE  RunsFormed' /\ run'[r] = y /\ \A q \in Runs \ {r} : run'[q] = run[q]
<1>1. run'[r] = y /\ \A q \in Runs \ {r} : run'[q] = run[q]
  BY DEF RunsFormed
<1>2. run' \in [Runs -> {run'[q] : q \in Runs}]
  BY DEF RunsFormed
<1>3. \A q \in Runs : IsRun(run'[q]) /\ run'[q].calls \in Nat
  BY <1>1 DEF RunsFormed
<1>4. QED
  BY <1>1, <1>2, <1>3 DEF RunsFormed, IsRun

-----------------------------------------------------------------------------
(* What a step has to show. *)

\* A run that was answered keeps what it showed and its answer.
AnswersKept ==
    \A q \in Runs : run[q].resume # "none" =>
        run'[q].shown = run[q].shown /\ run'[q].resume = run[q].resume /\ run'[q].hash = run[q].hash

LEMMA ConfirmedStays ==
    ASSUME AnswersKept
    PROVE  \A d : Confirmed(d) => \E r \in Runs : /\ d.of = r /\ run'[r].shown = d
                                               /\ run'[r].resume = "CONFIRM" /\ run'[r].hash = d
  BY DEF Confirmed, AnswersKept

\* New issues come from the sessions, and what is newly created was confirmed before.
LEMMA CreatesStep ==
    ASSUME CreatesConfirmed, AnswersKept, NEW r \in Runs,
           \A q \in Runs \ {r} : call'[q] = call[q],
           \/ checkpoint' = checkpoint
           \/ checkpoint'.next = "create" =>
                 \E d : d = checkpoint'.state.receipt.draft /\ Confirmed(d),
           call'[r].at = "create" => \E d : d = call'[r].state.receipt.draft /\ Confirmed(d),
           \A w \in call'[r].wrote : w.kind = "issue" => w \in call[r].wrote \/ Confirmed(w.draft),
           \A i \in issues' : i \in issues \/ (i.kind = "issue" /\ i \in call[r].wrote)
    PROVE  CreatesConfirmed'
<1>1. checkpoint'.next = "create" => \E d : d = checkpoint'.state.receipt.draft /\ Confirmed(d)
  BY DEF CreatesConfirmed
<1>2. \A q \in Runs : call'[q].at = "create" =>
         \E d : d = call'[q].state.receipt.draft /\ Confirmed(d)
  <2>1. ASSUME NEW q \in Runs \ {r}, call'[q].at = "create"
        PROVE  \E d : d = call'[q].state.receipt.draft /\ Confirmed(d)
    <3>1. call'[q] = call[q] /\ Confirmed(call[q].state.receipt.draft)
      BY <2>1 DEF CreatesConfirmed
    <3>2. QED
      BY <3>1
  <2>2. QED
    BY <2>1
<1>3. \A q \in Runs : \A w \in call'[q].wrote : w.kind = "issue" => Confirmed(w.draft)
  BY DEF CreatesConfirmed
<1>4. \A i \in issues' \ OldIssues : Confirmed(i.draft)
  BY DEF CreatesConfirmed
<1>5. \A d : Confirmed(d) => \E q \in Runs : /\ d.of = q /\ run'[q].shown = d
                                           /\ run'[q].resume = "CONFIRM" /\ run'[q].hash = d
  BY ConfirmedStays
<1>6. (checkpoint.next = "create" => Confirmed(checkpoint.state.receipt.draft))'
  <2>1. SUFFICES ASSUME checkpoint'.next = "create"
                 PROVE  Confirmed(checkpoint.state.receipt.draft)'
    OBVIOUS
  <2>2. PICK d : d = checkpoint'.state.receipt.draft /\ Confirmed(d)
    BY <1>1, <2>1
  <2>3. QED
    BY <1>5, <2>2 DEF Confirmed
<1>7. (\A q \in Runs : call[q].at = "create" => Confirmed(call[q].state.receipt.draft))'
  <2>1. SUFFICES ASSUME NEW q \in Runs, call'[q].at = "create"
                 PROVE  Confirmed(call[q].state.receipt.draft)'
    OBVIOUS
  <2>2. PICK d : d = call'[q].state.receipt.draft /\ Confirmed(d)
    BY <1>2, <2>1
  <2>3. QED
    BY <1>5, <2>2 DEF Confirmed
<1>8. (\A q \in Runs : \A w \in call[q].wrote : w.kind = "issue" => Confirmed(w.draft))'
  BY <1>3, <1>5 DEF Confirmed
<1>9. (\A i \in issues \ OldIssues : Confirmed(i.draft))'
  BY <1>4, <1>5 DEF Confirmed
<1>10. QED
  BY <1>6, <1>7, <1>8, <1>9 DEF CreatesConfirmed

LEMMA OthersGood ==
    ASSUME NEW q \in Runs, CallGood(q), RunGood(q), call'[q] = call[q], run'[q] = run[q],
           rows \subseteq rows'
    PROVE  CallGood(q)' /\ RunGood(q)'
<1>1. CallGood(q)'
  BY DEF CallGood, OwnWork, Stored, OwnDraft, OwnEvidence
<1>2. RunGood(q)'
  BY DEF RunGood, Stored, OwnDraft, OwnEvidence
<1>3. QED
  BY <1>1, <1>2

LEMMA StepKeepsInv ==
    ASSUME ThreadInv, NEW r \in Runs, Formed', CallGood(r)', RunGood(r)', CreatesConfirmed',
           \A q \in Runs \ {r} : call'[q] = call[q] /\ run'[q] = run[q], rows \subseteq rows'
    PROVE  ThreadInv'
<1>1. \A q \in Runs \ {r} : CallGood(q)' /\ RunGood(q)'
  BY OthersGood DEF ThreadInv
<1>2. \A q \in Runs : CallGood(q)' /\ RunGood(q)'
  BY <1>1
<1>3. QED
  BY <1>2 DEF ThreadInv

\* A node returned.
LEMMA AdvanceEffect ==
    ASSUME ThreadInv, NEW r \in Runs, NEW s, NEW new, NEW next, Advance(r, s, new, next), IsState(s)
    PROVE  /\ CallsFormed' /\ \A q \in Runs \ {r} : call'[q] = call[q]
           /\ call'[r].state = s /\ call'[r].wrote = call[r].wrote \cup new /\ call'[r].at = next
           /\ call'[r].resume = call[r].resume /\ call'[r].hash = call[r].hash
           /\ call'[r].outcome = call[r].outcome
<1>1. Formed /\ IsCall(call[r])
  BY DEF ThreadInv, Formed, CallsFormed
<1>2. PICK y : y = [call[r] EXCEPT !.state = s, !.wrote = @ \cup new, !.at = next]
  OBVIOUS
<1>3. /\ IsCall(y) /\ y.state = s /\ y.wrote = call[r].wrote \cup new /\ y.at = next
      /\ y.resume = call[r].resume /\ y.hash = call[r].hash /\ y.outcome = call[r].outcome
  BY <1>1, <1>2 DEF IsCall
<1>4. call' = [call EXCEPT ![r] = y]
  BY <1>2 DEF Advance
<1>5. QED
  BY <1>1, <1>3, <1>4, CallChanges DEF Formed

LEMMA AdvanceStep ==
    ASSUME ThreadInv, NEW r \in Runs, NEW s, NEW new, NEW next, Advance(r, s, new, next), IsState(s),
           UNCHANGED <<run, rows, issues>>,
           call[r].at \notin {"idle", "persist"}, next \notin {"idle", "asks", "persist"},
           call[r].resume = "none" => OwnWork(r, s, call[r].wrote \cup new, next),
           next = "create" => Confirmed(s.receipt.draft),
           \A w \in new : w.kind = "issue" => Confirmed(w.draft)
    PROVE  ThreadInv'
<1>1. Formed /\ CallGood(r) /\ RunGood(r) /\ CreatesConfirmed
  BY DEF ThreadInv
<1>2. /\ CallsFormed' /\ \A q \in Runs \ {r} : call'[q] = call[q]
      /\ call'[r].state = s /\ call'[r].wrote = call[r].wrote \cup new /\ call'[r].at = next
      /\ call'[r].resume = call[r].resume /\ call'[r].hash = call[r].hash
      /\ call'[r].outcome = call[r].outcome
  BY AdvanceEffect
<1>3. checkpoint' = checkpoint \/ (checkpoint'.state = s /\ checkpoint'.next = next)
  BY DEF Advance
<1>4. run' = run /\ rows' = rows /\ issues' = issues
  OBVIOUS
<1>5. Formed'
  BY <1>1, <1>2, <1>3, <1>4 DEF Formed, RunsFormed, IsRun, IsState
<1>6. CallGood(r)'
  <2>1. call[r].outcome # "WAITING_CONFIRMATION"
    BY <1>1 DEF CallGood
  <2>2. call[r].resume = "none" => OwnWork(r, call[r].state, call[r].wrote, call[r].at)'
    BY <1>2, <1>4 DEF OwnWork, OwnDraft, OwnEvidence
  <2>3. QED
    BY <1>1, <1>2, <1>4, <2>1, <2>2 DEF CallGood
<1>7. RunGood(r)'
  BY <1>1, <1>4 DEF RunGood, Stored, OwnDraft, OwnEvidence
<1>8. CreatesConfirmed'
  <2>1. AnswersKept
    BY <1>4 DEF AnswersKept
  <2>2. next = "create" => \E d : d = s.receipt.draft /\ Confirmed(d)
    OBVIOUS
  <2>3. \/ checkpoint' = checkpoint
        \/ checkpoint'.next = "create" =>
              \E d : d = checkpoint'.state.receipt.draft /\ Confirmed(d)
    BY <1>3, <2>2
  <2>4. call'[r].at = "create" => \E d : d = call'[r].state.receipt.draft /\ Confirmed(d)
    BY <1>2, <2>2
  <2>5. \A w \in call'[r].wrote : w.kind = "issue" => w \in call[r].wrote \/ Confirmed(w.draft)
    BY <1>2
  <2>6. QED
    BY <1>1, <1>2, <1>4, <2>1, <2>3, <2>4, <2>5, CreatesStep
<1>9. QED
  BY <1>2, <1>4, <1>5, <1>6, <1>7, <1>8, StepKeepsInv

-----------------------------------------------------------------------------
(* The nodes. *)

\* The state of a call, and what is known of a call that started from the beginning.
LEMMA AtNode ==
    ASSUME ThreadInv, NEW r \in Runs, call[r].at \notin {"idle", "persist"}
    PROVE  /\ IsState(State(r)) /\ RunGood(r) /\ CallGood(r)
           /\ call[r].resume = run[r].resume
           /\ call[r].resume = "none" => OwnWork(r, State(r), call[r].wrote, call[r].at)
           /\ call[r].resume # "none" => call[r].hash = run[r].hash
  BY DEF ThreadInv, Formed, CallsFormed, CallGood, State

LEMMA RefusesStep ==
    ASSUME ThreadInv, NEW r \in Runs, Refuses(r), call[r].at \notin {"idle", "persist"},
           UNCHANGED <<run, rows, issues>>
    PROVE  ThreadInv'
<1>1. IsState(State(r)) /\ (call[r].resume = "none" => State(r).run = r)
  BY AtNode DEF OwnWork
<1>2. PICK s : s = [State(r) EXCEPT !.route = "refusal"]
  OBVIOUS
<1>3. IsState(s) /\ s.run = State(r).run
  BY <1>1, <1>2 DEF IsState
<1>4. PICK new : new = {} /\ Advance(r, s, new, "end")
  BY <1>2 DEF Refuses
<1>5. call[r].resume = "none" => OwnWork(r, s, call[r].wrote \cup new, "end")
  BY <1>1, <1>3 DEF OwnWork
<1>6. \A w \in new : w.kind = "issue" => Confirmed(w.draft)
  BY <1>4
<1>7. QED
  BY <1>3, <1>4, <1>5, <1>6, AdvanceStep

LEMMA AnswerStep ==
    ASSUME ThreadInv, NEW r \in Runs, Answer(r)
    PROVE  ThreadInv'
<1>1. call[r].at = "qa" /\ UNCHANGED <<run, rows, issues>>
  BY DEF Answer
<1>2. IsState(State(r)) /\ (call[r].resume = "none" => State(r).run = r)
  BY <1>1, AtNode DEF OwnWork
<1>3. PICK a, route, s :
         /\ a = Row(r, "answer") /\ s = [State(r) EXCEPT !.answer = a, !.route = route]
         /\ Advance(r, s, {a}, "end")
  BY DEF Answer
<1>4. IsState(s) /\ s.run = State(r).run
  BY <1>2, <1>3 DEF IsState
<1>5. a.kind # "issue"
  BY <1>3 DEF Row
<1>6. call[r].resume = "none" => OwnWork(r, s, call[r].wrote \cup {a}, "end")
  BY <1>2, <1>4 DEF OwnWork
<1>7. QED
  BY <1>1, <1>3, <1>4, <1>5, <1>6, AdvanceStep

LEMMA ResolveScopeStep ==
    ASSUME ThreadInv, NEW r \in Runs, ResolveScope(r)
    PROVE  ThreadInv'
<1>1. call[r].at = "scope" /\ UNCHANGED <<run, rows, issues>>
  BY DEF ResolveScope
<1>2. IsState(State(r)) /\ (call[r].resume = "none" => State(r).run = r)
  BY <1>1, AtNode DEF OwnWork
<1>3. PICK a, s, new, next :
         /\ a = Row(r, "scope") /\ s = [State(r) EXCEPT !.scope = a] /\ next = AfterScope(r)
         /\ new = {a} /\ Advance(r, s, new, next)
  BY DEF ResolveScope
<1>4. IsState(s) /\ s.run = State(r).run
  BY <1>2, <1>3 DEF IsState
<1>5. a.kind # "issue"
  BY <1>3 DEF Row
<1>6. /\ next \in {"search", "evidence"}
      /\ next = "search" => run[r].mode = "issue_lookup"
  BY <1>3 DEF AfterScope
<1>7. call[r].resume = "none" => OwnWork(r, s, call[r].wrote \cup new, next)
  BY <1>2, <1>4, <1>6 DEF OwnWork
<1>8. \A w \in new : w.kind = "issue" => Confirmed(w.draft)
  BY <1>3, <1>5
<1>9. call[r].at \notin {"idle", "persist"} /\ next \notin {"idle", "asks", "persist", "create"}
  BY <1>1, <1>6
<1>10. QED
  BY <1>1, <1>3, <1>4, <1>7, <1>8, <1>9, AdvanceStep

LEMMA RetrieveEvidenceStep ==
    ASSUME ThreadInv, NEW r \in Runs, RetrieveEvidence(r)
    PROVE  ThreadInv'
<1>1. call[r].at = "evidence" /\ UNCHANGED <<run, rows, issues>>
  BY DEF RetrieveEvidence
<1>2. IsState(State(r)) /\ (call[r].resume = "none" => State(r).run = r)
  BY <1>1, AtNode DEF OwnWork
<1>3. PICK found \in SUBSET SelectVersions(Versions) :
         LET b == [kind |-> "bundle", of |-> State(r).run, by |-> By(r), versions |-> found]
             s == IF found = {} THEN [State(r) EXCEPT !.route = "refusal"]
                  ELSE [State(r) EXCEPT !.bundle = b, !.route = "issue_evidence_ready"]
         IN  Advance(r, s, IF found = {} THEN {} ELSE {b}, AfterEvidence(s))
  BY DEF RetrieveEvidence
<1>4. CASE found = {}
  <2>1. PICK s : /\ s = [State(r) EXCEPT !.route = "refusal"]
                 /\ Advance(r, s, {}, AfterEvidence(s))
    BY <1>3, <1>4
  <2>2. IsState(s) /\ s.run = State(r).run /\ s.route = "refusal"
    BY <1>2, <2>1 DEF IsState
  <2>3. AfterEvidence(s) = "end"
    BY <2>2 DEF AfterEvidence
  <2>4. PICK new, next : new = {} /\ next = "end" /\ Advance(r, s, new, next)
    BY <2>1, <2>3
  <2>5. call[r].resume = "none" => OwnWork(r, s, call[r].wrote \cup new, next)
    BY <1>2, <2>2, <2>4 DEF OwnWork
  <2>6. \A w \in new : w.kind # "issue"
    BY <2>4
  <2>7. call[r].at \notin {"idle", "persist"} /\ next \notin {"idle", "asks", "persist", "create"}
    BY <1>1, <2>4
  <2>8. QED
    BY <1>1, <2>2, <2>4, <2>5, <2>6, <2>7, AdvanceStep
<1>5. CASE found # {}
  <2>1. PICK b, s :
           /\ b = [kind |-> "bundle", of |-> State(r).run, by |-> By(r), versions |-> found]
           /\ s = [State(r) EXCEPT !.bundle = b, !.route = "issue_evidence_ready"]
           /\ Advance(r, s, {b}, AfterEvidence(s))
    BY <1>3, <1>5
  <2>2. /\ IsState(s) /\ s.run = State(r).run /\ s.route = "issue_evidence_ready"
        /\ s.bundle = b
    BY <1>2, <2>1 DEF IsState
  <2>3. AfterEvidence(s) = "search"
    BY <2>2 DEF AfterEvidence
  <2>4. b.kind = "bundle" /\ b.of = State(r).run /\ b.versions = found
    BY <2>1
  <2>5. ASSUME State(r).run = r PROVE OwnEvidence(r, b)
    <3>1. \A v \in found : v.category \in AllowedCategories
      BY DEF SelectVersions
    <3>2. b # None
      BY <2>4 DEF None
    <3>3. QED
      BY <2>4, <2>5, <3>1, <3>2 DEF OwnEvidence
  <2>6. call[r].resume = "none" => OwnWork(r, s, call[r].wrote \cup {b}, "search")
    BY <1>2, <2>2, <2>5 DEF OwnWork
  <2>7. Advance(r, s, {b}, "search")
    BY <2>1, <2>3
  <2>8. \A w \in {b} : w.kind # "issue"
    BY <2>4
  <2>9. PICK new, next : new = {b} /\ next = "search"
    OBVIOUS
  <2>10. /\ Advance(r, s, new, next)
         /\ call[r].resume = "none" => OwnWork(r, s, call[r].wrote \cup new, next)
    BY <2>6, <2>7, <2>9
  <2>11. /\ next \notin {"idle", "asks", "persist", "create"}
         /\ \A w \in new : w.kind # "issue"
    BY <2>8, <2>9
  <2>12. QED
    BY <1>1, <2>2, <2>10, <2>11, AdvanceStep
<1>6. QED
  BY <1>4, <1>5

LEMMA SearchIssuesStep ==
    ASSUME ThreadInv, NEW r \in Runs, SearchIssues(r)
    PROVE  ThreadInv'
<1>1. call[r].at = "search" /\ UNCHANGED <<run, rows, issues>>
  BY DEF SearchIssues
<1>2. /\ IsState(State(r))
      /\ call[r].resume = "none" => OwnWork(r, State(r), call[r].wrote, "search")
  BY <1>1, AtNode
<1>3. PICK f : f = find_candidates(run[State(r).run].text, issues, Project)
  OBVIOUS
<1>4. PICK a, s, new, next :
         /\ a = [kind |-> "candidates", of |-> State(r).run, by |-> By(r), found |-> f]
         /\ s = [State(r) EXCEPT !.candidates = a, !.route = "issue_candidates"]
         /\ next = AfterSearch(r) /\ new = {a} /\ Advance(r, s, new, next)
  BY <1>3 DEF SearchIssues
<1>5. IsState(s) /\ s.run = State(r).run /\ s.bundle = State(r).bundle
  BY <1>2, <1>4 DEF IsState
<1>6. a.kind # "issue"
  BY <1>4
<1>7. next \in {"end", "build"} /\ (next = "build" => run[r].mode # "issue_lookup")
  BY <1>4 DEF AfterSearch
<1>8. call[r].resume = "none" => OwnWork(r, s, call[r].wrote \cup new, next)
  BY <1>2, <1>5, <1>7 DEF OwnWork
<1>9. \A w \in new : w.kind = "issue" => Confirmed(w.draft)
  BY <1>4, <1>6
<1>10. call[r].at \notin {"idle", "persist"} /\ next \notin {"idle", "asks", "persist", "create"}
  BY <1>1, <1>7
<1>11. QED
  BY <1>1, <1>4, <1>5, <1>8, <1>9, <1>10, AdvanceStep

LEMMA BuildDraftStep ==
    ASSUME ThreadInv, NEW r \in Runs, BuildDraft(r)
    PROVE  ThreadInv'
<1>1. call[r].at = "build" /\ UNCHANGED <<run, rows, issues>>
  BY DEF BuildDraft
<1>2. /\ IsState(State(r))
      /\ call[r].resume = "none" => OwnWork(r, State(r), call[r].wrote, "build")
  BY <1>1, AtNode
<1>3. PICK t, links : /\ t = run[State(r).run].text
                      /\ links = IF State(r).candidates = None THEN <<>>
                                 ELSE State(r).candidates.found
  OBVIOUS
<1>4. PICK d, s, new :
         /\ d = [kind |-> "draft", of |-> State(r).run, by |-> By(r), text |-> t,
                 evidence |-> State(r).bundle, links |-> links]
         /\ s = [State(r) EXCEPT !.draft = d, !.route = "confirm_issue_create"]
         /\ new = {d} /\ Advance(r, s, new, "confirm")
  BY <1>3 DEF BuildDraft
<1>5. IsState(s) /\ s.run = State(r).run /\ s.bundle = State(r).bundle /\ s.draft = d
  BY <1>2, <1>4 DEF IsState
<1>6. d.kind = "draft" /\ d.of = State(r).run /\ d.evidence = State(r).bundle
  BY <1>4
<1>7. call[r].resume = "none" => OwnWork(r, s, call[r].wrote \cup new, "confirm")
  BY <1>2, <1>4, <1>5, <1>6 DEF OwnWork, OwnDraft
<1>8. \A w \in new : w.kind = "issue" => Confirmed(w.draft)
  BY <1>4, <1>6
<1>9. call[r].at \notin {"idle", "persist"} /\ "confirm" \notin {"idle", "asks", "persist", "create"}
  BY <1>1
<1>10. QED
  BY <1>1, <1>4, <1>5, <1>7, <1>8, <1>9, AdvanceStep

LEMMA RecordDecisionStep ==
    ASSUME ThreadInv, NEW r \in Runs, RecordDecision(r)
    PROVE  ThreadInv'
<1>1. call[r].at = "confirm" /\ call[r].resume # "none" /\ UNCHANGED <<run, rows, issues>>
  BY DEF RecordDecision
<1>2. /\ IsState(State(r)) /\ RunGood(r)
      /\ call[r].resume = run[r].resume /\ call[r].hash = run[r].hash
  BY <1>1, AtNode
<1>3. CASE Refuses(r)
  BY <1>1, <1>3, RefusesStep
<1>4. CASE /\ HashMatches(r)
           /\ LET t == [kind |-> "receipt", of |-> State(r).run, by |-> By(r), draft |-> State(r).draft]
                  confirmed == call[r].resume = "CONFIRM"
              IN  Advance(r, [State(r) EXCEPT !.receipt = t,
                                 !.route = IF confirmed THEN "execute_issue_create" ELSE "cancelled"],
                          {t}, IF confirmed THEN "create" ELSE "end")
  <2>1. PICK t, s, new, next, route :
           /\ t = [kind |-> "receipt", of |-> State(r).run, by |-> By(r), draft |-> State(r).draft]
           /\ s = [State(r) EXCEPT !.receipt = t, !.route = route]
           /\ next = IF call[r].resume = "CONFIRM" THEN "create" ELSE "end"
           /\ new = {t} /\ Advance(r, s, new, next)
    BY <1>4
  <2>2. IsState(s) /\ s.receipt = t
    BY <1>2, <2>1 DEF IsState
  <2>3. t.kind = "receipt" /\ t.draft = State(r).draft
    BY <2>1
  <2>4. t.draft = run[r].hash
    BY <1>2, <1>4, <2>3 DEF HashMatches
  <2>5. t.draft.of = r /\ run[r].shown = t.draft
    BY <1>1, <1>2, <2>4 DEF RunGood, Stored, OwnDraft
  <2>6. next \in {"create", "end"} /\ (next = "create" => Confirmed(s.receipt.draft))
    BY <1>2, <2>1, <2>2, <2>4, <2>5 DEF Confirmed
  <2>7. \A w \in new : w.kind = "issue" => Confirmed(w.draft)
    BY <2>1, <2>3
  <2>8. call[r].at \notin {"idle", "persist"} /\ next \notin {"idle", "asks", "persist"}
    BY <1>1, <2>6
  <2>9. QED
    BY <1>1, <2>1, <2>2, <2>6, <2>7, <2>8, AdvanceStep
<1>5. QED
  BY <1>3, <1>4 DEF RecordDecision

LEMMA ExecuteCreateStep ==
    ASSUME ThreadInv, NEW r \in Runs, ExecuteCreate(r)
    PROVE  ThreadInv'
<1>1. call[r].at = "create" /\ UNCHANGED <<run, rows, issues>>
  BY DEF ExecuteCreate
<1>2. IsState(State(r)) /\ (call[r].resume = "none" => State(r).run = r)
  BY <1>1, AtNode DEF OwnWork
<1>3. CASE Refuses(r)
  BY <1>1, <1>3, RefusesStep
<1>4. CASE LET a == Row(r, "creation")
               d == State(r).receipt.draft
               new == IF \E i \in issues : i.draft = d THEN {} ELSE {IssueOf(d)}
           IN  Advance(r, [State(r) EXCEPT !.creation = a, !.route = "issue_created"],
                       {a} \cup new, "end")
  <2>1. PICK a, d, new, s :
           /\ a = Row(r, "creation") /\ d = State(r).receipt.draft
           /\ new \in {{a}, {a, IssueOf(d)}}
           /\ s = [State(r) EXCEPT !.creation = a, !.route = "issue_created"]
           /\ Advance(r, s, new, "end")
    <3>1. PICK a, d, n, s :
             /\ a = Row(r, "creation") /\ d = State(r).receipt.draft
             /\ n = IF \E i \in issues : i.draft = d THEN {} ELSE {IssueOf(d)}
             /\ s = [State(r) EXCEPT !.creation = a, !.route = "issue_created"]
             /\ Advance(r, s, {a} \cup n, "end")
      BY <1>4
    <3>2. {a} \cup n \in {{a}, {a, IssueOf(d)}}
      BY <3>1
    <3>3. QED
      BY <3>1, <3>2
  <2>2. IsState(s) /\ s.run = State(r).run
    BY <1>2, <2>1 DEF IsState
  <2>3. a.kind # "issue" /\ IssueOf(d).draft = d
    BY <2>1 DEF Row, IssueOf
  <2>4. Confirmed(d)
    BY <1>1, <2>1 DEF ThreadInv, CreatesConfirmed, State
  <2>5. \A w \in new : w.kind = "issue" => Confirmed(w.draft)
    BY <2>1, <2>3, <2>4
  <2>6. call[r].resume = "none" => OwnWork(r, s, call[r].wrote \cup new, "end")
    BY <1>2, <2>2 DEF OwnWork
  <2>7. call[r].at \notin {"idle", "persist"} /\ "end" \notin {"idle", "asks", "persist", "create"}
    BY <1>1
  <2>8. QED
    BY <1>1, <2>1, <2>2, <2>5, <2>6, <2>7, AdvanceStep
<1>5. QED
  BY <1>3, <1>4 DEF ExecuteCreate

\* The interrupt of a call that executes its run.
LEMMA InterruptStep ==
    ASSUME ThreadInv, NEW r \in Runs, Interrupt(r)
    PROVE  ThreadInv'
<1>1. /\ Formed /\ CallGood(r) /\ RunGood(r) /\ CreatesConfirmed
      /\ IsCall(call[r]) /\ IsState(call[r].state)
  BY DEF ThreadInv, Formed, CallsFormed
<1>2. /\ call[r].at = "confirm" /\ call[r].resume = "none"
      /\ run' = run /\ rows' = rows /\ issues' = issues
      /\ checkpoint'.state = call[r].state /\ checkpoint'.next = "confirm"
  BY DEF Interrupt, State
<1>3. PICK y : y = [call[r] EXCEPT !.at = "asks"]
  OBVIOUS
<1>4. /\ IsCall(y) /\ y.at = "asks" /\ y.state = call[r].state /\ y.wrote = call[r].wrote
      /\ y.resume = call[r].resume /\ y.hash = call[r].hash /\ y.outcome = call[r].outcome
  BY <1>1, <1>3 DEF IsCall
<1>5. call' = [call EXCEPT ![r] = y]
  BY <1>3 DEF Interrupt
<1>6. CallsFormed' /\ call'[r] = y /\ \A q \in Runs \ {r} : call'[q] = call[q]
  BY <1>1, <1>4, <1>5, CallChanges DEF Formed
<1>7. Formed'
  BY <1>1, <1>2, <1>6 DEF Formed, RunsFormed, IsRun, IsState
<1>8. CallGood(r)'
  <2>1. OwnWork(r, call[r].state, call[r].wrote, "confirm")
    BY <1>1, <1>2 DEF CallGood
  <2>2. OwnWork(r, call[r].state, call[r].wrote, call[r].at)'
    BY <1>2, <1>4, <1>6, <2>1 DEF OwnWork, OwnDraft, OwnEvidence
  <2>3. QED
    BY <1>1, <1>2, <1>4, <1>6, <2>2 DEF CallGood
<1>9. RunGood(r)'
  BY <1>1, <1>2 DEF RunGood, Stored, OwnDraft, OwnEvidence
<1>10. AnswersKept
  BY <1>2 DEF AnswersKept
<1>11. CreatesConfirmed'
  BY <1>1, <1>2, <1>4, <1>6, <1>10, CreatesStep
<1>12. QED
  BY <1>2, <1>6, <1>7, <1>8, <1>9, <1>11, StepKeepsInv

-----------------------------------------------------------------------------
(* The clients, and the beginning and the end of a call. *)

\* A step that changes the row of a run and leaves its call idle.
LEMMA RowStep ==
    ASSUME ThreadInv, NEW r \in Runs, NEW y, run' = [run EXCEPT ![r] = y], IsRun(y), y.calls \in Nat,
           call' = call \/ call' = [call EXCEPT ![r] = IdleCall],
           call'[r].at = "idle", UNCHANGED <<rows, issues, checkpoint>>, RunGood(r)', AnswersKept
    PROVE  ThreadInv'
<1>1. Formed /\ CallGood(r) /\ CreatesConfirmed
  BY DEF ThreadInv
<1>2. RunsFormed' /\ run'[r] = y /\ \A q \in Runs \ {r} : run'[q] = run[q]
  BY <1>1, RunChanges DEF Formed
<1>3. /\ CallsFormed' /\ (call'[r] = call[r] \/ call'[r] = IdleCall)
      /\ \A q \in Runs \ {r} : call'[q] = call[q]
  <2>1. CASE call' = call
    BY <1>1, <2>1 DEF Formed, CallsFormed, IsCall, IsState
  <2>2. CASE call' = [call EXCEPT ![r] = IdleCall]
    BY <1>1, <2>2, EmptyRecords, CallChanges DEF Formed
  <2>3. QED
    BY <2>1, <2>2
<1>4. Formed'
  BY <1>1, <1>2, <1>3 DEF Formed, IsState
<1>5. CallGood(r)'
  BY <1>1, <1>3, EmptyRecords DEF CallGood
<1>6. CreatesConfirmed'
  <2>1. call'[r].wrote \subseteq call[r].wrote
    BY <1>3, EmptyRecords
  <2>2. QED
    BY <1>1, <1>3, <2>1, CreatesStep
<1>7. QED
  BY <1>2, <1>3, <1>4, <1>5, <1>6, StepKeepsInv

LEMMA CreateRunStep ==
    ASSUME ThreadInv, NEW r \in Runs, NEW mode, NEW text, CreateRun(r, mode, text)
    PROVE  ThreadInv'
<1>1. /\ Formed /\ CallGood(r) /\ RunGood(r) /\ run[r].status = "ABSENT"
      /\ call' = call /\ UNCHANGED <<rows, issues, checkpoint>>
  BY DEF ThreadInv, CreateRun
<1>2. PICK y : y = [NoRun EXCEPT !.mode = mode, !.text = text, !.status = "QUEUED",
                                 !.before = issues]
  OBVIOUS
<1>3. IsRun(y) /\ y.status = "QUEUED" /\ y.shown = None /\ y.resume = "none" /\ y.calls = 0
  BY <1>2, EmptyRecords DEF IsRun
<1>4. y.calls \in Nat
  BY <1>3
<1>5. run' = [run EXCEPT ![r] = y]
  BY <1>2 DEF CreateRun
<1>6. RunsFormed' /\ run'[r] = y /\ \A q \in Runs \ {r} : run'[q] = run[q]
  BY <1>1, <1>3, <1>5, <1>4, RunChanges DEF Formed
<1>7. RunGood(r)'
  BY <1>3, <1>6 DEF RunGood
<1>8. AnswersKept
  BY <1>1, <1>6 DEF AnswersKept, RunGood
<1>9. call'[r].at = "idle"
  BY <1>1 DEF CallGood
<1>10. QED
  BY <1>1, <1>3, <1>4, <1>5, <1>7, <1>8, <1>9, RowStep

LEMMA ResumeRunStep ==
    ASSUME ThreadInv, NEW r \in Runs, NEW action \in {"CONFIRM", "CANCEL"}, ResumeRun(r, action)
    PROVE  ThreadInv'
<1>1. /\ Formed /\ CallGood(r) /\ RunGood(r) /\ run[r].status = "WAITING_CONFIRMATION"
      /\ call' = call /\ UNCHANGED <<rows, issues, checkpoint>>
      /\ IsRun(run[r]) /\ run[r].calls \in Nat
  BY DEF ThreadInv, ResumeRun, Formed, RunsFormed
<1>2. PICK y : y = [run[r] EXCEPT !.status = "QUEUED", !.tries = 0, !.resume = action,
                                  !.hash = run[r].shown]
  OBVIOUS
<1>3. /\ IsRun(y) /\ y.status = "QUEUED" /\ y.shown = run[r].shown /\ y.resume = action
      /\ y.hash = run[r].shown /\ y.calls = run[r].calls
  BY <1>1, <1>2 DEF IsRun
<1>4. run' = [run EXCEPT ![r] = y]
  BY <1>2 DEF ResumeRun
<1>5. RunsFormed' /\ run'[r] = y /\ \A q \in Runs \ {r} : run'[q] = run[q]
  BY <1>1, <1>3, <1>4, RunChanges DEF Formed
<1>6. RunGood(r)'
  BY <1>1, <1>3, <1>5 DEF RunGood, Stored, OwnDraft, OwnEvidence
<1>7. AnswersKept
  BY <1>1, <1>5 DEF AnswersKept, RunGood
<1>8. call'[r].at = "idle"
  BY <1>1 DEF CallGood
<1>9. QED
  BY <1>1, <1>3, <1>4, <1>6, <1>7, <1>8, RowStep

LEMMA RaisesStep ==
    ASSUME ThreadInv, NEW r \in Runs, NEW last \in {"FAILED", "RUNNING"}, Raises(r, last),
           UNCHANGED <<rows, issues, checkpoint>>
    PROVE  ThreadInv'
<1>1. Formed /\ RunGood(r) /\ IsRun(run[r]) /\ run[r].calls \in Nat
  BY DEF ThreadInv, Formed, RunsFormed
<1>2. PICK st \in {"QUEUED", "FAILED", "RUNNING"} :
         st = IF run[r].tries < MaxAttempts THEN "QUEUED" ELSE last
  OBVIOUS
<1>3. PICK y : y = [run[r] EXCEPT !.status = st]
  OBVIOUS
<1>4. /\ IsRun(y) /\ y.status = st /\ y.shown = run[r].shown /\ y.resume = run[r].resume
      /\ y.hash = run[r].hash /\ y.calls = run[r].calls
  BY <1>1, <1>3 DEF IsRun
<1>5. run' = [run EXCEPT ![r] = y] /\ call' = [call EXCEPT ![r] = IdleCall]
  BY <1>2, <1>3 DEF Raises
<1>6. RunsFormed' /\ run'[r] = y /\ \A q \in Runs \ {r} : run'[q] = run[q]
  BY <1>1, <1>4, <1>5, RunChanges DEF Formed
<1>7. RunGood(r)'
  BY <1>1, <1>2, <1>4, <1>6 DEF RunGood, Stored, OwnDraft, OwnEvidence
<1>8. AnswersKept
  BY <1>4, <1>6 DEF AnswersKept
<1>9. call'[r].at = "idle"
  BY <1>1, <1>5, EmptyRecords, CallChanges DEF Formed
<1>10. QED
  BY <1>1, <1>4, <1>5, <1>7, <1>8, <1>9, RowStep

LEMMA PersistStep ==
    ASSUME ThreadInv, NEW r \in Runs, Persist(r)
    PROVE  ThreadInv'
<1>1. /\ Formed /\ RunGood(r) /\ CallGood(r) /\ IsRun(run[r]) /\ run[r].calls \in Nat
      /\ call[r].at = "persist" /\ UNCHANGED <<rows, issues, checkpoint>>
  BY DEF ThreadInv, Formed, RunsFormed, Persist
<1>2. PICK shown, ref :
         /\ shown = IF call[r].outcome = "WAITING_CONFIRMATION" THEN State(r).draft ELSE run[r].shown
         /\ ref = IF call[r].outcome \in Terminal THEN ResultRef(State(r)) ELSE run[r].ref
  OBVIOUS
<1>3. PICK y : y = [run[r] EXCEPT !.status = call[r].outcome, !.shown = shown, !.ref = ref]
  OBVIOUS
<1>4. /\ IsRun(y) /\ y.status = call[r].outcome /\ y.shown = shown /\ y.resume = run[r].resume
      /\ y.hash = run[r].hash /\ y.calls = run[r].calls
  BY <1>1, <1>3 DEF IsRun
<1>5. run' = [run EXCEPT ![r] = y] /\ call' = [call EXCEPT ![r] = IdleCall]
  BY <1>2, <1>3 DEF Persist
<1>6. RunsFormed' /\ run'[r] = y /\ \A q \in Runs \ {r} : run'[q] = run[q]
  BY <1>1, <1>4, <1>5, RunChanges DEF Formed
<1>7. run[r].resume # "none" => call[r].outcome # "WAITING_CONFIRMATION"
  BY <1>1 DEF CallGood
<1>8. AnswersKept
  BY <1>2, <1>4, <1>6, <1>7 DEF AnswersKept
<1>9. RunGood(r)'
  <2>1. CASE call[r].outcome = "WAITING_CONFIRMATION"
    <3>1. Stored(r, shown) /\ run[r].resume = "none"
      BY <1>1, <1>2, <1>7, <2>1 DEF CallGood, State
    <3>2. QED
      BY <1>1, <1>4, <1>6, <3>1 DEF RunGood, Stored, OwnDraft, OwnEvidence
  <2>2. CASE call[r].outcome # "WAITING_CONFIRMATION"
    <3>1. shown = run[r].shown /\ call[r].outcome # "ABSENT"
      BY <1>1, <1>2, <2>2 DEF CallGood
    <3>2. QED
      BY <1>1, <1>4, <1>6, <2>2, <3>1 DEF RunGood, Stored, OwnDraft, OwnEvidence
  <2>3. QED
    BY <2>1, <2>2
<1>10. call'[r].at = "idle"
  BY <1>1, <1>5, EmptyRecords, CallChanges DEF Formed
<1>11. QED
  BY <1>1, <1>4, <1>5, <1>8, <1>9, <1>10, RowStep

\* A call begins: at the start of its run, or where the checkpoint is.
LEMMA BeginStep ==
    ASSUME ThreadInv, NEW r \in Runs, NEW z, run[r].status = "QUEUED",
           run' = [run EXCEPT ![r].status = "RUNNING", ![r].tries = @ + 1, ![r].calls = @ + 1],
           call' = [call EXCEPT ![r] = z], rows' = rows, issues' = issues,
           IsCall(z), IsState(z.state), z.at \notin {"idle", "asks", "persist"},
           z.resume = run[r].resume, z.wrote = {}, z.outcome = "none",
           run[r].resume # "none" => z.hash = run[r].hash,
           run[r].resume = "none" => z.state.run = r /\ z.at \in {"qa", "scope"},
           z.at = "create" => Confirmed(z.state.receipt.draft),
           IsState(checkpoint'.state), checkpoint' = checkpoint \/ checkpoint'.next # "create"
    PROVE  ThreadInv'
<1>1. /\ Formed /\ RunGood(r) /\ CallGood(r) /\ CreatesConfirmed
      /\ IsRun(run[r]) /\ run[r].calls \in Nat
  BY DEF ThreadInv, Formed, RunsFormed
<1>2. PICK y : y = [run[r] EXCEPT !.status = "RUNNING", !.tries = @ + 1, !.calls = @ + 1]
  OBVIOUS
<1>3. /\ IsRun(y) /\ y.status = "RUNNING" /\ y.shown = run[r].shown /\ y.resume = run[r].resume
      /\ y.hash = run[r].hash /\ y.calls = run[r].calls + 1 /\ y.mode = run[r].mode
  BY <1>1, <1>2 DEF IsRun
<1>4. y.calls \in Nat
  BY <1>1, <1>3
<1>5. run' = [run EXCEPT ![r] = y]
  BY <1>2
<1>6. RunsFormed' /\ run'[r] = y /\ \A q \in Runs \ {r} : run'[q] = run[q]
  BY <1>1, <1>3, <1>4, <1>5, RunChanges DEF Formed
<1>7. CallsFormed' /\ call'[r] = z /\ \A q \in Runs \ {r} : call'[q] = call[q]
  BY <1>1, CallChanges DEF Formed
<1>8. Formed'
  BY <1>6, <1>7 DEF Formed, IsState
<1>9. RunGood(r)'
  <2>1. run'[r].status = "RUNNING" /\ run'[r].shown = run[r].shown
        /\ run'[r].resume = run[r].resume /\ run'[r].hash = run[r].hash
    BY <1>3, <1>6
  <2>2. run'[r].shown # None \/ run'[r].resume # "none" => Stored(r, run[r].shown)
    BY <1>1, <2>1 DEF RunGood
  <2>3. Stored(r, run[r].shown) => Stored(r, run[r].shown)'
    <3>1. PICK d : d = run[r].shown
      OBVIOUS
    <3>2. run'[r].shown = d
      BY <2>1, <3>1
    <3>3. Stored(r, d) => OwnDraft(r, d) /\ d \in rows' /\ d.evidence \in rows'
      BY DEF Stored
    <3>4. QED
      BY <3>1, <3>2, <3>3 DEF Stored, OwnDraft, OwnEvidence
  <2>4. run'[r].resume # "none" => run'[r].hash = run'[r].shown
    BY <1>1, <2>1 DEF RunGood
  <2>5. QED
    BY <2>1, <2>2, <2>3, <2>4 DEF RunGood
<1>10. CallGood(r)'
  <2>1. run[r].resume = "none" => OwnWork(r, call[r].state, call[r].wrote, call[r].at)'
    BY <1>7 DEF OwnWork
  <2>2. QED
    BY <1>3, <1>6, <1>7, <2>1 DEF CallGood
<1>11. AnswersKept
  BY <1>3, <1>6 DEF AnswersKept
<1>12. CreatesConfirmed'
  <2>1. call'[r].at = "create" => \E d : d = call'[r].state.receipt.draft /\ Confirmed(d)
    BY <1>7
  <2>2. QED
    BY <1>1, <1>7, <1>11, <2>1, CreatesStep
<1>13. QED
  BY <1>6, <1>7, <1>8, <1>9, <1>10, <1>12, StepKeepsInv

LEMMA BeginExecuteStep ==
    ASSUME ThreadInv, NEW r \in Runs, BeginExecute(r)
    PROVE  ThreadInv'
<1>1. IsState(checkpoint.state)
  BY DEF ThreadInv, Formed
<1>2. PICK st, first :
         /\ st = ResetForExecute(r) /\ first = IF run[r].mode = "qa" THEN "qa" ELSE "scope"
         /\ call' = [call EXCEPT ![r] = [IdleCall EXCEPT !.state = st, !.at = first]]
         /\ checkpoint' = [state |-> st, next |-> first]
  BY DEF BeginExecute
<1>3. IsState(st) /\ st.run = r
  BY <1>1, <1>2 DEF ResetForExecute, IsState
<1>4. /\ run[r].resume = "none" /\ run[r].status = "QUEUED" /\ rows' = rows /\ issues' = issues
      /\ run' = [run EXCEPT ![r].status = "RUNNING", ![r].tries = @ + 1, ![r].calls = @ + 1]
  BY DEF BeginExecute
<1>5. PICK z : z = [IdleCall EXCEPT !.state = st, !.at = first]
  OBVIOUS
<1>6. /\ IsCall(z) /\ z.at = first /\ z.state = st /\ z.resume = "none" /\ z.wrote = {}
      /\ z.outcome = "none"
  BY <1>5, EmptyRecords DEF IsCall
<1>7. first \in {"qa", "scope"} /\ checkpoint'.state = st /\ checkpoint'.next # "create"
  BY <1>2
<1>8. call' = [call EXCEPT ![r] = z]
  BY <1>2, <1>5
<1>9. IsState(checkpoint'.state)
  BY <1>3, <1>7
<1>10. QED
  BY <1>3, <1>4, <1>6, <1>7, <1>8, <1>9, BeginStep

LEMMA BeginResumeStep ==
    ASSUME ThreadInv, NEW r \in Runs, BeginResume(r)
    PROVE  ThreadInv'
<1>1. /\ IsState(checkpoint.state)
      /\ checkpoint.next = "create" => Confirmed(checkpoint.state.receipt.draft)
  BY DEF ThreadInv, Formed, CreatesConfirmed
<1>2. PICK st, at, z :
         /\ st = checkpoint.state
         /\ at = IF checkpoint.next \in Nodes \ {"qa"} THEN checkpoint.next ELSE "end"
         /\ z = [IdleCall EXCEPT !.state = st, !.resume = run[r].resume, !.hash = run[r].hash,
                                 !.at = at]
         /\ call' = [call EXCEPT ![r] = z]
  BY DEF BeginResume
<1>3. /\ run[r].resume # "none" /\ run[r].status = "QUEUED"
      /\ rows' = rows /\ issues' = issues /\ checkpoint' = checkpoint
      /\ run' = [run EXCEPT ![r].status = "RUNNING", ![r].tries = @ + 1, ![r].calls = @ + 1]
  BY DEF BeginResume
<1>4. /\ IsCall(z) /\ z.at = at /\ z.state = st /\ z.resume = run[r].resume
      /\ z.hash = run[r].hash /\ z.wrote = {} /\ z.outcome = "none"
  BY <1>2, EmptyRecords DEF IsCall
<1>5. at \notin {"idle", "asks", "persist"} /\ (at = "create" => checkpoint.next = "create")
  BY <1>2 DEF Nodes
<1>6. /\ IsState(z.state) /\ IsState(checkpoint'.state)
      /\ at = "create" => Confirmed(z.state.receipt.draft)
  BY <1>1, <1>2, <1>3, <1>4, <1>5
<1>7. /\ z.at \notin {"idle", "asks", "persist"} /\ call' = [call EXCEPT ![r] = z]
      /\ z.at = "create" => Confirmed(z.state.receipt.draft)
  BY <1>2, <1>4, <1>5, <1>6
<1>8. QED
  BY <1>3, <1>4, <1>6, <1>7, BeginStep

LEMMA CommitStep ==
    ASSUME ThreadInv, NEW r \in Runs, Commit(r)
    PROVE  ThreadInv'
<1>1. /\ Formed /\ RunGood(r) /\ CallGood(r) /\ CreatesConfirmed
      /\ IsCall(call[r]) /\ IsState(call[r].state)
  BY DEF ThreadInv, Formed, CallsFormed
<1>2. /\ call[r].at \in {"end", "asks"} /\ run' = run /\ checkpoint' = checkpoint
      /\ rows' = rows \cup {w \in call[r].wrote : w.kind # "issue"}
      /\ issues' = issues \cup {w \in call[r].wrote : w.kind = "issue"}
  BY DEF Commit, Committed
<1>3. PICK o : o = IF call[r].at = "asks" THEN "WAITING_CONFIRMATION" ELSE Projected(State(r))
  OBVIOUS
<1>4. Projected(State(r)) \in {"REFUSED", "CANCELLED", "SUCCEEDED"}
  BY DEF Projected
<1>5. PICK y : y = [call[r] EXCEPT !.wrote = {}, !.at = "persist", !.outcome = o]
  OBVIOUS
<1>6. /\ IsCall(y) /\ y.at = "persist" /\ y.state = call[r].state /\ y.wrote = {}
      /\ y.resume = call[r].resume /\ y.hash = call[r].hash /\ y.outcome = o
  BY <1>1, <1>5 DEF IsCall
<1>7. call' = [call EXCEPT ![r] = y]
  BY <1>3, <1>5 DEF Commit
<1>8. CallsFormed' /\ call'[r] = y /\ \A q \in Runs \ {r} : call'[q] = call[q]
  BY <1>1, <1>6, <1>7, CallChanges DEF Formed
<1>9. Formed'
  BY <1>1, <1>2, <1>8 DEF Formed, RunsFormed, IsRun, IsState
<1>10. RunGood(r)'
  BY <1>1, <1>2 DEF RunGood, Stored, OwnDraft, OwnEvidence
<1>11. CallGood(r)'
  <2>1. call[r].resume = "none" => OwnWork(r, call[r].state, call[r].wrote, call[r].at)'
    BY <1>1, <1>2, <1>6, <1>8 DEF CallGood, OwnWork
  <2>2. ASSUME call[r].at = "asks" PROVE Stored(r, call[r].state.draft)'
    <3>1. OwnWork(r, call[r].state, call[r].wrote, "asks")
      BY <1>1, <2>2 DEF CallGood
    <3>2. PICK d : d = call[r].state.draft
      OBVIOUS
    <3>3. /\ OwnDraft(r, d) /\ d \in call[r].wrote /\ d.evidence \in call[r].wrote
          /\ d.kind # "issue" /\ d.evidence.kind # "issue"
      BY <3>1, <3>2 DEF OwnWork, OwnDraft, OwnEvidence
    <3>4. d \in rows' /\ d.evidence \in rows'
      BY <1>2, <3>3
    <3>5. call'[r].state.draft = d
      BY <1>6, <1>8, <3>2
    <3>6. QED
      BY <3>3, <3>4, <3>5 DEF Stored, OwnDraft, OwnEvidence
  <2>3. o # "ABSENT" /\ (o = "WAITING_CONFIRMATION" => call[r].at = "asks")
    BY <1>3, <1>4
  <2>4. QED
    BY <1>1, <1>2, <1>6, <1>8, <2>1, <2>2, <2>3 DEF CallGood
<1>12. AnswersKept
  BY <1>2 DEF AnswersKept
<1>13. CreatesConfirmed'
  BY <1>1, <1>2, <1>6, <1>8, <1>12, CreatesStep
<1>14. QED
  BY <1>2, <1>8, <1>9, <1>10, <1>11, <1>13, StepKeepsInv

-----------------------------------------------------------------------------
(* The links of a draft. *)

\* What a step keeps of the report of a run.
SameReport(q) == run'[q].text = run[q].text /\ run'[q].before = run[q].before

LEMMA RankingStays ==
    \A text, before, now, later, links :
        IsRanking(text, before, now, links) /\ now \subseteq later =>
            IsRanking(text, before, later, links)
  BY DEF IsRanking

\* A ranking stays one while the tracker grows.
LEMMA LinksStay ==
    ASSUME NEW r \in Runs, SameReport(r), issues \subseteq issues'
    PROVE  /\ \A d : OwnLinks(r, d) =>
                 /\ d.text = run'[r].text
                 /\ IsRanking(run'[r].text, run'[r].before, issues', d.links)
           /\ \A f : RankedLinks(r, f) => IsRanking(run'[r].text, run'[r].before, issues', f)
  BY RankingStays DEF SameReport, OwnLinks, RankedLinks

\* What a step of run r has to show.
LEMMA StepKeepsLinks ==
    ASSUME LinksInv, NEW r \in Runs, \A q \in Runs \ {r} : call'[q] = call[q] /\ run'[q] = run[q],
           issues \subseteq issues', IsFiniteSet(issues'), \A i \in issues' : Sound(i),
           IsFiniteSet(call'[r].wrote), \A w \in call'[r].wrote : w.kind = "issue" => Sound(w),
           CallLinks(r)', RunLinks(r)'
    PROVE  LinksInv'
<1>1. IssuesSound'
  BY DEF LinksInv, IssuesSound
<1>2. ASSUME NEW q \in Runs \ {r} PROVE CallLinks(q)' /\ RunLinks(q)'
  <2>1. CallLinks(q) /\ RunLinks(q) /\ call'[q] = call[q] /\ run'[q] = run[q]
    BY DEF LinksInv
  <2>2. SameReport(q)
    BY <2>1 DEF SameReport
  <2>3. CallLinks(q)'
    BY <2>1, <2>2, LinksStay DEF CallLinks, Ranked, OwnLinks, RankedLinks
  <2>4. RunLinks(q)'
    BY <2>1, <2>2, LinksStay DEF RunLinks, OwnLinks, RankedLinks
  <2>5. QED
    BY <2>3, <2>4
<1>3. QED
  BY <1>1, <1>2 DEF LinksInv

\* A node returned.
LEMMA AdvanceLinks ==
    ASSUME ThreadInv, LinksInv, NEW r \in Runs, NEW s, NEW new, NEW next, Advance(r, s, new, next),
           IsState(s), run' = run, issues' = issues, call[r].at # "persist",
           call[r].resume = "none" => Ranked(r, s, next),
           IsFiniteSet(new), \A w \in new : w.kind = "issue" => Sound(w)
    PROVE  LinksInv'
<1>1. /\ CallsFormed' /\ \A q \in Runs \ {r} : call'[q] = call[q]
      /\ call'[r].state = s /\ call'[r].wrote = call[r].wrote \cup new /\ call'[r].at = next
      /\ call'[r].resume = call[r].resume /\ call'[r].outcome = call[r].outcome
  BY AdvanceEffect
<1>2. IssuesSound /\ CallLinks(r) /\ RunLinks(r) /\ CallGood(r)
  BY DEF LinksInv, ThreadInv
<1>3. call[r].outcome # "WAITING_CONFIRMATION"
  BY <1>2 DEF CallGood
<1>4. CallLinks(r)'
  BY <1>1, <1>3 DEF CallLinks, Ranked, OwnLinks, RankedLinks
<1>5. RunLinks(r)'
  BY <1>2 DEF RunLinks, OwnLinks, RankedLinks
<1>6. IsFiniteSet(call'[r].wrote)
  <2>1. PICK W : W = call[r].wrote /\ IsFiniteSet(W)
    BY <1>2 DEF IssuesSound
  <2>2. IsFiniteSet(W \cup new)
    BY <2>1, FS_Union
  <2>3. QED
    BY <1>1, <2>1, <2>2
<1>7. \A w \in call'[r].wrote : w.kind = "issue" => Sound(w)
  BY <1>1, <1>2 DEF IssuesSound
<1>8. IsFiniteSet(issues') /\ \A i \in issues' : Sound(i)
  BY <1>2 DEF IssuesSound
<1>9. QED
  BY <1>1, <1>4, <1>5, <1>6, <1>7, <1>8, StepKeepsLinks

\* The nodes that rank nothing and write no draft.
LEMMA OtherNodes ==
    ASSUME ThreadInv, NEW r \in Runs,
           Answer(r) \/ ResolveScope(r) \/ RetrieveEvidence(r) \/ RecordDecision(r)
             \/ (Refuses(r) /\ call[r].at = "create")
    PROVE  /\ call[r].at # "persist"
           /\ \E s, new, next : /\ Advance(r, s, new, next) /\ IsState(s)
                                /\ next \notin {"build", "confirm", "asks"}
                                /\ IsFiniteSet(new) /\ \A w \in new : w.kind # "issue"
<1>1. IsState(State(r))
  BY DEF ThreadInv, Formed, CallsFormed, State
<1>2. \A x : IsFiniteSet({x})
  BY FS_Singleton
<1>3. IsFiniteSet({})
  BY FS_EmptySet
<1>4. CASE Answer(r)
  <2>1. PICK a, route, s :
           /\ a = Row(r, "answer") /\ s = [State(r) EXCEPT !.answer = a, !.route = route]
           /\ Advance(r, s, {a}, "end")
    BY <1>4 DEF Answer
  <2>2. IsState(s) /\ a.kind # "issue" /\ call[r].at = "qa"
    BY <1>1, <1>4, <2>1 DEF IsState, Row, Answer
  <2>3. PICK new : new = {a}
    OBVIOUS
  <2>4. Advance(r, s, new, "end") /\ IsFiniteSet(new) /\ \A w \in new : w.kind # "issue"
    BY <1>2, <2>1, <2>2, <2>3
  <2>5. QED
    BY <2>2, <2>4
<1>5. CASE ResolveScope(r)
  <2>1. PICK a, s, new, next :
           /\ a = Row(r, "scope") /\ s = [State(r) EXCEPT !.scope = a] /\ next = AfterScope(r)
           /\ new = {a} /\ Advance(r, s, new, next)
    BY <1>5 DEF ResolveScope
  <2>2. IsState(s) /\ a.kind # "issue" /\ call[r].at = "scope"
    BY <1>1, <1>5, <2>1 DEF IsState, Row, ResolveScope
  <2>3. next \notin {"build", "confirm", "asks"}
    BY <2>1 DEF AfterScope
  <2>4. IsFiniteSet(new) /\ \A w \in new : w.kind # "issue"
    BY <1>2, <2>1, <2>2
  <2>5. QED
    BY <2>1, <2>2, <2>3, <2>4
<1>6. CASE RetrieveEvidence(r)
  <2>1. PICK found, b, s, new, next :
           /\ b = [kind |-> "bundle", of |-> State(r).run, by |-> By(r), versions |-> found]
           /\ s = IF found = {} THEN [State(r) EXCEPT !.route = "refusal"]
                  ELSE [State(r) EXCEPT !.bundle = b, !.route = "issue_evidence_ready"]
           /\ new = IF found = {} THEN {} ELSE {b}
           /\ next = AfterEvidence(s) /\ Advance(r, s, new, next)
    BY <1>6 DEF RetrieveEvidence
  <2>2. IsState(s)
    <3>1. CASE found = {}
      BY <1>1, <2>1, <3>1 DEF IsState
    <3>2. CASE found # {}
      BY <1>1, <2>1, <3>2 DEF IsState
    <3>3. QED
      BY <3>1, <3>2
  <2>3. next \notin {"build", "confirm", "asks"}
    BY <2>1 DEF AfterEvidence
  <2>4. b.kind # "issue"
    BY <2>1
  <2>5. IsFiniteSet(new) /\ \A w \in new : w.kind # "issue"
    BY <1>2, <1>3, <2>1, <2>4
  <2>6. call[r].at # "persist"
    BY <1>6 DEF RetrieveEvidence
  <2>7. QED
    BY <2>1, <2>2, <2>3, <2>5, <2>6
<1>7. ASSUME Refuses(r)
      PROVE  \E s, new, next : /\ Advance(r, s, new, next) /\ IsState(s)
                               /\ next \notin {"build", "confirm", "asks"}
                               /\ IsFiniteSet(new) /\ \A w \in new : w.kind # "issue"
  <2>1. PICK s, new : /\ s = [State(r) EXCEPT !.route = "refusal"] /\ new = {}
                      /\ Advance(r, s, new, "end")
    BY <1>7 DEF Refuses
  <2>2. IsState(s)
    BY <1>1, <2>1 DEF IsState
  <2>3. IsFiniteSet(new) /\ \A w \in new : w.kind # "issue"
    BY <1>3, <2>1
  <2>4. QED
    BY <2>1, <2>2, <2>3
<1>8. CASE RecordDecision(r)
  <2>1. call[r].at # "persist"
    BY <1>8 DEF RecordDecision
  <2>2. CASE Refuses(r)
    BY <1>7, <2>1, <2>2
  <2>3. CASE ~Refuses(r)
    <3>1. PICK t, s, new, next, route :
             /\ t = [kind |-> "receipt", of |-> State(r).run, by |-> By(r),
                     draft |-> State(r).draft]
             /\ s = [State(r) EXCEPT !.receipt = t, !.route = route]
             /\ next = IF call[r].resume = "CONFIRM" THEN "create" ELSE "end"
             /\ new = {t} /\ Advance(r, s, new, next)
      BY <1>8, <2>3 DEF RecordDecision
    <3>2. IsState(s) /\ t.kind # "issue"
      BY <1>1, <3>1 DEF IsState
    <3>3. next \notin {"build", "confirm", "asks"}
      BY <3>1
    <3>4. IsFiniteSet(new) /\ \A w \in new : w.kind # "issue"
      BY <1>2, <3>1, <3>2
    <3>5. QED
      BY <2>1, <3>1, <3>2, <3>3, <3>4
  <2>4. QED
    BY <2>2, <2>3
<1>9. CASE Refuses(r) /\ call[r].at = "create"
  BY <1>7, <1>9
<1>10. QED
  BY <1>4, <1>5, <1>6, <1>8, <1>9

LEMMA OtherNodesLinks ==
    ASSUME ThreadInv, LinksInv, NEW r \in Runs, run' = run, issues' = issues,
           Answer(r) \/ ResolveScope(r) \/ RetrieveEvidence(r) \/ RecordDecision(r)
             \/ (Refuses(r) /\ call[r].at = "create")
    PROVE  LinksInv'
<1>1. /\ call[r].at # "persist"
      /\ \E s, new, next : /\ Advance(r, s, new, next) /\ IsState(s)
                           /\ next \notin {"build", "confirm", "asks"}
                           /\ IsFiniteSet(new) /\ \A w \in new : w.kind # "issue"
  BY OtherNodes
<1>2. PICK s, new, next : /\ Advance(r, s, new, next) /\ IsState(s)
                          /\ next \notin {"build", "confirm", "asks"}
                          /\ IsFiniteSet(new) /\ \A w \in new : w.kind # "issue"
  BY <1>1
<1>3. Ranked(r, s, next)
  BY <1>2 DEF Ranked
<1>4. QED
  BY <1>1, <1>2, <1>3, AdvanceLinks

LEMMA SearchIssuesLinks ==
    ASSUME ThreadInv, LinksInv, NEW r \in Runs, SearchIssues(r)
    PROVE  LinksInv'
<1>1. call[r].at = "search" /\ run' = run /\ issues' = issues
  BY DEF SearchIssues
<1>2. /\ IsState(State(r)) /\ CallGood(r)
      /\ call[r].resume = "none" => OwnWork(r, State(r), call[r].wrote, "search")
  BY <1>1, AtNode
<1>3. PICK f : f = find_candidates(run[State(r).run].text, issues, Project)
  OBVIOUS
<1>4. PICK a, s, new, next :
         /\ a = [kind |-> "candidates", of |-> State(r).run, by |-> By(r), found |-> f]
         /\ s = [State(r) EXCEPT !.candidates = a, !.route = "issue_candidates"]
         /\ next = AfterSearch(r) /\ new = {a} /\ Advance(r, s, new, next)
  BY <1>3 DEF SearchIssues
<1>5. IsState(s) /\ s.candidates = a
  BY <1>2, <1>4 DEF IsState
<1>6. a.kind = "candidates" /\ a.found = f
  BY <1>4
<1>7. ASSUME call[r].resume = "none" PROVE Ranked(r, s, next)
  <2>1. State(r).run = r
    BY <1>2, <1>7 DEF OwnWork
  <2>2. run[r].before \subseteq issues
    <3>1. run[r].status # "ABSENT"
      BY <1>1, <1>2 DEF CallGood
    <3>2. QED
      BY <3>1 DEF LinksInv, RunLinks
  <2>3. RankedLinks(r, f)
    BY <1>3, <2>1, <2>2 DEF RankedLinks, IsRanking
  <2>4. next \notin {"confirm", "asks"}
    BY <1>4 DEF AfterSearch
  <2>5. QED
    BY <1>5, <1>6, <2>3, <2>4 DEF Ranked
<1>8. IsFiniteSet(new) /\ \A w \in new : w.kind # "issue"
  BY <1>4, <1>6, FS_Singleton
<1>9. call[r].at # "persist"
  BY <1>1
<1>10. QED
  BY <1>1, <1>4, <1>5, <1>7, <1>8, <1>9, AdvanceLinks

LEMMA BuildDraftLinks ==
    ASSUME ThreadInv, LinksInv, NEW r \in Runs, BuildDraft(r)
    PROVE  LinksInv'
<1>1. call[r].at = "build" /\ run' = run /\ issues' = issues
  BY DEF BuildDraft
<1>2. /\ IsState(State(r))
      /\ call[r].resume = "none" => OwnWork(r, State(r), call[r].wrote, "build")
  BY <1>1, AtNode
<1>3. PICK t, links : /\ t = run[State(r).run].text
                      /\ links = IF State(r).candidates = None THEN <<>>
                                 ELSE State(r).candidates.found
  OBVIOUS
<1>4. PICK d, s, new :
         /\ d = [kind |-> "draft", of |-> State(r).run, by |-> By(r), text |-> t,
                 evidence |-> State(r).bundle, links |-> links]
         /\ s = [State(r) EXCEPT !.draft = d, !.route = "confirm_issue_create"]
         /\ new = {d} /\ Advance(r, s, new, "confirm")
  BY <1>3 DEF BuildDraft
<1>5. IsState(s) /\ s.draft = d
  BY <1>2, <1>4 DEF IsState
<1>6. d.kind = "draft" /\ d.text = t /\ d.links = links
  BY <1>4
<1>7. ASSUME call[r].resume = "none" PROVE Ranked(r, s, "confirm")
  <2>1. State(r).run = r
    BY <1>2, <1>7 DEF OwnWork
  <2>2. Ranked(r, State(r), "build")
    BY <1>1, <1>7 DEF LinksInv, CallLinks, State
  <2>3. State(r).candidates.kind = "candidates" /\ RankedLinks(r, State(r).candidates.found)
    BY <2>2 DEF Ranked
  <2>4. State(r).candidates # None
    BY <2>3 DEF None
  <2>5. links = State(r).candidates.found
    BY <1>3, <2>4
  <2>6. OwnLinks(r, d)
    BY <1>3, <1>6, <2>1, <2>3, <2>5 DEF OwnLinks
  <2>7. QED
    BY <1>5, <2>6 DEF Ranked
<1>8. IsFiniteSet(new) /\ \A w \in new : w.kind # "issue"
  BY <1>4, <1>6, FS_Singleton
<1>9. call[r].at # "persist"
  BY <1>1
<1>10. QED
  BY <1>1, <1>4, <1>5, <1>7, <1>8, <1>9, AdvanceLinks

\* The issue of a confirmed draft can be ranked like the others.
LEMMA NewIssueSound ==
    ASSUME ThreadInv, LinksInv, NEW d, Confirmed(d)
    PROVE  Sound(IssueOf(d))
<1>1. PICK r \in Runs : d.of = r /\ run[r].shown = d /\ run[r].resume = "CONFIRM"
  BY DEF Confirmed
<1>2. run[r].status # "ABSENT" /\ d # None
  <2>1. RunGood(r)
    BY DEF ThreadInv
  <2>2. d.kind = "draft"
    BY <1>1, <2>1 DEF RunGood, Stored, OwnDraft
  <2>3. QED
    BY <1>1, <2>1, <2>2 DEF RunGood, None
<1>3. d.text = run[r].text /\ run[r].text \in Texts
  BY <1>1, <1>2 DEF LinksInv, RunLinks, OwnLinks
<1>4. IsFiniteSet(d.text.title) /\ IsFiniteSet(d.text.words)
  BY <1>3, ThreadAssumption
<1>5. Cardinality(issues) + 1 \in Int
  <2>1. Cardinality(issues) \in Nat
    BY FS_CardinalityType DEF LinksInv, IssuesSound
  <2>2. QED
    BY <2>1
<1>6. d.of \in Int
  BY <1>1, ThreadAssumption DEF Runs
<1>7. PICK n : n = Cardinality(issues) + 1
  OBVIOUS
<1>8. PICK i : i = IssueOf(d)
  OBVIOUS
<1>9. /\ i.key = d.of /\ i.created = n /\ i.title = d.text.title /\ i.words = d.text.words
  BY <1>7, <1>8 DEF IssueOf
<1>10. Sound(i)
  BY <1>4, <1>5, <1>6, <1>7, <1>9 DEF Sound
<1>11. QED
  BY <1>8, <1>10

LEMMA ExecuteCreateLinks ==
    ASSUME ThreadInv, LinksInv, NEW r \in Runs, ExecuteCreate(r)
    PROVE  LinksInv'
<1>1. call[r].at = "create" /\ run' = run /\ issues' = issues
  BY DEF ExecuteCreate
<1>2. IsState(State(r))
  BY DEF ThreadInv, Formed, CallsFormed, State
<1>3. CASE Refuses(r)
  BY <1>1, <1>3, OtherNodesLinks
<1>4. CASE ~Refuses(r)
  <2>1. PICK a, d, n, new, s :
           /\ a = Row(r, "creation") /\ d = State(r).receipt.draft
           /\ n = IF \E i \in issues : i.draft = d THEN {} ELSE {IssueOf(d)}
           /\ s = [State(r) EXCEPT !.creation = a, !.route = "issue_created"]
           /\ new = {a} \cup n /\ Advance(r, s, new, "end")
    BY <1>4 DEF ExecuteCreate
  <2>2. IsState(s)
    BY <1>2, <2>1 DEF IsState
  <2>3. a.kind # "issue"
    BY <2>1 DEF Row
  <2>4. Confirmed(d)
    BY <1>1, <2>1 DEF ThreadInv, CreatesConfirmed, State
  <2>5. n = {} \/ n = {IssueOf(d)}
    BY <2>1
  <2>6. IsFiniteSet(n) /\ IsFiniteSet({a})
    BY <2>5, FS_EmptySet, FS_Singleton
  <2>7. IsFiniteSet(new)
    BY <2>1, <2>6, FS_Union
  <2>8. \A w \in new : w.kind = "issue" => Sound(w)
    BY <2>1, <2>3, <2>4, <2>5, NewIssueSound
  <2>9. Ranked(r, s, "end")
    BY DEF Ranked
  <2>10. call[r].at # "persist"
    BY <1>1
  <2>11. QED
    BY <1>1, <2>1, <2>2, <2>7, <2>8, <2>9, <2>10, AdvanceLinks
<1>5. QED
  BY <1>3, <1>4

LEMMA InterruptLinks ==
    ASSUME ThreadInv, LinksInv, NEW r \in Runs, Interrupt(r)
    PROVE  LinksInv'
<1>1. Formed /\ CallGood(r) /\ IsCall(call[r]) /\ IssuesSound /\ CallLinks(r) /\ RunLinks(r)
  BY DEF ThreadInv, Formed, CallsFormed, LinksInv
<1>2. call[r].at = "confirm" /\ call[r].resume = "none" /\ run' = run /\ issues' = issues
  BY DEF Interrupt
<1>3. PICK y : y = [call[r] EXCEPT !.at = "asks"]
  OBVIOUS
<1>4. /\ IsCall(y) /\ y.at = "asks" /\ y.state = call[r].state /\ y.wrote = call[r].wrote
      /\ y.resume = call[r].resume /\ y.outcome = call[r].outcome
  BY <1>1, <1>3 DEF IsCall
<1>5. call' = [call EXCEPT ![r] = y] /\ IsState(y.state)
  BY <1>1, <1>3, <1>4 DEF Interrupt, Formed, CallsFormed
<1>6. call'[r] = y /\ \A q \in Runs \ {r} : call'[q] = call[q]
  BY <1>1, <1>4, <1>5, CallChanges DEF Formed
<1>7. OwnLinks(r, call[r].state.draft) /\ call[r].outcome # "WAITING_CONFIRMATION"
  BY <1>1, <1>2 DEF CallLinks, Ranked, CallGood
<1>8. CallLinks(r)'
  BY <1>2, <1>4, <1>6, <1>7 DEF CallLinks, Ranked, OwnLinks, RankedLinks
<1>9. RunLinks(r)'
  BY <1>1, <1>2 DEF RunLinks, OwnLinks, RankedLinks
<1>10. /\ IsFiniteSet(call'[r].wrote) /\ \A w \in call'[r].wrote : w.kind = "issue" => Sound(w)
       /\ IsFiniteSet(issues') /\ \A i \in issues' : Sound(i)
  BY <1>1, <1>2, <1>4, <1>6 DEF IssuesSound
<1>11. QED
  BY <1>2, <1>6, <1>8, <1>9, <1>10, StepKeepsLinks

LEMMA CommitLinks ==
    ASSUME ThreadInv, LinksInv, NEW r \in Runs, Commit(r)
    PROVE  LinksInv'
<1>1. Formed /\ CallGood(r) /\ IsCall(call[r]) /\ IssuesSound /\ CallLinks(r) /\ RunLinks(r)
  BY DEF ThreadInv, Formed, CallsFormed, LinksInv
<1>2. /\ call[r].at \in {"end", "asks"} /\ run' = run
      /\ issues' = issues \cup {w \in call[r].wrote : w.kind = "issue"}
  BY DEF Commit, Committed
<1>3. PICK o : o = IF call[r].at = "asks" THEN "WAITING_CONFIRMATION" ELSE Projected(State(r))
  OBVIOUS
<1>4. o = "WAITING_CONFIRMATION" => call[r].at = "asks"
  BY <1>3 DEF Projected
<1>5. PICK y : y = [call[r] EXCEPT !.wrote = {}, !.at = "persist", !.outcome = o]
  OBVIOUS
<1>6. /\ IsCall(y) /\ y.at = "persist" /\ y.state = call[r].state /\ y.wrote = {}
      /\ y.resume = call[r].resume /\ y.outcome = o
  BY <1>1, <1>5 DEF IsCall
<1>7. call' = [call EXCEPT ![r] = y] /\ IsState(y.state)
  BY <1>1, <1>3, <1>5, <1>6 DEF Commit, Formed, CallsFormed
<1>8. call'[r] = y /\ \A q \in Runs \ {r} : call'[q] = call[q]
  BY <1>1, <1>6, <1>7, CallChanges DEF Formed
<1>9. SameReport(r) /\ issues \subseteq issues'
  BY <1>2 DEF SameReport
<1>10. o = "WAITING_CONFIRMATION" => OwnLinks(r, call[r].state.draft)
  BY <1>1, <1>4 DEF CallLinks, Ranked, CallGood
<1>11. CallLinks(r)'
  BY <1>6, <1>8, <1>9, <1>10, LinksStay DEF CallLinks, Ranked, OwnLinks, RankedLinks
<1>12. RunLinks(r)'
  <2>1. run[r].before \subseteq issues => run[r].before \subseteq issues'
    BY <1>9
  <2>2. QED
    BY <1>1, <1>2, <1>9, <2>1, LinksStay DEF RunLinks, OwnLinks, RankedLinks
<1>13. IsFiniteSet(issues')
  <2>1. PICK N : N = {w \in call[r].wrote : w.kind = "issue"}
    OBVIOUS
  <2>2. N \in SUBSET call[r].wrote /\ IsFiniteSet(call[r].wrote) /\ IsFiniteSet(issues)
    BY <1>1, <2>1 DEF IssuesSound
  <2>3. IsFiniteSet(N)
    BY <2>2, FS_Subset
  <2>4. QED
    BY <1>2, <2>1, <2>2, <2>3, FS_Union
<1>14. \A i \in issues' : Sound(i)
  BY <1>1, <1>2 DEF IssuesSound
<1>15. IsFiniteSet(call'[r].wrote) /\ \A w \in call'[r].wrote : w.kind = "issue" => Sound(w)
  BY <1>6, <1>8, FS_EmptySet
<1>16. QED
  BY <1>2, <1>8, <1>9, <1>11, <1>12, <1>13, <1>14, <1>15, StepKeepsLinks

\* A step that changes the row of a run and leaves its call without anything ranked.
LEMMA RowLinks ==
    ASSUME ThreadInv, LinksInv, NEW r \in Runs, NEW y, NEW z,
           run' = [run EXCEPT ![r] = y], IsRun(y), y.calls \in Nat,
           call' = [call EXCEPT ![r] = z], IsCall(z), IsState(z.state), issues' = issues,
           z.resume = "none" => z.at \notin {"build", "confirm", "asks"},
           z.outcome # "WAITING_CONFIRMATION", z.wrote \subseteq call[r].wrote,
           y.text \in Texts, y.before \subseteq issues,
           y.shown # None => y.shown.text = y.text /\ IsRanking(y.text, y.before, issues, y.shown.links)
    PROVE  LinksInv'
<1>1. Formed /\ IssuesSound
  BY DEF ThreadInv, LinksInv
<1>2. run'[r] = y /\ \A q \in Runs \ {r} : run'[q] = run[q]
  BY <1>1, RunChanges DEF Formed
<1>3. call'[r] = z /\ \A q \in Runs \ {r} : call'[q] = call[q]
  BY <1>1, CallChanges DEF Formed
<1>4. CallLinks(r)'
  BY <1>3 DEF CallLinks, Ranked
<1>5. RunLinks(r)'
  BY <1>2 DEF RunLinks, OwnLinks, RankedLinks
<1>6. IsFiniteSet(z.wrote)
  BY <1>1, FS_Subset DEF IssuesSound
<1>7. /\ IsFiniteSet(call'[r].wrote) /\ \A w \in call'[r].wrote : w.kind = "issue" => Sound(w)
      /\ IsFiniteSet(issues') /\ \A i \in issues' : Sound(i)
  BY <1>1, <1>3, <1>6 DEF IssuesSound
<1>8. QED
  BY <1>2, <1>3, <1>4, <1>5, <1>7, StepKeepsLinks

\* A step that keeps the report of a run that was accepted.
LEMMA KeptRowLinks ==
    ASSUME ThreadInv, LinksInv, NEW r \in Runs, NEW y, NEW z,
           run' = [run EXCEPT ![r] = y], IsRun(y), y.calls \in Nat,
           call' = [call EXCEPT ![r] = z], IsCall(z), IsState(z.state), issues' = issues,
           z.resume = "none" => z.at \notin {"build", "confirm", "asks"},
           z.outcome # "WAITING_CONFIRMATION", z.wrote \subseteq call[r].wrote,
           run[r].status # "ABSENT", y.text = run[r].text, y.before = run[r].before,
           y.shown = run[r].shown \/ OwnLinks(r, y.shown)
    PROVE  LinksInv'
<1>1. RunLinks(r)
  BY DEF LinksInv
<1>2. y.text \in Texts /\ y.before \subseteq issues
  BY <1>1 DEF RunLinks
<1>3. y.shown # None => OwnLinks(r, y.shown)
  BY <1>1 DEF RunLinks
<1>4. y.shown # None => y.shown.text = y.text /\ IsRanking(y.text, y.before, issues, y.shown.links)
  BY <1>3 DEF OwnLinks, RankedLinks
<1>5. QED
  BY <1>2, <1>4, RowLinks

LEMMA CreateRunLinks ==
    ASSUME ThreadInv, LinksInv, NEW r \in Runs, NEW mode, NEW text \in Texts,
           CreateRun(r, mode, text)
    PROVE  LinksInv'
<1>1. /\ CallsFormed /\ CallGood(r) /\ run[r].status = "ABSENT"
      /\ call' = call /\ issues' = issues
  BY DEF ThreadInv, Formed, CreateRun
<1>2. PICK y : y = [NoRun EXCEPT !.mode = mode, !.text = text, !.status = "QUEUED",
                                 !.before = issues]
  OBVIOUS
<1>3. /\ IsRun(y) /\ y.shown = None /\ y.calls = 0 /\ y.text = text /\ y.before = issues
  BY <1>2, EmptyRecords DEF IsRun
<1>4. y.calls \in Nat
  BY <1>3
<1>5. run' = [run EXCEPT ![r] = y]
  BY <1>2 DEF CreateRun
<1>6. PICK z : z = call[r]
  OBVIOUS
<1>7. call' = [call EXCEPT ![r] = z] /\ IsCall(z) /\ IsState(z.state)
  BY <1>1, <1>6 DEF CallsFormed
<1>8. z.at = "idle" /\ z.outcome # "WAITING_CONFIRMATION" /\ z.wrote \subseteq call[r].wrote
  BY <1>1, <1>6 DEF CallGood
<1>9. QED
  BY <1>1, <1>3, <1>4, <1>5, <1>7, <1>8, RowLinks

LEMMA ResumeRunLinks ==
    ASSUME ThreadInv, LinksInv, NEW r \in Runs, NEW action, ResumeRun(r, action)
    PROVE  LinksInv'
<1>1. /\ CallsFormed /\ CallGood(r) /\ run[r].status = "WAITING_CONFIRMATION"
      /\ call' = call /\ issues' = issues /\ IsRun(run[r]) /\ run[r].calls \in Nat
  BY DEF ThreadInv, Formed, RunsFormed, ResumeRun
<1>2. PICK y : y = [run[r] EXCEPT !.status = "QUEUED", !.tries = 0, !.resume = action,
                                  !.hash = run[r].shown]
  OBVIOUS
<1>3. /\ IsRun(y) /\ y.shown = run[r].shown /\ y.calls = run[r].calls /\ y.text = run[r].text
      /\ y.before = run[r].before
  BY <1>1, <1>2 DEF IsRun
<1>4. y.calls \in Nat
  BY <1>1, <1>3
<1>5. run' = [run EXCEPT ![r] = y]
  BY <1>2 DEF ResumeRun
<1>6. PICK z : z = call[r]
  OBVIOUS
<1>7. call' = [call EXCEPT ![r] = z] /\ IsCall(z) /\ IsState(z.state)
  BY <1>1, <1>6 DEF CallsFormed
<1>8. /\ z.at = "idle" /\ z.outcome # "WAITING_CONFIRMATION" /\ z.wrote \subseteq call[r].wrote
      /\ run[r].status # "ABSENT"
  BY <1>1, <1>6 DEF CallGood
<1>9. QED
  BY <1>1, <1>3, <1>4, <1>5, <1>7, <1>8, KeptRowLinks

LEMMA RaisesLinks ==
    ASSUME ThreadInv, LinksInv, NEW r \in Runs, NEW last, Raises(r, last), issues' = issues,
           call[r].at # "idle"
    PROVE  LinksInv'
<1>1. IsRun(run[r]) /\ run[r].calls \in Nat /\ run[r].status = "RUNNING"
  BY DEF ThreadInv, Formed, RunsFormed, CallGood
<1>2. PICK st : st = IF run[r].tries < MaxAttempts THEN "QUEUED" ELSE last
  OBVIOUS
<1>3. PICK y : y = [run[r] EXCEPT !.status = st]
  OBVIOUS
<1>4. /\ IsRun(y) /\ y.shown = run[r].shown /\ y.calls = run[r].calls /\ y.text = run[r].text
      /\ y.before = run[r].before
  BY <1>1, <1>3 DEF IsRun
<1>5. y.calls \in Nat
  BY <1>1, <1>4
<1>6. run' = [run EXCEPT ![r] = y] /\ call' = [call EXCEPT ![r] = IdleCall]
  BY <1>2, <1>3 DEF Raises
<1>7. PICK z : z = IdleCall
  OBVIOUS
<1>8. /\ call' = [call EXCEPT ![r] = z] /\ IsCall(z) /\ IsState(z.state) /\ z.at = "idle"
      /\ z.outcome # "WAITING_CONFIRMATION" /\ z.wrote \subseteq call[r].wrote
      /\ run[r].status # "ABSENT"
  BY <1>1, <1>6, <1>7, EmptyRecords
<1>9. QED
  BY <1>4, <1>5, <1>6, <1>8, KeptRowLinks

LEMMA PersistLinks ==
    ASSUME ThreadInv, LinksInv, NEW r \in Runs, Persist(r)
    PROVE  LinksInv'
<1>1. /\ IsRun(run[r]) /\ run[r].calls \in Nat /\ run[r].status = "RUNNING"
      /\ issues' = issues /\ CallLinks(r)
  BY DEF ThreadInv, Formed, RunsFormed, CallGood, Persist, LinksInv
<1>2. PICK shown, ref :
         /\ shown = IF call[r].outcome = "WAITING_CONFIRMATION" THEN State(r).draft ELSE run[r].shown
         /\ ref = IF call[r].outcome \in Terminal THEN ResultRef(State(r)) ELSE run[r].ref
  OBVIOUS
<1>3. PICK y : y = [run[r] EXCEPT !.status = call[r].outcome, !.shown = shown, !.ref = ref]
  OBVIOUS
<1>4. /\ IsRun(y) /\ y.shown = shown /\ y.calls = run[r].calls /\ y.text = run[r].text
      /\ y.before = run[r].before
  BY <1>1, <1>3 DEF IsRun
<1>5. y.calls \in Nat
  BY <1>1, <1>4
<1>6. run' = [run EXCEPT ![r] = y] /\ call' = [call EXCEPT ![r] = IdleCall]
  BY <1>2, <1>3 DEF Persist
<1>7. y.shown = run[r].shown \/ OwnLinks(r, y.shown)
  BY <1>1, <1>2, <1>4 DEF CallLinks, State
<1>8. PICK z : z = IdleCall
  OBVIOUS
<1>9. /\ call' = [call EXCEPT ![r] = z] /\ IsCall(z) /\ IsState(z.state) /\ z.at = "idle"
      /\ z.outcome # "WAITING_CONFIRMATION" /\ z.wrote \subseteq call[r].wrote
      /\ run[r].status # "ABSENT"
  BY <1>1, <1>6, <1>8, EmptyRecords
<1>10. QED
  BY <1>1, <1>4, <1>5, <1>6, <1>7, <1>9, KeptRowLinks

LEMMA BeginLinks ==
    ASSUME ThreadInv, LinksInv, NEW r \in Runs, BeginExecute(r) \/ BeginResume(r)
    PROVE  LinksInv'
<1>1. /\ IsRun(run[r]) /\ run[r].calls \in Nat /\ run[r].status # "ABSENT"
      /\ IsState(checkpoint.state) /\ issues' = issues
      /\ run' = [run EXCEPT ![r].status = "RUNNING", ![r].tries = @ + 1, ![r].calls = @ + 1]
  BY DEF ThreadInv, Formed, RunsFormed, BeginExecute, BeginResume
<1>2. PICK y : y = [run[r] EXCEPT !.status = "RUNNING", !.tries = @ + 1, !.calls = @ + 1]
  OBVIOUS
<1>3. /\ IsRun(y) /\ y.shown = run[r].shown /\ y.calls = run[r].calls + 1 /\ y.text = run[r].text
      /\ y.before = run[r].before
  BY <1>1, <1>2 DEF IsRun
<1>4. y.calls \in Nat
  BY <1>1, <1>3
<1>5. run' = [run EXCEPT ![r] = y]
  BY <1>1, <1>2
<1>6. PICK z : /\ call' = [call EXCEPT ![r] = z] /\ IsCall(z) /\ IsState(z.state)
               /\ z.resume = "none" => z.at \notin {"build", "confirm", "asks"}
               /\ z.outcome # "WAITING_CONFIRMATION" /\ z.wrote = {}
  <2>1. CASE BeginExecute(r)
    <3>1. PICK st, first, z :
             /\ st = ResetForExecute(r) /\ first = IF run[r].mode = "qa" THEN "qa" ELSE "scope"
             /\ z = [IdleCall EXCEPT !.state = st, !.at = first]
             /\ call' = [call EXCEPT ![r] = z]
      BY <2>1 DEF BeginExecute
    <3>2. IsState(st)
      BY <1>1, <3>1 DEF ResetForExecute, IsState
    <3>3. /\ IsCall(z) /\ z.at = first /\ z.state = st /\ z.wrote = {} /\ z.outcome = "none"
      BY <3>1, EmptyRecords DEF IsCall
    <3>4. first \notin {"build", "confirm", "asks"}
      BY <3>1
    <3>5. QED
      BY <3>1, <3>2, <3>3, <3>4
  <2>2. CASE BeginResume(r)
    <3>1. PICK st, at, z :
             /\ st = checkpoint.state
             /\ at = IF checkpoint.next \in Nodes \ {"qa"} THEN checkpoint.next ELSE "end"
             /\ z = [IdleCall EXCEPT !.state = st, !.resume = run[r].resume, !.hash = run[r].hash,
                                     !.at = at]
             /\ call' = [call EXCEPT ![r] = z]
      BY <2>2 DEF BeginResume
    <3>2. /\ IsCall(z) /\ z.state = st /\ z.resume = run[r].resume /\ z.wrote = {}
          /\ z.outcome = "none"
      BY <3>1, EmptyRecords DEF IsCall
    <3>3. z.resume # "none"
      BY <2>2, <3>2 DEF BeginResume
    <3>4. QED
      BY <1>1, <3>1, <3>2, <3>3
  <2>3. QED
    BY <2>1, <2>2
<1>7. z.wrote \subseteq call[r].wrote
  BY <1>6
<1>8. QED
  BY <1>1, <1>3, <1>4, <1>5, <1>6, <1>7, KeptRowLinks

LEMMA LinksInitial ==
    ThreadInit => LinksInv
<1> SUFFICES ASSUME ThreadInit PROVE LinksInv
  OBVIOUS
<1>1. \A r \in Runs : run[r] = NoRun /\ call[r] = IdleCall
  BY DEF ThreadInit
<1>2. issues = OldIssues
  BY DEF ThreadInit
<1>3. IsFiniteSet(issues) /\ \A i \in issues : Sound(i)
  BY <1>2, ThreadAssumption DEF Sound
<1>4. IssuesSound
  BY <1>1, <1>3, EmptyRecords, FS_EmptySet DEF IssuesSound
<1>5. ASSUME NEW r \in Runs PROVE CallLinks(r) /\ RunLinks(r)
  <2>1. /\ call[r].at = "idle" /\ call[r].outcome = "none"
        /\ run[r].status = "ABSENT" /\ run[r].shown = None
    BY <1>1, EmptyRecords
  <2>2. QED
    BY <2>1 DEF CallLinks, Ranked, RunLinks
<1>6. QED
  BY <1>4, <1>5 DEF LinksInv

LEMMA LinksStep ==
    ASSUME ThreadInv, LinksInv, [ThreadNext]_threadVars
    PROVE  LinksInv'
<1>1. ASSUME NEW r \in Runs, CallStep(r) PROVE LinksInv'
  <2>1. CASE BeginExecute(r) \/ BeginResume(r)
    BY <2>1, BeginLinks
  <2>2. CASE Answer(r) \/ ResolveScope(r) \/ RetrieveEvidence(r) \/ RecordDecision(r)
    <3>1. run' = run /\ issues' = issues
      BY <2>2 DEF Answer, ResolveScope, RetrieveEvidence, RecordDecision
    <3>2. QED
      BY <2>2, <3>1, OtherNodesLinks
  <2>3. CASE SearchIssues(r) \/ BuildDraft(r) \/ Interrupt(r) \/ ExecuteCreate(r)
    BY <2>3, SearchIssuesLinks, BuildDraftLinks, InterruptLinks, ExecuteCreateLinks
  <2>4. CASE Commit(r) \/ Persist(r)
    BY <2>4, CommitLinks, PersistLinks
  <2>5. CASE LookupFails(r) \/ Fail(r)
    <3>1. issues' = issues /\ call[r].at # "idle"
      BY <2>5 DEF LookupFails, Misses, Fail
    <3>2. Raises(r, "FAILED") \/ Raises(r, "RUNNING")
      BY <2>5 DEF LookupFails, Fail
    <3>3. QED
      BY <3>1, <3>2, RaisesLinks
  <2>6. QED
    BY <1>1, <2>1, <2>2, <2>3, <2>4, <2>5 DEF CallStep
<1>2. ASSUME NEW r \in Runs, NEW mode \in Modes, NEW text \in Texts, CreateRun(r, mode, text)
      PROVE  LinksInv'
  BY <1>2, CreateRunLinks
<1>3. ASSUME NEW r \in Runs, NEW action \in {"CONFIRM", "CANCEL"}, ResumeRun(r, action)
      PROVE  LinksInv'
  BY <1>3, ResumeRunLinks
<1>4. CASE UNCHANGED threadVars
  <2>1. run' = run /\ issues' = issues /\ call' = call
    BY <1>4 DEF threadVars
  <2>2. IssuesSound'
    BY <2>1 DEF LinksInv, IssuesSound
  <2>3. ASSUME NEW r \in Runs PROVE CallLinks(r)' /\ RunLinks(r)'
    BY <2>1 DEF LinksInv, CallLinks, Ranked, RunLinks, OwnLinks, RankedLinks
  <2>4. QED
    BY <2>2, <2>3 DEF LinksInv
<1>5. QED
  BY <1>1, <1>2, <1>3, <1>4 DEF ThreadNext

-----------------------------------------------------------------------------
(* The theorems. *)

LEMMA ThreadInitial ==
    ThreadInit => ThreadInv
<1> SUFFICES ASSUME ThreadInit PROVE ThreadInv
  OBVIOUS
<1>1. \A r \in Runs : run[r] = NoRun /\ call[r] = IdleCall
  BY DEF ThreadInit
<1>2. CallsFormed
  <2>1. call \in [Runs -> {call[r] : r \in Runs}]
    BY DEF ThreadInit
  <2>2. QED
    BY <1>1, <2>1, EmptyRecords DEF CallsFormed
<1>3. RunsFormed
  <2>1. run \in [Runs -> {run[r] : r \in Runs}]
    BY DEF ThreadInit
  <2>2. QED
    BY <1>1, <2>1, EmptyRecords DEF RunsFormed
<1>4. Formed
  <2>1. checkpoint.state = EmptyState
    BY DEF ThreadInit
  <2>2. QED
    BY <1>2, <1>3, <2>1, EmptyRecords DEF Formed
<1>5. ASSUME NEW r \in Runs PROVE CallGood(r) /\ RunGood(r)
  BY <1>1, EmptyRecords DEF CallGood, RunGood
<1>6. CreatesConfirmed
  <2>1. checkpoint.next # "create" /\ issues = OldIssues
    BY DEF ThreadInit
  <2>2. \A r \in Runs : call[r].at # "create" /\ call[r].wrote = {}
    BY <1>1, EmptyRecords
  <2>3. QED
    BY <2>1, <2>2 DEF CreatesConfirmed
<1>7. QED
  BY <1>4, <1>5, <1>6 DEF ThreadInv

LEMMA FailureStep ==
    ASSUME ThreadInv, NEW r \in Runs, LookupFails(r) \/ Fail(r)
    PROVE  ThreadInv'
<1>1. UNCHANGED <<rows, issues, checkpoint>> /\ call[r].at # "idle"
  BY DEF LookupFails, Misses, Fail
<1>2. Raises(r, "FAILED") \/ Raises(r, "RUNNING")
  BY DEF LookupFails, Fail
<1>3. QED
  BY <1>1, <1>2, RaisesStep

LEMMA ThreadStep ==
    ASSUME ThreadInv, [ThreadNext]_threadVars
    PROVE  ThreadInv'
<1>1. ASSUME NEW r \in Runs, CallStep(r) PROVE ThreadInv'
  BY <1>1, BeginExecuteStep, BeginResumeStep, AnswerStep, ResolveScopeStep, RetrieveEvidenceStep,
     SearchIssuesStep, BuildDraftStep, InterruptStep, RecordDecisionStep, ExecuteCreateStep,
     CommitStep, PersistStep, FailureStep DEF CallStep
<1>2. ASSUME NEW r \in Runs, NEW mode \in Modes, NEW text \in Texts, CreateRun(r, mode, text)
      PROVE  ThreadInv'
  BY <1>2, CreateRunStep
<1>3. ASSUME NEW r \in Runs, NEW action \in {"CONFIRM", "CANCEL"}, ResumeRun(r, action)
      PROVE  ThreadInv'
  BY <1>3, ResumeRunStep
<1>4. CASE UNCHANGED threadVars
  <2>1. /\ run' = run /\ rows' = rows /\ issues' = issues /\ checkpoint' = checkpoint
        /\ call' = call
    BY <1>4 DEF threadVars
  <2>2. Formed'
    BY <2>1 DEF ThreadInv, Formed, CallsFormed, RunsFormed, IsCall, IsRun, IsState
  <2>3. ASSUME NEW r \in Runs PROVE CallGood(r)' /\ RunGood(r)'
    BY <2>1 DEF ThreadInv, CallGood, RunGood, Stored, OwnDraft, OwnEvidence, OwnWork
  <2>4. CreatesConfirmed'
    BY <2>1 DEF ThreadInv, CreatesConfirmed, Confirmed
  <2>5. QED
    BY <2>2, <2>3, <2>4 DEF ThreadInv
<1>5. QED
  BY <1>1, <1>2, <1>3, <1>4 DEF ThreadNext

LEMMA ThreadInvariant ==
    ThreadSpec => []ThreadInv
<1>1. ThreadInv /\ [ThreadNext]_threadVars => ThreadInv'
  BY ThreadStep
<1>2. QED
  BY <1>1, ThreadInitial, PTL DEF ThreadSpec

\* Every issue the graphs make, in any interleaving of the calls of a thread,
\* is the draft that its own run showed and its user confirmed, although a
\* resume goes on with the checkpoint of whatever run was last (record_decision's
\* hash in confirm_issue_create.py, execute_issue_create's receipt).
THEOREM ThreadConfirmedIssues == ThreadSpec => []IssuesAreTheConfirmedDrafts
<1>1. ThreadInv => IssuesAreTheConfirmedDrafts
  BY DEF ThreadInv, CreatesConfirmed, Confirmed, IssuesAreTheConfirmedDrafts
<1>2. QED
  BY <1>1, ThreadInvariant, PTL

\* What a user is asked to confirm is committed with its evidence before the
\* waiting status is (_invoke commits, then persist_outcome).
THEOREM ThreadShownStored == ThreadSpec => []ShownDraftsAreStored
<1>1. ThreadInv => ShownDraftsAreStored
  BY DEF ThreadInv, RunGood, Stored, Shown, ShownDraftsAreStored
<1>2. QED
  BY <1>1, ThreadInvariant, PTL

\* A draft that is shown rests on evidence that its own run retrieved, of the
\* allowed categories, whatever an earlier run left in the checkpoint: a run
\* without evidence never reaches build_issue_draft.
THEOREM ThreadOwnEvidence == ThreadSpec => []ShownDraftsRestOnOwnEvidence
<1>1. ThreadInv => ShownDraftsRestOnOwnEvidence
  <2> SUFFICES ASSUME ThreadInv, NEW r \in Runs, run[r].shown # None
               PROVE  /\ run[r].shown.evidence # None
                      /\ run[r].shown.evidence.of = run[r].shown.of
                      /\ \A v \in run[r].shown.evidence.versions : v.category \in AllowedCategories
    BY DEF Shown, ShownDraftsRestOnOwnEvidence
  <2>1. QED
    BY DEF ThreadInv, RunGood, Stored, OwnDraft, OwnEvidence
<1>2. QED
  BY <1>1, ThreadInvariant, PTL

\* A draft that is shown lists first an issue with the error code of its report,
\* whenever the tracker held one before the run was requested and the project is
\* no larger than the pool: for every ranking of every state the tracker was in
\* since, whatever candidates an earlier run left in the checkpoint
\* (find_candidates in issue_candidates.py, build_issue_draft.py).
THEOREM ThreadDuplicatesShown == ThreadSpec => []EarlierDuplicatesAreShown
<1>1. ThreadInv /\ LinksInv => EarlierDuplicatesAreShown
  <2> SUFFICES ASSUME ThreadInv, LinksInv, NEW r \in Runs, run[r].shown # None, NEW d, d = run[r].shown,
                      Cardinality({i \in issues : i.project = Project}) <= PoolLimit,
                      NEW x \in run[d.of].before, x.project = Project, ExactError(d.text, x)
               PROVE  d.links # <<>> /\ ExactError(d.text, d.links[1])
    BY DEF Shown, EarlierDuplicatesAreShown
  <2>1. d.of = r
    BY DEF ThreadInv, RunGood, Stored, OwnDraft
  <2>2. OwnLinks(r, d) /\ run[r].text \in Texts
    BY DEF LinksInv, RunLinks
  <2>3. PICK I \in SUBSET issues : /\ run[r].before \subseteq I
                                   /\ d.links = find_candidates(d.text, I, Project)
    BY <2>2 DEF OwnLinks, RankedLinks, IsRanking
  <2>4. IsFiniteSet(d.text.words)
    BY <2>2, ThreadAssumption DEF OwnLinks
  <2>5. IsFiniteSet(I) /\ \A i \in I : Sound(i)
    BY FS_Subset DEF LinksInv, IssuesSound
  <2>6. Cardinality({i \in I : i.project = Project}) <= PoolLimit
    <3>1. PICK S, T : /\ S = {i \in issues : i.project = Project}
                      /\ T = {i \in I : i.project = Project}
      OBVIOUS
    <3>2. IsFiniteSet(issues) /\ S \in SUBSET issues /\ T \in SUBSET S
      BY <3>1 DEF LinksInv, IssuesSound
    <3>3. IsFiniteSet(S)
      BY <3>2, FS_Subset
    <3>4. Cardinality(T) <= Cardinality(S) /\ Cardinality(S) \in Nat /\ Cardinality(T) \in Nat
      BY <3>2, <3>3, FS_Subset, FS_CardinalityType
    <3>5. QED
      BY <3>1, <3>4, CandidateAssumption
  <2>7. x \in I
    BY <2>1, <2>3
  <2>8. QED
    BY <2>3, <2>4, <2>5, <2>6, <2>7, FirstCandidate
<1>2. ThreadInv /\ LinksInv /\ [ThreadNext]_threadVars => (ThreadInv /\ LinksInv)'
  BY ThreadStep, LinksStep
<1>3. ThreadInit => ThreadInv /\ LinksInv
  BY ThreadInitial, LinksInitial
<1>4. QED
  BY <1>1, <1>2, <1>3, PTL DEF ThreadSpec
=============================================================================
