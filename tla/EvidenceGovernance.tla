------------------------- MODULE EvidenceGovernance -------------------------
(***************************************************************************)
(* EvidenceGovernanceService.pack and CitationGuard.validate as operators. *)
(*                                                                         *)
(* Chunks are numbered in the order in which chunks of equal authority are *)
(* sorted: by score, version number and version id.  facts[c] is what the  *)
(* database and the provider's metadata say of chunk c: the rank of its    *)
(* authority level (1 is the highest) and the value it claims for the      *)
(* conflict key, or "none".  Every chunk has a version of its own; one     *)
(* conflict key stands for each of them, because groups of different keys  *)
(* do not meet.                                                            *)
(***************************************************************************)
EXTENDS Integers, FiniteSets

CONSTANTS
    MaxChunks,      \* bound: how many chunks the project has
    MaxEvidence     \* max_evidence

Chunks == 1..MaxChunks
Labels == 1..MaxChunks    \* E1, E2, ...
Ranks == 1..9    \* AUTHORITY_ORDER
Claims == {"none", "x", "y"}
Fact == [rank : Ranks, claim : Claims]

ASSUME EvidenceAssumption ==
    /\ MaxChunks \in Nat \ {0}
    /\ MaxEvidence \in Nat \ {0}

-----------------------------------------------------------------------------
(* _resolve_explicit_conflicts over the candidates C. *)

Contradict(facts, c, d) ==
    /\ "none" \notin {facts[c].claim, facts[d].claim}
    /\ facts[c].claim # facts[d].claim

Contested(facts, C) == \E c, d \in C : Contradict(facts, c, d)

\* The chunks of the group with the best rank.
Top(facts, C) == {c \in C : /\ facts[c].claim # "none"
                            /\ \A d \in C : facts[d].claim # "none" => facts[c].rank <= facts[d].rank}

\* A contested group keeps its top only.
Resolved(facts, C) ==
    {c \in C : facts[c].claim = "none" \/ ~Contested(facts, C) \/ c \in Top(facts, C)}

\* The top itself disagrees: it is kept and marked unresolved_conflict.
Unresolved(facts, C) ==
    IF Contested(facts, Top(facts, C)) THEN Top(facts, C) ELSE {}

-----------------------------------------------------------------------------
(* pack: the order, the limit and the labels. *)

Before(facts, c, d) ==
    \/ facts[c].rank < facts[d].rank
    \/ facts[c].rank = facts[d].rank /\ c < d

Position(facts, S, c) == 1 + Cardinality({d \in S : Before(facts, d, c)})

\* The best max_evidence chunks, and all of an unresolved conflict.
BestOnly(facts, C) ==    \* mutant
    {c \in Resolved(facts, C) : Position(facts, Resolved(facts, C), c) <= MaxEvidence}
Pack(facts, C) ==
    {c \in Resolved(facts, C) : Position(facts, Resolved(facts, C), c) <= MaxEvidence}
        \cup Unresolved(facts, C)

AtLabel(facts, P, l) == CHOOSE c \in P : Position(facts, P, c) = l
LabelsOf(facts, P, S) == {Position(facts, P, c) : c \in S}

-----------------------------------------------------------------------------
(* CitationGuard.validate. *)

\* A draft keeps the labels its claims cite, each claim citing at least one,
\* and the labels of its conflict_disclosure; {} is no disclosure.
Draft == [cited : (SUBSET Labels) \ {{}}, disclosed : SUBSET Labels]
NoDraft == [cited |-> {}, disclosed |-> {}]

\* P: the frozen bundle.  current: the part of it that was PUBLISHED and current
\* when it was frozen.  U: the part marked unresolved_conflict.
Accepts(facts, P, current, U, draft) ==
    /\ draft.cited \cup draft.disclosed \subseteq LabelsOf(facts, P, P)
    /\ draft.cited \subseteq LabelsOf(facts, P, P \cap current)
    /\ LabelsOf(facts, P, U) \subseteq draft.disclosed
=============================================================================
