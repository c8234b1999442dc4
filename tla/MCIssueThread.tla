--------------------------- MODULE MCIssueThread ---------------------------
(* IssueThread with reports of one fault that the tracker knows.             *)
EXTENDS IssueThread

CONSTANTS e1, w1, w2

MCTexts == {[code |-> e1, module |-> None, title |-> {w1}, words |-> {w1, w2}]}

\* Only the first may be cited: of the others one is of another category, one
\* not yet effective and one expired.
Doc(category, from, to) == [project |-> Project, category |-> category, status |-> "PUBLISHED",
                            current |-> TRUE, from |-> from, to |-> to]
MCVersions == {Doc("requirement_baseline", 1, 3), Doc("approved_design", 1, 3),
               Doc("approved_test_spec", 3, 4), Doc("requirement_baseline", 0, 1)}

\* An old, closed issue with the error code and a newer one that only shares a
\* word; the candidate limit is one, so the ranking decides.
Known(key, code, status) ==
    [kind |-> "issue", key |-> key, project |-> Project, code |-> code, module |-> None,
     title |-> {w1}, words |-> {w1}, status |-> status, created |-> key - 100, draft |-> None]
MCOldIssues == {Known(101, e1, "CLOSED"), Known(102, None, "OPEN")}
=============================================================================
