----------------------------- MODULE MCQAGraph -----------------------------
(* QAGraph with the catalogues in which TLC explores it. *)
EXTENDS QAGraph

Says(r, x) == [rank |-> r, claim |-> x]

\* An unresolved conflict above a chunk it outranks, and the best of two ranks
\* behind a worse one.
TheCatalogs == {<<Says(1, "x"), Says(1, "y"), Says(2, "x")>>,
                <<Says(2, "x"), Says(1, "y"), Says(1, "none")>>}

\* A new thread, and one whose runs used up both limits; a second execution meets the
\* counters in between.
TheCounters == {[round |-> 0, revision |-> 0], [round |-> 2, revision |-> 1]}
=============================================================================
