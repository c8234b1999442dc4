-------------------------- MODULE MCDocumentUpload --------------------------
(* DocumentUpload with one document that exists before the uploads.          *)
EXTENDS DocumentUpload, TLC

CONSTANTS d1, p1

MCHome == [d \in {d1} |-> p1]

\* Nothing tells the requests, or the ids, from one another.
Symmetry == Permutations(Uploads) \cup Permutations(ObjectIds)
=============================================================================
