-------------------------- MODULE MCDocumentHistory --------------------------
(* Instances of DocumentHistory for TLC. *)
EXTENDS DocumentHistory, TLC

Symmetry == Permutations(Clients) \cup Permutations(CommentIds)
==============================================================================
