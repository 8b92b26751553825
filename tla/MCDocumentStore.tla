--------------------------- MODULE MCDocumentStore ---------------------------
(* Instances of DocumentStore for TLC. *)
EXTENDS DocumentStore, TLC

Symmetry == Permutations(Edits) \cup Permutations(Handlers) \cup Permutations(Runs)
==============================================================================
