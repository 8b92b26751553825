---------------------------- MODULE MCLessonLocks ----------------------------
(* Instances of LessonLocks for TLC. *)
EXTENDS LessonLocks, TLC

Symmetry == Permutations(Events) \cup Permutations(Calls) \cup Permutations(Updates)
==============================================================================
