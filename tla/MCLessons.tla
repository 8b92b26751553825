------------------------------ MODULE MCLessons ------------------------------
(* Instances of Lessons for TLC. *)
EXTENDS Lessons, TLC

Symmetry == Permutations(Lessons) \cup Permutations(Titles) \cup Permutations(Requests)

(* A behaviour is followed as long as something is promised.               *)
SomethingPromised == ~rewritten /\ raced # Titles
==============================================================================
