----------------------------- MODULE MCProgress -----------------------------
(* Two lessons, a grade, two messages and two requests at once *)
EXTENDS Progress, TLC

Symmetry == Permutations(Lessons) \cup Permutations(Messages) \cup Permutations(Requests)

(* Behaviours are followed past overlapping sessions, but not past other   *)
(* overlaps: what is promised after those concerns other fields.           *)
SomethingPromised == entangled \subseteq {{"session"}}
==============================================================================
