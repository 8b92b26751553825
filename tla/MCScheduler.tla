----------------------------- MODULE MCScheduler -----------------------------
(* Instances of Scheduler for TLC. *)
EXTENDS Scheduler, TLC

Symmetry == Permutations(Events) \cup Permutations(Calls)
==============================================================================
