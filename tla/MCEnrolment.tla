----------------------------- MODULE MCEnrolment -----------------------------
(* Instances of Enrolment for TLC. *)
EXTENDS Enrolment, TLC

Symmetry == Permutations(Users) \cup Permutations(Requests) \cup Permutations(Cohorts)

(* Nothing is promised of a user who is disturbed: a behaviour is followed *)
(* until all are.                                                          *)
SomeUndisturbed == disturbed # Users
==============================================================================
