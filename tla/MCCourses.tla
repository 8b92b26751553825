------------------------------ MODULE MCCourses ------------------------------
(* Instances of Courses for TLC. *)
EXTENDS Courses, TLC

Symmetry == Permutations(Users) \cup Permutations(Courses) \cup Permutations(Requests)

(* Nothing is promised of the lists of a disturbed user: a behaviour is    *)
(* followed until all are.                                                 *)
SomeUndisturbed == disturbed # Users
==============================================================================
