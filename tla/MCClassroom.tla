----------------------------- MODULE MCClassroom -----------------------------
(* Instances of Classroom for TLC. *)
EXTENDS Classroom

Symmetry == Permutations(Sockets) \cup Permutations(RoomNames) \cup Permutations(Messages)
==============================================================================
