----------------------------- MODULE MCPresence -----------------------------
(* Instances of Presence for TLC. *)
EXTENDS Presence, TLC

Symmetry == Permutations(Sockets)
==============================================================================
