----------------------------- MODULE MCAccounts -----------------------------
(* Two addresses, two secrets and two requests at once *)
EXTENDS Accounts, TLC

Symmetry == Permutations(Users) \cup Permutations(Secrets) \cup Permutations(Requests)

(* A behaviour is followed until registrations have overlapped when there  *)
(* were no accounts, or a matter of some account is entangled.  The fields *)
(* of the one matter are not read for the other.                           *)
SomethingPromised == ~crowded /\ \A m \in Matters : entangled[m] = {}
==============================================================================
