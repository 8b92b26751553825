SPECIFICATION Spec
CONSTANTS
  Users = {u1, u2}
  Secrets = {s1, s2}
  Requests = {r1, r2}
SYMMETRY Symmetry
CONSTRAINT SomethingPromised
INVARIANTS
  OneFirstAdministrator
  EnabledSecretIsConfirmed
  CompletedOnce
