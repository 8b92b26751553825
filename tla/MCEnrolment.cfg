\* Two requests at once on two users and two cohorts.
SPECIFICATION Spec
CONSTANTS
  Users = {u1, u2}
  Cohorts = {c1, c2}
  Requests = {r1, r2}
SYMMETRY Symmetry
CONSTRAINT SomeUndisturbed
INVARIANTS
  EnrolledAreMembers
  MembersAreEnrolled
