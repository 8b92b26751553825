\* Two requests at once on two users and two courses.
SPECIFICATION Spec
CONSTANTS
  Users = {u1, u2}
  Courses = {c1, c2}
  Requests = {r1, r2}
SYMMETRY Symmetry
CONSTRAINT SomeUndisturbed
INVARIANTS
  OwnersHaveCourse
  OwnedAreOwners
  AlwaysOwned
  NoLeftoverDirectory
