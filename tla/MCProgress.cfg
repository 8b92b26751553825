SPECIFICATION Spec
CONSTANTS
  Lessons = {l1, l2}
  Grades = {g1}
  Messages = {m1, m2}
  Requests = {r1, r2}
  MaxProgress = 2
  Threshold = 2
  MaxTime = 2
  Stamina = 1
  Mastered = 1
SYMMETRY Symmetry
CONSTRAINT SomethingPromised
INVARIANTS
  TotalIsSum
  RecordsAreKept
PROPERTIES
  OnlyAdjustmentsLower
