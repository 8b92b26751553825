\* Two requests at once on three lessons with two titles.
SPECIFICATION Spec
CONSTANTS
  Lessons = {l1, l2, l3}
  Titles = {t1, t2}
  Requests = {r1, r2}
SYMMETRY Symmetry
CONSTRAINT SomethingPromised
INVARIANTS
  StoredAreListed
  ListedAreStored
  TitlesAreUnique
  FilesMatchLessons
