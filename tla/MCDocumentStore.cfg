\* Two overlapping requests, two overlapping save runs, a cache limit of one.
SPECIFICATION Spec
CONSTANTS
  Docs = {d1, d2}
  Edits = {e1, e2}
  Handlers = {h1, h2}
  Runs = {r1, r2}
  MaxInstances = 1
  MaxCount = 3
  MaxCrashes = 1
SYMMETRY Symmetry
INVARIANTS
  TypeOK
  CountCoversCache
  PendingSaveIsKept
  NoSilentLoss
PROPERTY
  ImplementsEditLog
