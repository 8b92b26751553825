\* At most one call of saveToDatabase at a time: the timer alone, and a database that answers within the minute. Liveness, hence no symmetry.
SPECIFICATION FairSpec
CONSTANTS
  Docs = {d1, d2}
  Edits = {e1, e2}
  Handlers = {h1, h2}
  Runs = {r1}
  MaxInstances = 1
  MaxCount = 3
  MaxCrashes = 0
INVARIANT
  NeverAborts
PROPERTY
  PendingEventuallySaved
