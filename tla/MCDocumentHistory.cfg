\* Trimming, merging, a copy that is saved, and two reloads.
SPECIFICATION HistorySpec
CONSTANTS
  Clients = {c1, c2}
  CommentIds = {m1, m2}
  MaxSteps = 3
  MaxVersion = 4
  MaxBatch = 2
  MaxEvents = 3
  MaxSaves = 1
  MaxReloads = 2
SYMMETRY Symmetry
INVARIANTS
  HistoryIsTail
  CommentEventsAligned
  RecentPollIsExact
