\* Two calls of the scheduler and two updates of the lesson overlap; three events; a restart. A lesson may be deleted with nothing left to do.
SPECIFICATION LocksSpec
CONSTANTS
  Events = {e1, e2, e3}
  Calls = {c1, c2}
  Updates = {u1, u2}
  None = None
  MaxCrashes = 1
  MaxDeletions = 1
SYMMETRY Symmetry
CHECK_DEADLOCK FALSE
INVARIANTS
  LocksArePending
  LockedIsInactive
