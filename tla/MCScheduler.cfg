\* Two overlapping calls, three events, a restart. When all events are done or deleted, nothing is left to do.
SPECIFICATION SchedulerSpec
CONSTANTS
  Events = {e1, e2, e3}
  Calls = {c1, c2}
  None = None
  MaxCrashes = 1
SYMMETRY Symmetry
CHECK_DEADLOCK FALSE
INVARIANTS
  StatisticsGoOn
  TriggeredOnce
