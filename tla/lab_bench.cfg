SPECIFICATION FairLabSpec
CONSTANTS
  Proc = {p1, p2}
  NoOne = NoOne
  Depth = 2
  LoSize = 2
  MaxTicks = 4
  MaxCycles = 1
  MaxTries = 2
  MaxSteps = 3
INVARIANTS BenchIsExclusive LeavesBenchSafe ReadsAreCurrent
PROPERTIES SafeUntilReleased ScheduledIsQueued SessionMovesOn
CHECK_DEADLOCK FALSE
