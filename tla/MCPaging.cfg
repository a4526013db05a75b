CONSTANTS
  History <- MCHistory
  Wanted = "work"
  Limit = 1
  WindowLedgers = 2
  WindowsPerPage = 2
  TimeBounds <- MCTimeBounds
SPECIFICATION FairSpec
INVARIANTS
  WalkIsComplete
CHECK_DEADLOCK FALSE
PROPERTY WalkEnds
