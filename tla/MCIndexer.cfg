CONSTANTS
  f1 = f1
  b1 = b1
  b2 = b2
  Follower = {f1}
  Backfiller = {b1, b2}
  StartFlag = 4
  First <- FirstBelow
  Last <- LastBelow
  Concurrency <- ConcurrencyTwoOne
  Row <- MCRow
  RowsOf <- MCRowsOf
  MaxTip = 5
  MaxFaults = 2
SPECIFICATION Spec
INVARIANTS
  RangeCheckpointSound
  CompleteMeansIndexed
  FollowLeavesNoGap
PROPERTY OnlyThroughSave
