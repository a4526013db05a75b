CONSTANTS
  f1 = f1
  b1 = b1
  Follower = {f1}
  Backfiller = {b1}
  StartFlag = 1
  First <- FirstAhead
  Last <- LastAhead
  Concurrency <- ConcurrencyTwo
  Row <- MCRow
  RowsOf <- MCRowsOf
  MaxTip = 3
  MaxFaults = 1
  Asked = {1, 2, 3}
SPECIFICATION StatsSpec
INVARIANT IndexedSilenceIsReal
