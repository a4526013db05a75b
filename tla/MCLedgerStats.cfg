CONSTANTS
  f1 = f1
  b1 = b1
  Follower = {f1}
  Backfiller = {b1}
  StartFlag = 3
  First <- FirstBelow
  Last <- LastBelow
  Concurrency <- ConcurrencyTwo
  Row <- MCRow
  RowsOf <- MCRowsOf
  MaxTip = 4
  MaxFaults = 2
  Asked = {2, 3, 4}
SPECIFICATION StatsFairSpec
INVARIANTS
  IndexedCountIsComplete
PROPERTIES
  FaultsAreOvercome
