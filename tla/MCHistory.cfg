CONSTANTS
  Page <- MCPage
  KindOf <- MCKindOf
  First <- MCFirst
  Selected <- Even
  PageSize = 2
  Late = {7}
  MaxLost = 1
  MaxActs = 4
SPECIFICATION FairHistorySpec
INVARIANTS
  WalkSkipsNothing
  PagerLeadsOn
PROPERTIES
  ListSettles
CHECK_DEADLOCK FALSE
