CONSTANTS
  Page <- MCPage
  KindOf <- MCKindOf
  HISTORY_LIMIT = 1
  MaxTurns = 3
  MaxActs = 6
SPECIFICATION ChatSpec
INVARIANTS
  OneRequestPerTurn
  RetriedAsAsked
CHECK_DEADLOCK FALSE
