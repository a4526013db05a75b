CONSTANTS
  a1 = a1
  a2 = a2
  Nobody = Nobody
  Asset = {a1, a2}
  Client = {c1, c2}
  Publishes <- IconAndMeta
  Overridden = {a2}
  SizeOf <- MCSizeOf
  CacheBudget = 3
  PositiveTTL = 1
  NegativeTTL = 0
  MaxClock = 1
  MaxAsked = 4
  MaxFaults = 1
SPECIFICATION FairSpec
INVARIANTS
  OneResolver
  BudgetAccounts
PROPERTY RequestsAnswered
CHECK_DEADLOCK FALSE
