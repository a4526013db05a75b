CONSTANTS
  p1 = p1
  p2 = p2
  c1 = c1
  c2 = c2
  fn = fn
  ad = ad
  t1 = t1
  t2 = t2
  t3 = t3
  Proc = {p1, p2}
  Key <- MCKey
  KindOf <- MCKindOf
  Tx = {t1, t2, t3}
  Uses <- MCUses
  Ledger = {1, 2, 3}
  TxsOf <- MCTxsOf
  Plan <- Overlapping
  MaxId <- SomeIds
  MaxFaults = 1
SPECIFICATION FairSpec
INVARIANTS
  NoPhantomIds
PROPERTY SaveIsAtomic
CHECK_DEADLOCK FALSE
PROPERTY EveryStretchSaved
