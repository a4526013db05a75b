CONSTANTS
  Cap = 2
  MaxErrors = 2
  MaxPages = 2
  First = 1
  MaxLedger = 3
  MaxFaults = 2
  MaxHides = 1
SPECIFICATION FairSpec
INVARIANTS
  NoDuplicates
  NothingLostInResume
PROPERTY
  HeadReachesUnlessRefused
CHECK_DEADLOCK FALSE
