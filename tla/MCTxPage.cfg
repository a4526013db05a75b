CONSTANTS
  Call = {"tx", "operations", "effects"}
  Size = 2
  MaxChanges = 2
  MetaKeepers = {1}
SPECIFICATION FairPageSpec
INVARIANTS
  OneProviderIsEnough
  TraceTabIsHonest
  ThinTraceHasAReason
PROPERTIES
  LooksUntilFound
  PageSettles
