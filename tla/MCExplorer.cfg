SPECIFICATION ExplorerSpec
CONSTANTS
  Content <- MCContent
  Floor = 2
  Tip0 = 3
  LEDGER_OPS_PAGE = 2
  LEDGER_OPS_MAX_PAGES = 2
  TX_PAGE_SIZE = 1
  TX_ROWS = 4
  OPS_LOOKBACK = 5
  Contract = {"c1", "c2", "c3"}
  Wasm = {"h1", "h2"}
  Chain <- MCChain
  Readable = {"h1"}
INVARIANTS
  WholeLedger
  RowsTellFirstOps
  CodeIsItsOwn
PROPERTIES
  PagerMoves
  WaitingEnds
CHECK_DEADLOCK FALSE
