SPECIFICATION RecordSpec
CONSTANTS
    MAX_ITEMS = 3
    MAX_AUTH_DEPTH = 2
    MaxStream = 7
    MaxDepth = 3
    CaughtTraps = TRUE
    EventShapes <- MCShapes
    Absent = Absent
    Malformed = Malformed
    Unhinted = Unhinted
    PRECISION = 2
    DISPLAYED = 1
    EFFECTS_LIMIT = 3
    Accounts = {"GA", "GB", "GF", "GI", "GJ"}
    Records <- MCRecords
INVARIANTS
    LandsOnItsFrame
    ReturnsItsOwn
    LandsInsideItsFrame
    DrawnAsItRan
    LifetimesAreRight
    SaysWhatHappened
    NetChangesAddUp
    HintsAreTheirOwn
CHECK_DEADLOCK FALSE
