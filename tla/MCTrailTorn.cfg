SPECIFICATION TrailSpec
CONSTANTS
    RequestIds = {i1, i2}
    Contents = {approved, rejected}
    CacheSize = 1
    MaxCalls = 4
    MaxCrashes = 2
    Scenarios <- TornOnly
SYMMETRY Symmetry
INVARIANTS
    AckedIsReadable
CHECK_DEADLOCK FALSE
