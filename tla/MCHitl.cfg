SPECIFICATION HitlSpec
CONSTANTS
    Workers = {w1, w2}
    Reviewers = {alice, bob}
    Capacity = 1
    MaxReqs = 2
    MaxSessions = 2
    MaxIds = 3
    MaxClicks = 3
    MaxPosts = 1
    RequestIds = {i1, i2}
    Contents = {approved, rejected}
    CacheSize = 1
    MaxCalls = 4
    MaxCrashes = 2
    Scenarios <- AllScenarios
SYMMETRY Symmetry
INVARIANTS
    TypeOK
    AppliedToWhatWasShown
    RequestEndsOnce
    TrailTellsWhatHappened
    ChatTellsTheTruth
    RegistryKeepsUnfinished
    TrailTypeOK
    OneRecordPerId
    AckedSurvives
CHECK_DEADLOCK FALSE
