SPECIFICATION ProvidersSpec
SYMMETRY SyncSymmetry
CONSTANTS
    s1 = s1
    s2 = s2
    Syncs = {s1, s2}
    Accounts <- ThreeAccounts
    Remote <- TwoHalves
    Logins <- SomeLogins
    Mappings <- SomeMappings
    Seeds <- SomeBooks
    LastDay = 8
    Step = 8
    Attempts = 2
    MaxMoves = 1
    Runs = {s1, s2}
    Movements = {1}
    MaxClock = 1
    MaxStarts = 2
    MaxSlips = 1
INVARIANTS
    RecordedTwiceOnlyIfDeleted
    LeftBehindOnlyIfSkipped
    HalvesOnlyByOverlap
    ConnectionKeepsItsWord
