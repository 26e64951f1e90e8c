SPECIFICATION RecurrencesSpec
CONSTANTS
    g1 = g1
    g2 = g2
    Generators = {g1, g2}
    LastDay = 2
    StartDate = 0
    MaxDate = 3
    Week = 2
    MonthLength = 3
    Schedules <- MCSchedules
    Ends = {1, 9}
    Horizon = 1
    BillHorizon = 2
    MaxMoves = 2
INVARIANTS
    GeneratedAgainOnlyIfTouched
    SkippedOnlyByFailure
    NothingScheduledLeft
PROPERTIES
    DatesGetGenerated
