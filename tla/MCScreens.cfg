SPECIFICATION AllSpec
CONSTANTS
    Keys <- SomeKeys
    MaxActs = 3
    MaxMoves = 2
    Places = {p, q}
    NoPlace = NoPlace
    MaxTaps = 6
    Pointers = {1, 2}
    Farthest = 2
    MaxGestures = 4
    MonthsPerYear = 4
    MinYear = 2
    MaxYear = 3
    Today = 13
    NoMonth = 99
    FirstYear = 2024
    FirstWeekday = 1
    LastMonth = 49
    Starts <- ShortenedStarts
    MonthDays = {NoDay, 5, 31}
    NoDay = NoDay
    Totals = {1, 100, 1001}
    Counts = {2, 7, 12}
    MaxEdits = 1
INVARIANTS
    PageOfOtherHouseholdExcused
    OwnWritesShown
    SheetsKeepHistory
    PickersFollowTheHand
    DatesAddUp
