SPECIFICATION LoadedSpec
CONSTANTS
    a1 = a1
    a2 = a2
    r1 = r1
    r2 = r2
    Lines <- MCLines
    OtherStatement <- MCOther
    Transactions = {1, 2, 3}
    Bills <- MCTwoBills
    Batches = {1, 2}
    Accounts = {a1, a2}
    StatementAccounts = {a1}
    Pages = {u1, u2}
    Requests = {r1, r2}
    Deliveries = {d1}
    Manual <- MCManual
    MaxMoves = 4
    NoAccount = NoAccount
    NoBatch = NoBatch
    NoLine = NoLine
    NoPreview = NoPreview
SYMMETRY MCSymmetry
INVARIANTS
    BillsPaidSoundly
    SuggestionsSound
PROPERTIES
    LineImportedTwiceOnlyIf
    BatchFateMixedOnlyByStaleCheck
