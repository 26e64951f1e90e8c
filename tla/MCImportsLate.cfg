SPECIFICATION LateSpec
CONSTANTS
    a1 = a1
    a2 = a2
    r1 = r1
    r2 = r2
    Lines <- MCLateLines
    OtherStatement <- MCOther
    Transactions = {1, 2}
    Bills <- MCBills
    Batches = {1, 2}
    Accounts = {a1, a2}
    StatementAccounts = {a1}
    Pages = {u1}
    Requests = {}
    Deliveries = {}
    Manual <- MCManual
    MaxMoves = 1
    NoAccount = NoAccount
    NoBatch = NoBatch
    NoLine = NoLine
    NoPreview = NoPreview
INVARIANT LateBillsCompared
