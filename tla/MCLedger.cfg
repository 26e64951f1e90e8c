SPECIFICATION LedgerSpec
CONSTANTS
    a1 = a1
    a2 = a2
    Accounts = {a1, a2}
    Transactions = {t1, t2, t3}
    Plans = {p1}
    Bills = {}
    Requests = {r1, r2}
    Jobs = {j1, j2}
    Entries <- MCEntries
    Purchases <- MCPurchases
    Horizon = 1
    NoAccount = NoAccount
    NoPlan = NoPlan
    NoTransaction = NoTransaction
    NoBill = NoBill
INVARIANTS
    TypeOK
    ScheduledRowsUntouched
PROPERTIES
    DriftOnlyByStaleWrite
    DueRowsGetPosted
