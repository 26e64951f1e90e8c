SPECIFICATION NoPlansSpec
CONSTANTS
    a1 = a1
    a2 = a2
    t1 = t1
    t2 = t2
    t3 = t3
    Accounts = {a1, a2}
    Transactions = {t1, t2}
    Plans = {}
    Bills = {b1}
    Requests = {}
    Jobs = {}
    BillRequests = {q1}
    Entries <- MCEntries
    Purchases <- MCPurchases
    BillDrafts <- MCBillDrafts
    Horizon = 0
    NoAccount = NoAccount
    NoPlan = NoPlan
    NoTransaction = NoTransaction
    NoBill = NoBill
INVARIANT
    BillInvariant
