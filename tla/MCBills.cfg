SPECIFICATION LoadedSpec
CONSTANTS
    a1 = a1
    a2 = a2
    t1 = t1
    t2 = t2
    t3 = t3
    Accounts = {a1, a2}
    Transactions = {t1, t2, t3}
    Plans = {p1}
    Bills = {b1, b2}
    Requests = {r1, r2}
    Jobs = {j1}
    BillRequests = {q1, q2}
    Entries <- MCEntries
    Purchases <- MCInstallments
    BillDrafts <- MCBillDrafts
    Horizon = 1
    NoAccount = NoAccount
    NoPlan = NoPlan
    NoTransaction = NoTransaction
    NoBill = NoBill
SYMMETRY MCSymmetry
INVARIANTS
    BillsTypeOK
    NoSharedSettlement
PROPERTIES
    InvariantBrokenOnlyByStaleWrite
    GeneratedPaymentNotOrphaned
    BillsDriftOnlyByStaleWrite
    PaymentTypeLostOnlyByStaleWrite
