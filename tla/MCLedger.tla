------------------------------ MODULE MCLedger ------------------------------
(* A small household for TLC: two accounts, one of each kind of entry, and   *)
(* one purchase in two installments, the second of them due a day later.     *)
EXTENDS Ledger, TLC

CONSTANTS a1, a2

Expense == [type |-> "EXPENSE", amount |-> 1, date |-> 0, accountId |-> a1,
            fromAccountId |-> NoAccount, toAccountId |-> NoAccount]
Income == [Expense EXCEPT !.type = "INCOME", !.amount = 2]
Transfer == [type |-> "TRANSFER", amount |-> 4, date |-> 0, accountId |-> NoAccount,
             fromAccountId |-> a1, toAccountId |-> a2]

MCEntries == {Income, Transfer}
MCPurchases == {[accountId |-> a1, totalAmount |-> 3, installmentsCount |-> 2, purchaseDate |-> 0]}
MCSymmetry == Permutations(Requests) \cup Permutations(Transactions)
=============================================================================
