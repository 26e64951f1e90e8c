------------------------------- MODULE MCBills -------------------------------
(* Two bills, an ordinary one and one of a recurrence that is the invoice of  *)
(* card a2, and two transactions that may settle them; or one ordinary bill    *)
(* that an installment of a plan may settle, the last of which is to come.     *)
EXTENDS Bills, TLC

CONSTANTS a1, a2, t1, t2, t3

Expense == [type |-> "EXPENSE", amount |-> 1, date |-> 0, accountId |-> a1,
            fromAccountId |-> NoAccount, toAccountId |-> NoAccount]
Transfer == [type |-> "TRANSFER", amount |-> 2, date |-> 0, accountId |-> NoAccount,
             fromAccountId |-> a1, toAccountId |-> a2]

MCEntries == {Expense, Transfer}
MCPurchases == {}
\* A purchase in two installments, the second of them due a day later.
MCInstallments == {[accountId |-> a1, totalAmount |-> 2, installmentsCount |-> 2, purchaseDate |-> 0]}
MCBillDrafts == {[targetAccountId |-> NoAccount, recurring |-> FALSE],
                 [targetAccountId |-> a2, recurring |-> TRUE]}
MCSymmetry == Permutations(Requests) \cup Permutations({t1, t2})
              \cup Permutations(Bills) \cup Permutations(BillRequests)

VARIABLE load

OneAtMost(used) == Cardinality(used) <= 1

PaymentsNext ==
    /\ BillsNext
    /\ txn'[t3].postingStatus = "UNUSED" /\ UNCHANGED <<plan, today, job>>

PlansNext ==
    /\ BillsNext
    /\ OneAtMost({b \in Bills : bill'[b].status # "NONE"}) /\ \A b \in Bills : ~bill'[b].recurring
    /\ OneAtMost({q \in BillRequests : breq'[q].pc # "new"})

LoadedInit == BillsInit /\ load \in {"payments", "plans"}

LoadedNext ==
    /\ UNCHANGED load
    /\ \/ load = "payments" /\ PaymentsNext
       \/ load = "plans" /\ PlansNext
       \/ BillsIdle

LoadedSpec == LoadedInit /\ [][LoadedNext]_<<billVars, load>>

\* The bills without the plans.
NoPlansSpec ==
    /\ BillsInit /\ load = "payments"
    /\ [][BillsNext /\ UNCHANGED load]_<<billVars, load>>
=============================================================================
