------------------------------ MODULE MCImports ------------------------------
(* One statement with a debit and a credit, a bill the debit may pay, and a    *)
(* movement of the other account that may be the other side of the credit.     *)
EXTENDS Imports, TLC

CONSTANTS a1, a2, r1, r2

MCSymmetry == Permutations(Pages)

Debit(id, day, text) == [id |-> id, day |-> day, amount |-> 5, out |-> TRUE, text |-> text]
Credit(id, day, text) == [Debit(id, day, text) EXCEPT !.out = FALSE]

MCLines == {Debit(1, 2, "RENT")}
MCOther == {Debit(11, 2, "RENT"), Debit(12, 3, "PIX"), Credit(13, 2, "PIX")}

Rent(day, account) ==
    [day |-> day, amount |-> 5, text |-> "RENT", accountId |-> account, targetAccountId |-> NoAccount]

MCBills == <<Rent(1, NoAccount)>>
\* The second one is to be paid by the other account.
MCTwoBills == <<Rent(1, NoAccount), Rent(2, a2)>>

VARIABLE load

LoadedInit == ImportsInit /\ load \in {"pages", "bills"}

\* What needs no further outside event.
Inside ==
    \/ ImportsIdle
    \/ \E u \in Pages : PageStep(u)
    \/ \E d \in Deliveries : DeliveryStep(d)
    \/ DeleteCommit(r1) \/ CancelWrite(r1) \/ ReopenWrite(r1)

\* Two pages, two batches and a mail, with one bill and one outside event.
PagesNext ==
    /\ IF moves = 0 THEN ImportsNext ELSE Inside
    /\ txn'[3].status = "UNUSED" /\ bill'[2] = OpenBill
    /\ request'[r1].bill # 2 /\ request'[r2] = IdleRequest

\* Two bills and two requests, with one page at a time and one batch.
BillsNext ==
    /\ \/ ImportsIdle
       \/ \E u \in Pages : (\A v \in Pages \ {u} : page[v].pc = "closed") /\ PageStep(u)
       \/ LedgerStep
       \/ \E r \in Requests : RequestStep(r)
       \/ Restart
    /\ batch'[2].status = "NONE"

LoadedNext ==
    /\ UNCHANGED load
    /\ \/ load = "pages" /\ PagesNext
       \/ load = "bills" /\ BillsNext

LoadedSpec == LoadedInit /\ [][LoadedNext]_<<importVars, load>>

\* Nothing but the pages, for a statement whose bills are long due.
LateSpec ==
    /\ ImportsInit /\ load = "pages"
    /\ [][ImportsNext /\ UNCHANGED load]_<<importVars, load>>

\* Paid almost three weeks late.
MCLateLines == {Debit(1, 20, "RENT")}

MCManual == {[type |-> "INCOME", accountId |-> a2, fromAccountId |-> NoAccount,
              toAccountId |-> NoAccount, amount |-> 5, day |-> 2, text |-> "PIX"]}
=============================================================================
