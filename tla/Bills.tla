-------------------------------- MODULE Bills --------------------------------
(***************************************************************************)
(* Bills to pay (contas a pagar) over the ledger: bills.service.ts composed *)
(* with the handlers of Ledger.                                             *)
(*                                                                          *)
(* pay, unpay and linkTransaction take the bill row FOR UPDATE and re-read  *)
(* it; a whole locked section that reads nothing but the bill is one step.  *)
(* unpay of a GENERATED settlement also reads the transaction row, which it *)
(* does not lock, so it is two steps with the lock held between them.       *)
(* cancel, reopen, remove and update read the bill, decide, and write it by *)
(* id later, with no lock.                                                  *)
(***************************************************************************)
EXTENDS Ledger

CONSTANTS
    BillRequests,   \* HTTP requests to /bills that read first and write later
    BillDrafts      \* [targetAccountId, recurring] of the bills that get created

ASSUME BillDraftAssumption ==
    BillDrafts \subseteq [targetAccountId : AccountRef, recurring : BOOLEAN]

VARIABLE breq       \* bill requests in flight

billVars == <<ledgerVars, breq>>

-----------------------------------------------------------------------------
IdleBillRequest(pc) ==
    [pc |-> pc, bill |-> NoBill, tx |-> NoTransaction, snap |-> EmptyRow("UNUSED"),
     targetAccountId |-> NoAccount, recurring |-> FALSE]

BillRequestType ==
    [pc : {"new", "unpay", "cancel", "reopen", "remove", "edit", "link", "done"},
     bill : Bills \cup {NoBill}, tx : Transactions \cup {NoTransaction}, snap : Row,
     targetAccountId : AccountRef, recurring : BOOLEAN]

FinishBill(q) == breq' = [breq EXCEPT ![q] = IdleBillRequest("done")]

\* Only unpay keeps the row lock of lockBill across a step.
Locked(b) == \E q \in BillRequests : breq[q].pc = "unpay" /\ breq[q].bill = b

Writable(b) == BillExists(b) /\ ~Locked(b)

\* A card bill (targetAccountId) is paid by a transfer, any other by an expense.
PaysFor(e, b) ==
    IF bill[b].targetAccountId # NoAccount THEN e.type = "TRANSFER" ELSE e.type = "EXPENSE"

\* Fault: the bill refers to itself.
SettledBySelf(b, t, how) ==
    [bill EXCEPT ![b] = [@ EXCEPT !.status = "PAID", !.transactionId = b, !.settlement = how]]

Settled(b, t, how) ==
    [bill EXCEPT ![b] = [@ EXCEPT !.status = "PAID", !.transactionId = t, !.settlement = how]]

BillsInit == LedgerInit /\ breq = [q \in BillRequests |-> IdleBillRequest("new")]

-----------------------------------------------------------------------------
CreateBill(b, d) ==
    /\ bill[b].status = "NONE"
    /\ bill' = [bill EXCEPT ![b] = [@ EXCEPT !.status = "PENDING",
                                              !.targetAccountId = d.targetAccountId,
                                              !.recurring = d.recurring]]
    /\ UNCHANGED <<txn, applied, plan, req, job, today, breq>>

\* lockBill, re-read, createWithin, update: one locked transaction.
Pay(b, t, e) ==
    /\ Writable(b)
    /\ bill[b].status = "PENDING"
    /\ PaysFor(e, b)
    /\ bill[b].targetAccountId # NoAccount => e.toAccountId = bill[b].targetAccountId
    /\ InsertPosted(t, e)
    /\ bill' = Settled(b, t, "GENERATED")
    /\ UNCHANGED <<plan, req, job, today, breq>>

CanUnpay(b) ==
    /\ Writable(b)
    /\ bill[b].status = "PAID"
    /\ bill[b].transactionId # NoTransaction
    /\ bill[b].settlement # "NONE"

Unlink(b) ==
    /\ CanUnpay(b)
    /\ bill' = [bill EXCEPT ![b] = Reopened(@)]
    /\ UNCHANGED <<txn, applied, plan, req, job, today, breq>>

\* Fault: a generated payment is unlinked as well, and stays behind.
UnpayAnyLink(b) == Unlink(b)

UnpayLinked(b) == bill[b].settlement = "LINKED" /\ Unlink(b)

\* The bill is locked, its transaction is only read.
UnpayRead(q, b) ==
    LET t == bill[b].transactionId
    IN  /\ breq[q].pc = "new"
        /\ CanUnpay(b)
        /\ bill[b].settlement = "GENERATED"
        /\ breq' = [breq EXCEPT ![q] = [@ EXCEPT !.pc = "unpay", !.bill = b, !.tx = t,
                                                  !.snap = txn[t]]]
        /\ UNCHANGED ledgerVars

UnpayCommit(q) ==
    /\ breq[q].pc = "unpay"
    /\ DeleteWithin(breq[q].tx, breq[q].snap, BillOf(breq[q].tx))
    /\ FinishBill(q)
    /\ UNCHANGED <<plan, req, job, today>>

-----------------------------------------------------------------------------
(* Handlers that check the status first and write by id afterwards *)

StatusRead(pc) == IF pc = "reopen" THEN "CANCELED" ELSE "PENDING"

\* findVisible and the status guard of cancel, reopen, remove and update.
CheckBill(q, b, pc, target) ==
    /\ breq[q].pc = "new"
    /\ BillExists(b)
    /\ bill[b].status = StatusRead(pc)
    /\ breq' = [breq EXCEPT ![q] = [@ EXCEPT !.pc = pc, !.bill = b, !.targetAccountId = target,
                                              !.recurring = bill[b].recurring]]
    /\ UNCHANGED ledgerVars

WriteBill(q, row) ==
    /\ Writable(breq[q].bill)
    /\ bill' = [bill EXCEPT ![breq[q].bill] = row]
    /\ FinishBill(q)
    /\ UNCHANGED <<txn, applied, plan, req, job, today>>

CancelWrite(q) ==
    /\ breq[q].pc = "cancel"
    /\ WriteBill(q, [bill[breq[q].bill] EXCEPT !.status = "CANCELED"])

ReopenWrite(q) ==
    /\ breq[q].pc = "reopen"
    /\ WriteBill(q, [bill[breq[q].bill] EXCEPT !.status = "PENDING"])

\* A bill born of a recurrence is canceled, so that the job does not recreate it.
RemoveBillWrite(q) ==
    /\ breq[q].pc = "remove"
    /\ WriteBill(q, IF breq[q].recurring
                    THEN [bill[breq[q].bill] EXCEPT !.status = "CANCELED"]
                    ELSE NoBillRow("DELETED"))

EditWrite(q) ==
    /\ breq[q].pc = "edit"
    /\ WriteBill(q, [bill[breq[q].bill] EXCEPT !.targetAccountId = breq[q].targetAccountId])

-----------------------------------------------------------------------------
(* linkTransaction *)

\* matchCandidates, outside the transaction.
LinkRead(q, b, t) ==
    /\ breq[q].pc = "new"
    /\ bill[b].status = "PENDING"
    /\ txn[t].postingStatus = "POSTED"
    /\ BillOf(t) = NoBill
    /\ PaysFor(txn[t].entry, b)
    /\ bill[b].targetAccountId # NoAccount => txn[t].entry.toAccountId = bill[b].targetAccountId
    /\ breq' = [breq EXCEPT ![q] = [@ EXCEPT !.pc = "link", !.bill = b, !.tx = t,
                                              !.snap = txn[t],
                                              !.targetAccountId = bill[b].targetAccountId]]
    /\ UNCHANGED ledgerVars

\* Fault: the link is not checked again under the locks.
CanLinkTwice(q) == bill[breq[q].bill].status = "PENDING" /\ Live(breq[q].tx)

\* Both rows are locked and the bill and the link are checked again; a row that
\* is gone cannot be referenced (foreign key).
CanLink(q) ==
    /\ bill[breq[q].bill].status = "PENDING"
    /\ BillOf(breq[q].tx) = NoBill
    /\ Live(breq[q].tx)

LinkCommit(q) ==
    /\ breq[q].pc = "link"
    /\ ~Locked(breq[q].bill)
    /\ CanLink(q)
    /\ bill' = Settled(breq[q].bill, breq[q].tx, "LINKED")
    /\ FinishBill(q)
    /\ UNCHANGED <<txn, applied, plan, req, job, today>>

\* 409, or P2025 for a row that is gone: rolled back.
BillWriteFails(q) ==
    /\ \/ breq[q].pc = "unpay" /\ ~Live(breq[q].tx)
       \/ breq[q].pc \in {"cancel", "reopen", "remove", "edit"} /\ ~BillExists(breq[q].bill)
       \/ breq[q].pc = "link" /\ ~Locked(breq[q].bill) /\ ~CanLink(q)
    /\ FinishBill(q)
    /\ UNCHANGED ledgerVars

-----------------------------------------------------------------------------
\* Handlers that are one locked (or one insert) step need no request in flight.
SettleStep ==
    \/ \E b \in Bills, d \in BillDrafts : CreateBill(b, d)
    \/ \E b \in Bills, t \in Transactions, e \in Entries : Pay(b, t, e)
    \/ \E b \in Bills : UnpayLinked(b)

BillStep(q) ==
    \/ \E b \in Bills : UnpayRead(q, b)
    \/ \E b \in Bills, pc \in {"cancel", "reopen", "remove"} : CheckBill(q, b, pc, NoAccount)
    \/ \E b \in Bills, a \in AccountRef : CheckBill(q, b, "edit", a)
    \/ \E b \in Bills, t \in Transactions : LinkRead(q, b, t)
    \/ UnpayCommit(q)
    \/ CancelWrite(q)
    \/ ReopenWrite(q)
    \/ RemoveBillWrite(q)
    \/ EditWrite(q)
    \/ LinkCommit(q)
    \/ BillWriteFails(q)

\* A ledger handler that writes a locked bill waits until the lock is released.
RespectsBillLocks == \A b \in Bills : Locked(b) => bill'[b] = bill[b]

LedgerUnderLocks == LedgerNext /\ RespectsBillLocks /\ UNCHANGED breq

BillsNext == LedgerUnderLocks \/ SettleStep \/ \E q \in BillRequests : BillStep(q)

\* Nothing in flight: the server may stay idle; a request that waits for ever
\* for a lock is a deadlock.
BillsIdle ==
    /\ RequestsAtRest
    /\ \A j \in Jobs : job[j] = IdleJob
    /\ \A q \in BillRequests : breq[q].pc \in {"new", "done"}
    /\ UNCHANGED billVars

BillsSpec == BillsInit /\ [][BillsNext \/ BillsIdle]_billVars

-----------------------------------------------------------------------------
(* Properties *)

\* Every variable ranges over its type.
BillsTypeOK == TypeOK /\ breq \in [BillRequests -> BillRequestType]

\* A transaction settles at most one bill, whatever the interleaving of pay,
\* link, cancel, reopen and the handlers of the ledger.  The row locks and the
\* checks repeated under them ensure it alone: the unique index on
\* Bill.transactionId is left out of the model, so no request ever runs into it.
NoSharedSettlement ==
    \A b, c \in Bills :
        bill[b].transactionId = bill[c].transactionId /\ b # c
            => bill[b].transactionId = NoTransaction

\* "PAID <=> transactionId e settlement preenchidos" (docs/35-contas-a-pagar.md, 6.3).
PaidIffSettled(b) ==
    bill[b].status = "PAID" <=> /\ bill[b].transactionId # NoTransaction
                                /\ bill[b].settlement # "NONE"

\* A bill is PAID iff it has a payment and a settlement (bills.service.ts writes the
\* three together); section 6.3 of docs/35 says it of every state.
BillInvariant == \A b \in Bills : PaidIffSettled(b)

\* cancel, reopen or remove writes a bill whose status is no longer the one it checked.
StaleBillWrite(q, b) ==
    /\ breq[q].bill = b
    /\ breq[q].pc \in {"cancel", "reopen", "remove"}
    /\ bill[b].status # StatusRead(breq[q].pc)
    /\ breq'[q].pc = "done"

\* deleteWithin acts on a link between the row and a bill that changed after its
\* lookup, or a plan is removed by ids of which one was posted and linked since.
StaleLookup(r, b) ==
    /\ req'[r].pc = "done"
    /\ \/ req[r].pc = "delete" /\ req[r].linked # BillOf(req[r].tx)
       \/ /\ req[r].pc = "removePlan"
          /\ bill[b].transactionId \in req[r].ids

SettlementBreakCause(b) ==
    \/ \E q \in BillRequests : StaleBillWrite(q, b)
    \/ \E r \in Requests : StaleLookup(r, b)

\* The bill invariant breaks only in the commit of a write whose check or lookup
\* is stale: pay, unpay and link, which lock the bill, never break it.
InvariantBrokenOnlyByStaleWrite ==
    [][\A b \in Bills :
          PaidIffSettled(b) /\ ~PaidIffSettled(b)' => SettlementBreakCause(b)]_billVars

GeneratedPayment(b) ==
    /\ bill[b].status = "PAID"
    /\ bill[b].settlement = "GENERATED"
    /\ bill[b].transactionId # NoTransaction

\* A payment that a bill generated leaves the bill only by being deleted (unpay
\* and DELETE /transactions have the same effect), except in a stale write.
GeneratedPaymentNotOrphaned ==
    [][\A b \in Bills :
          GeneratedPayment(b) /\ bill'[b].transactionId # bill[b].transactionId
          => \/ txn'[bill[b].transactionId].postingStatus = "DELETED"
             \/ SettlementBreakCause(b)]_billVars

StaleUnpay(q, t) ==
    breq[q].pc = "unpay" /\ breq[q].tx = t /\ breq[q].snap # txn[t] /\ breq'[q].pc = "done"

\* DriftOnlyByStaleWrite for the composition: of the bill handlers only unpay can
\* make the balance drift, and only if the transaction changed after it was read.
BillsDriftOnlyByStaleWrite ==
    [][\A t \in Transactions :
          RowBalanced(t) /\ ~RowBalanced(t)' =>
              LedgerDriftCause(t) \/ \E q \in BillRequests : StaleUnpay(q, t)]_billVars

\* A bill is paid by a row of the right type: a card bill by a transfer, any
\* other bill by an expense.
PaymentTypeFits(b) ==
    bill[b].status = "PAID" /\ bill[b].transactionId # NoTransaction
        => PaysFor(txn[bill[b].transactionId].entry, b)

\* The payment type is lost only by a write that was checked too early: an edit
\* of the bill checked before it was paid, a link checked before the bill or the
\* row changed, an update of the row read before it was linked ("EXPENSE -> INCOME
\* deixaria a conta paga por um lancamento que nao e pagamento", docs/35, 6.2).
PaymentTypeLostOnlyByStaleWrite ==
    [][\A b \in Bills :
          PaymentTypeFits(b) /\ ~PaymentTypeFits(b)' =>
              \/ \E q \in BillRequests :
                    /\ breq[q].bill = b
                    /\ breq'[q].pc = "done"
                    /\ \/ breq[q].pc = "edit" /\ bill[b].status # "PENDING"
                       \/ /\ breq[q].pc = "link"
                          /\ \/ breq[q].snap # txn[breq[q].tx]
                             \/ breq[q].targetAccountId # bill[b].targetAccountId
              \/ \E r \in Requests :
                    /\ req[r].pc = "update"
                    /\ req'[r].pc = "done"
                    /\ req[r].tx = bill[b].transactionId
                    /\ \/ req[r].linked # b
                       \/ req[r].snap # txn[req[r].tx]]_billVars
=============================================================================
