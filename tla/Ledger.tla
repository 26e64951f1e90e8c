------------------------------- MODULE Ledger -------------------------------
(***************************************************************************)
(* The ledger of a household: the transactions table, what its rows have   *)
(* done to the denormalised Account.balance column, the installment plans  *)
(* that schedule future rows, and the job that posts them.  It models      *)
(* transactions.service.ts, installment-plans/ and common/balance.ts.      *)
(*                                                                         *)
(* The database runs at READ COMMITTED and the handlers read before they   *)
(* open the write transaction, so a handler is split exactly where the     *)
(* code reads something it later writes from: an HTTP request (or a cron   *)
(* worker) keeps the row it read in `snap` until it commits.  The writes   *)
(* of one $transaction become visible together and are one step.           *)
(*                                                                         *)
(* Account.balance is only ever changed by `increment`, which commutes, so *)
(* it is kept here as the sum of what was applied on behalf of each row:   *)
(* applied[t][a] is the net amount that the applyBalance calls made for    *)
(* row t have added to account a.                                          *)
(***************************************************************************)
EXTENDS Integers, FiniteSets, Functions

CONSTANTS
    Accounts, Transactions, Plans, Bills,   \* ids of database rows
    Requests,                               \* HTTP requests that read first and write later
    Jobs,                                   \* workers of the posting cron job
    Entries,                                \* bodies of create/update requests
    Purchases,                              \* bodies of installment plan requests
    Horizon,                                \* last day the clock reaches
    NoAccount, NoPlan, NoTransaction, NoBill

AccountRef == Accounts \cup {NoAccount}

\* What a CreateTransactionDto says, and what a row stores of it.
EntryType ==
    [type : {"NONE", "INCOME", "EXPENSE", "TRANSFER"}, amount : Nat, date : Nat,
     accountId : AccountRef, fromAccountId : AccountRef, toAccountId : AccountRef]

PurchaseType ==
    [accountId : Accounts, totalAmount : Nat, installmentsCount : Nat \ {0, 1},
     purchaseDate : Nat]

ASSUME NullAssumption ==
    /\ NoAccount \notin Accounts
    /\ NoPlan \notin Plans
    /\ NoTransaction \notin Transactions
    /\ NoBill \notin Bills

ASSUME InputAssumption ==
    /\ Entries \subseteq {e \in EntryType : e.type # "NONE"}
    /\ Purchases \subseteq PurchaseType
    /\ Horizon \in Nat

VARIABLES
    txn,        \* transactions table
    applied,    \* what each row has done to Account.balance
    plan,       \* installment_plans table
    bill,       \* bills table
    req,        \* HTTP requests in flight
    job,        \* posting workers in flight
    today       \* the clock, in whole days

ledgerVars == <<txn, applied, plan, bill, req, job, today>>

-----------------------------------------------------------------------------
(* Rows *)

NoEntry ==
    [type |-> "NONE", amount |-> 0, date |-> 0, accountId |-> NoAccount,
     fromAccountId |-> NoAccount, toAccountId |-> NoAccount]

\* An id is UNUSED until a row is created under it and DELETED for ever after:
\* ids are random UUIDs and are never given out twice.
Row == [entry : EntryType, plan : Plans \cup {NoPlan},
        postingStatus : {"UNUSED", "SCHEDULED", "POSTED", "DELETED"}]

EmptyRow(status) == [entry |-> NoEntry, plan |-> NoPlan, postingStatus |-> status]

NewRow(e, pl, status) == [entry |-> e, plan |-> pl, postingStatus |-> status]

Live(t) == txn[t].postingStatus \in {"SCHEDULED", "POSTED"}

IsScheduled(row) == row.postingStatus = "SCHEDULED"

BillType == [status : {"NONE", "PENDING", "PAID", "CANCELED", "DELETED"},
             transactionId : Transactions \cup {NoTransaction},
             settlement : {"NONE", "GENERATED", "LINKED"},
             targetAccountId : AccountRef, recurring : BOOLEAN]

NoBillRow(status) ==
    [status |-> status, transactionId |-> NoTransaction, settlement |-> "NONE",
     targetAccountId |-> NoAccount, recurring |-> FALSE]

BillExists(b) == bill[b].status \notin {"NONE", "DELETED"}

\* tx.bill.findFirst({ where: { transactionId: t } })
BillOf(t) ==
    IF \E b \in Bills : bill[b].transactionId = t
    THEN CHOOSE b \in Bills : bill[b].transactionId = t
    ELSE NoBill

-----------------------------------------------------------------------------
(* Balances *)

Zero == [a \in Accounts |-> 0]

\* What applyBalance(entry, 1) adds to each account.
Effect(e) ==
    [a \in Accounts |->
        CASE e.type = "INCOME"   -> IF a = e.accountId THEN e.amount ELSE 0
          [] e.type = "EXPENSE"  -> IF a = e.accountId THEN -e.amount ELSE 0
          [] e.type = "TRANSFER" -> (IF a = e.toAccountId THEN e.amount ELSE 0)
                                    - (IF a = e.fromAccountId THEN e.amount ELSE 0)
          [] OTHER -> 0]

Plus(f, g) == [a \in Accounts |-> f[a] + g[a]]
Minus(f, g) == [a \in Accounts |-> f[a] - g[a]]

\* What row t should have done to the balances: a scheduled row nothing yet.
Owed(t) == IF txn[t].postingStatus = "POSTED" THEN Effect(txn[t].entry) ELSE Zero

RowBalanced(t) == applied[t] = Owed(t)

\* The column the dashboard shows (opening balances are left out).
Balance(a) == FoldFunction(+, 0, [t \in Transactions |-> applied[t][a]])
Statement(a) == FoldFunction(+, 0, [t \in Transactions |-> Owed(t)[a]])

-----------------------------------------------------------------------------
(* Requests and workers *)

IdleRequest(pc) ==
    [pc |-> pc, tx |-> NoTransaction, snap |-> EmptyRow("UNUSED"), linked |-> NoBill,
     dto |-> NoEntry, plan |-> NoPlan, ids |-> {}, emptied |-> FALSE]

RequestType ==
    [pc : {"new", "update", "remove", "delete", "removePlan", "done"},
     tx : Transactions \cup {NoTransaction}, snap : Row, linked : Bills \cup {NoBill},
     dto : EntryType, plan : Plans \cup {NoPlan}, ids : SUBSET Transactions,
     emptied : BOOLEAN]

IdleJob == [tx |-> NoTransaction, snap |-> EmptyRow("UNUSED")]

JobType == [tx : Transactions \cup {NoTransaction}, snap : Row]

Finish(r) == req' = [req EXCEPT ![r] = IdleRequest("done")]

LedgerInit ==
    /\ txn = [t \in Transactions |-> EmptyRow("UNUSED")]
    /\ applied = [t \in Transactions |-> Zero]
    /\ plan = [p \in Plans |-> "NONE"]
    /\ bill = [b \in Bills |-> NoBillRow("NONE")]
    /\ req = [r \in Requests |-> IdleRequest("new")]
    /\ job = [j \in Jobs |-> IdleJob]
    /\ today = 0

-----------------------------------------------------------------------------
(* Writes shared by several handlers *)

\* createWithin: the row and its effect on the balances.
InsertPosted(t, e) ==
    /\ txn[t].postingStatus = "UNUSED"
    /\ txn' = [txn EXCEPT ![t] = NewRow(e, NoPlan, "POSTED")]
    /\ applied' = [applied EXCEPT ![t] = Plus(@, Effect(e))]

\* Bill.transactionId is a foreign key with onDelete: SetNull.
SetNull(row, S) ==
    IF row.transactionId \in S THEN [row EXCEPT !.transactionId = NoTransaction] ELSE row

Reopened(row) ==
    [row EXCEPT !.status = "PENDING", !.transactionId = NoTransaction, !.settlement = "NONE"]

\* Fault: the effect of a scheduled row is reverted too.
RevertedAlways(t, snap) == [applied EXCEPT ![t] = Minus(@, Effect(snap.entry))]

\* Fault: the row goes and its effect stays.
RevertedNever(t, snap) == applied

\* What the caller READ is reverted, not what the row holds now.
Reverted(t, snap) ==
    IF IsScheduled(snap) THEN applied
    ELSE [applied EXCEPT ![t] = Minus(@, Effect(snap.entry))]

\* Fault: the bill is left to the foreign key.
BillsLeftPaid(t, linked) == [b \in Bills |-> SetNull(bill[b], {t})]

BillsWithout(t, linked) ==
    [b \in Bills |-> IF b = linked THEN Reopened(bill[b]) ELSE SetNull(bill[b], {t})]

DeleteWithin(t, snap, linked) ==
    /\ Live(t)
    /\ linked # NoBill => BillExists(linked)
    /\ applied' = Reverted(t, snap)
    /\ bill' = BillsWithout(t, linked)
    /\ txn' = [txn EXCEPT ![t] = EmptyRow("DELETED")]

-----------------------------------------------------------------------------
(* transactions.service.ts *)

\* Reads nothing it writes from: one step, and no request is kept for it.
Create(t, e) ==
    /\ InsertPosted(t, e)
    /\ UNCHANGED <<plan, bill, req, job, today>>

StartUpdate(r, t, e) ==
    /\ req[r].pc = "new"
    /\ Live(t)
    /\ req' = [req EXCEPT ![r] = [@ EXCEPT !.pc = "update", !.tx = t, !.snap = txn[t],
                                           !.linked = BillOf(t), !.dto = e]]
    /\ UNCHANGED <<txn, applied, plan, bill, job, today>>

\* Fault: any row may change its type.
UpdateReadAnyType(r, t, e) == StartUpdate(r, t, e)

\* findOwned and the guard on the type of a row that pays a bill, both outside
\* the write transaction.
UpdateRead(r, t, e) ==
    /\ BillOf(t) # NoBill => e.type = txn[t].entry.type
    /\ StartUpdate(r, t, e)

\* toData() is called without extras, so the row becomes POSTED whatever it was;
\* the balance moves only when the row that was READ was not SCHEDULED.
UpdateCommit(r) ==
    LET t == req[r].tx
        snap == req[r].snap
        dto == req[r].dto
    IN  /\ req[r].pc = "update"
        /\ Live(t)
        /\ applied' = IF IsScheduled(snap) THEN applied
                      ELSE [applied EXCEPT ![t] = Plus(Minus(@, Effect(snap.entry)), Effect(dto))]
        /\ txn' = [txn EXCEPT ![t] = NewRow(dto, @.plan, "POSTED")]
        /\ Finish(r)
        /\ UNCHANGED <<plan, bill, job, today>>

RemoveRead(r, t) ==
    /\ req[r].pc = "new"
    /\ Live(t)
    /\ req' = [req EXCEPT ![r] = [@ EXCEPT !.pc = "remove", !.tx = t, !.snap = txn[t]]]
    /\ UNCHANGED <<txn, applied, plan, bill, job, today>>

\* Inside the transaction deleteWithin looks for the bill the row pays...
RemoveLookup(r) ==
    /\ req[r].pc = "remove"
    /\ req' = [req EXCEPT ![r] = [@ EXCEPT !.pc = "delete", !.linked = BillOf(req[r].tx)]]
    /\ UNCHANGED <<txn, applied, plan, bill, job, today>>

\* ...and then writes by id.
RemoveCommit(r) ==
    /\ req[r].pc = "delete"
    /\ DeleteWithin(req[r].tx, req[r].snap, req[r].linked)
    /\ Finish(r)
    /\ UNCHANGED <<plan, job, today>>

\* The row (or the bill) to write is gone: P2025, everything is rolled back.
WriteFails(r) ==
    /\ \/ req[r].pc = "update" /\ ~Live(req[r].tx)
       \/ /\ req[r].pc = "delete"
          /\ \/ ~Live(req[r].tx)
             \/ req[r].linked # NoBill /\ ~BillExists(req[r].linked)
       \/ req[r].pc = "removePlan" /\ req[r].emptied /\ plan[req[r].plan] # "OPEN"
    /\ Finish(r)
    /\ UNCHANGED <<txn, applied, plan, bill, job, today>>

-----------------------------------------------------------------------------
(* installment-plans/ *)

\* generateInstallments: cents rounded down, the last installment takes the rest.
InstallmentAmount(total, n, i) ==
    LET base == total \div n IN IF i = n THEN base + (total - base * n) ELSE base

InstallmentOn(date, p, i) ==
    [type |-> "EXPENSE", date |-> date,
     amount |-> InstallmentAmount(p.totalAmount, p.installmentsCount, i),
     accountId |-> p.accountId, fromAccountId |-> NoAccount, toAccountId |-> NoAccount]

\* Fault: the first installment is dated one step before the purchase.
InstallmentTooEarly(p, i) == InstallmentOn(p.purchaseDate + (i - 2), p, i)

Installment(p, i) == InstallmentOn(p.purchaseDate + (i - 1), p, i)

IsDue(e) == e.date <= today

\* Fault: every installment is born scheduled.
DueStatusScheduled(e) == "SCHEDULED"

DueStatus(e) == IF IsDue(e) THEN "POSTED" ELSE "SCHEDULED"

\* number[t] is the installment stored under id t; 0 for the other ids.
CreatePlan(pl, p, number) ==
    /\ plan[pl] = "NONE"
    /\ \A i \in 1..p.installmentsCount : Cardinality({t \in Transactions : number[t] = i}) = 1
    /\ \A t \in Transactions : number[t] # 0 =>
           number[t] <= p.installmentsCount /\ txn[t].postingStatus = "UNUSED"
    /\ plan' = [plan EXCEPT ![pl] = "OPEN"]
    /\ txn' = [t \in Transactions |->
                  IF number[t] = 0 THEN txn[t]
                  ELSE NewRow(Installment(p, number[t]), pl, DueStatus(Installment(p, number[t])))]
    /\ applied' = [t \in Transactions |->
                      IF number[t] # 0 /\ IsDue(Installment(p, number[t]))
                      THEN Plus(applied[t], Effect(Installment(p, number[t])))
                      ELSE applied[t]]
    /\ UNCHANGED <<bill, req, job, today>>

PlanRows(pl) == {t \in Transactions : Live(t) /\ txn[t].plan = pl}

\* The statuses are read here, before the write transaction.
RemovePlanRead(r, pl) ==
    LET scheduled == {t \in PlanRows(pl) : IsScheduled(txn[t])}
    IN  /\ req[r].pc = "new"
        /\ plan[pl] = "OPEN"
        /\ req' = [req EXCEPT ![r] = [@ EXCEPT !.pc = "removePlan", !.plan = pl,
                                               !.ids = scheduled,
                                               !.emptied = (scheduled = PlanRows(pl))]]
        /\ UNCHANGED <<txn, applied, plan, bill, job, today>>

\* deleteMany by id alone; the plan goes too when it had no posted row, and
\* its remaining rows are detached (onDelete: SetNull).
RemovePlanCommit(r) ==
    LET pl == req[r].plan
        doomed == {t \in req[r].ids : Live(t)}
    IN  /\ req[r].pc = "removePlan"
        /\ req[r].emptied => plan[pl] = "OPEN"
        /\ txn' = [t \in Transactions |->
                      IF t \in doomed THEN EmptyRow("DELETED")
                      ELSE IF req[r].emptied /\ txn[t].plan = pl
                           THEN [txn[t] EXCEPT !.plan = NoPlan] ELSE txn[t]]
        /\ bill' = [b \in Bills |-> SetNull(bill[b], doomed)]
        /\ plan' = IF req[r].emptied THEN [plan EXCEPT ![pl] = "DELETED"] ELSE plan
        /\ Finish(r)
        /\ UNCHANGED <<applied, job, today>>

-----------------------------------------------------------------------------
(* posting.service.ts, posting.ts *)

\* Fault: rows due today wait for tomorrow.
IsPostableLate(e) == e.date < today

\* date < startOfNextUtcDay(now)
IsPostable(e) == e.date < today + 1

\* postIfScheduled re-reads the row inside its transaction, without a lock.
PostRead(j, t) ==
    /\ job[j].tx = NoTransaction
    /\ IsScheduled(txn[t]) /\ IsPostable(txn[t].entry)
    /\ job' = [job EXCEPT ![j] = [tx |-> t, snap |-> txn[t]]]
    /\ UNCHANGED <<txn, applied, plan, bill, req, today>>

PostCommit(j) ==
    LET t == job[j].tx
    IN  /\ t # NoTransaction
        /\ Live(t)
        /\ applied' = [applied EXCEPT ![t] = Plus(@, Effect(job[j].snap.entry))]
        /\ txn' = [txn EXCEPT ![t].postingStatus = "POSTED"]
        /\ job' = [job EXCEPT ![j] = IdleJob]
        /\ UNCHANGED <<plan, bill, req, today>>

\* The row was deleted meanwhile: captureJobItemError, next row.
PostFails(j) ==
    /\ job[j].tx # NoTransaction
    /\ ~Live(job[j].tx)
    /\ job' = [job EXCEPT ![j] = IdleJob]
    /\ UNCHANGED <<txn, applied, plan, bill, req, today>>

NextDay ==
    /\ today < Horizon
    /\ today' = today + 1
    /\ UNCHANGED <<txn, applied, plan, bill, req, job>>

-----------------------------------------------------------------------------
CreateStep ==
    \/ \E t \in Transactions, e \in Entries : Create(t, e)
    \/ \E pl \in Plans, p \in Purchases :
          \E number \in [Transactions -> 0..p.installmentsCount] : CreatePlan(pl, p, number)

RequestStep(r) ==
    \/ \E t \in Transactions, e \in Entries : UpdateRead(r, t, e)
    \/ \E t \in Transactions : RemoveRead(r, t)
    \/ \E pl \in Plans : RemovePlanRead(r, pl)
    \/ UpdateCommit(r)
    \/ RemoveLookup(r)
    \/ RemoveCommit(r)
    \/ RemovePlanCommit(r)
    \/ WriteFails(r)

PostingStep(j) ==
    \/ \E t \in Transactions : PostRead(j, t)
    \/ PostCommit(j)
    \/ PostFails(j)

LedgerNext ==
    \/ CreateStep
    \/ \E r \in Requests : RequestStep(r)
    \/ \E j \in Jobs : PostingStep(j)
    \/ NextDay

\* Nothing in flight: the server may stay idle.  Any other state without a
\* successor is a request that hangs, and TLC reports it as a deadlock.
RequestsAtRest == \A r \in Requests : req[r].pc \in {"new", "done"}

LedgerIdle ==
    RequestsAtRest /\ (\A j \in Jobs : job[j] = IdleJob) /\ UNCHANGED ledgerVars

\* The cron job runs every day and works through the rows it finds.
PostingFairness == \A j \in Jobs : WF_ledgerVars(PostingStep(j))

LedgerSpec == LedgerInit /\ [][LedgerNext \/ LedgerIdle]_ledgerVars /\ PostingFairness

-----------------------------------------------------------------------------
(* Properties *)

\* Every variable ranges over its type.
TypeOK ==
    /\ txn \in [Transactions -> Row]
    /\ applied \in [Transactions -> [Accounts -> Int]]
    /\ plan \in [Plans -> {"NONE", "OPEN", "DELETED"}]
    /\ bill \in [Bills -> BillType]
    /\ req \in [Requests -> RequestType]
    /\ job \in [Jobs -> JobType]
    /\ today \in Nat

\* A row that is still SCHEDULED has not touched any balance, in any
\* interleaving of requests and posting workers: "data futura - ainda nao
\* impactou o saldo da conta" (docs/11-parcelamento.md).
ScheduledRowsUntouched ==
    \A t \in Transactions : IsScheduled(txn[t]) => applied[t] = Zero

\* A handler writes row t from a row that it read and that is no longer there.
StaleRequest(r, t) ==
    \/ req[r].pc \in {"update", "delete"} /\ req[r].tx = t /\ req[r].snap # txn[t]
    \/ req[r].pc = "removePlan" /\ t \in req[r].ids /\ ~IsScheduled(txn[t])

StalePosting(j, t) == job[j].tx = t /\ job[j].snap # txn[t]

\* update() of a row that was read as SCHEDULED.
EditOfScheduled(r, t) ==
    req[r].pc = "update" /\ req[r].tx = t /\ IsScheduled(req[r].snap)

LedgerDriftCause(t) ==
    \/ \E r \in Requests : /\ StaleRequest(r, t) \/ EditOfScheduled(r, t)
                           /\ req'[r].pc = "done"
    \/ \E j \in Jobs : StalePosting(j, t) /\ job'[j] = IdleJob

\* A row and the balance part ways only in a step that commits a write computed
\* from a stale read, or that edits a SCHEDULED row: every other step of every
\* interleaving keeps Account.balance equal to what the row says.
DriftOnlyByStaleWrite ==
    [][\A t \in Transactions :
          RowBalanced(t) /\ ~RowBalanced(t)' => LedgerDriftCause(t)]_ledgerVars

\* The balance column equals the statement: docs/02-modelagem-dados.md, "Por que
\* balance e desnormalizado".
BalanceMatchesStatement == \A a \in Accounts : Balance(a) = Statement(a)

\* A due row does not stay SCHEDULED: the daily job posts it (or someone edits
\* or deletes it), even when a worker loses the row it is holding.
DueRowsGetPosted ==
    \A t \in Transactions :
        (IsScheduled(txn[t]) /\ IsDue(txn[t].entry)) ~> ~IsScheduled(txn[t])
=============================================================================
