------------------------------- MODULE Imports -------------------------------
(***************************************************************************)
(* Statement import: imports.service.ts with its preview store, the e-mail  *)
(* ingestion (automation.service.ts), the bank account mappings and the     *)
(* page that shows a preview and confirms it (imports/page.tsx).            *)
(*                                                                          *)
(* Every batch holds the same statement, so that importing it again is the  *)
(* normal case. The balances of the written rows are the subject of Ledger  *)
(* and are left out, and what a bill asks for is not edited (Bills). confirm *)
(* takes row locks, reconciles and writes in one transaction: three steps   *)
(* here, with the locks held between the last two.                          *)
(***************************************************************************)
EXTENDS ImportMatching

CONSTANTS
    Lines,          \* [id, day, amount, out, text]: the rows of the statement
    OtherStatement, \* rows of another one, matched in every state and never imported
    Transactions,   \* 1..n, ids of ledger rows in the order they are created
    Bills,          \* [Bill ids -> [day, amount, text, accountId, targetAccountId]]
    Batches,        \* 1..n
    Accounts,
    StatementAccounts, \* the accounts whose statements are imported
    Pages,          \* open browser pages of members of the household
    Requests,       \* the requests of the other pages of the household
    Deliveries,     \* calls n8n makes for one e-mail attachment
    Manual,         \* rows typed by hand: [type, accountId, fromAccountId, toAccountId, amount, day, text]
    MaxMoves,       \* bound on what happens around the pages in a behaviour
    NoAccount, NoBatch, NoLine, NoPreview

ASSUME ImportAssumption ==
    /\ Batches = 1..Cardinality(Batches) /\ Transactions = 1..Cardinality(Transactions)
    /\ Transactions \subseteq Nat /\ DOMAIN Bills \subseteq Nat /\ IsFiniteSet(OtherStatement)
    /\ \A l \in Lines \cup OtherStatement : l.id \in Int /\ l.day \in Int
    /\ \A b \in DOMAIN Bills : Bills[b].day \in Int
    /\ \A d \in Manual : d.day \in Int
    /\ StatementAccounts \subseteq Accounts /\ NoAccount \notin Accounts /\ NoBatch \notin Batches
    /\ \A l, m \in Lines \cup OtherStatement : l.id = m.id => l = m
    /\ \A ids \in SUBSET {l.id : l \in Lines} : ids # NoPreview
    /\ 0 \notin DOMAIN Bills /\ MaxMoves \in Nat
    /\ \A d \in Manual : d.type # "TRANSFER" => d.fromAccountId = NoAccount /\ d.toAccountId = NoAccount

VARIABLES
    txn,        \* the transactions table
    bill,       \* bill id -> [status, transactionId, settlement]
    batch,      \* import_batches
    cache,      \* ImportPreviewStore: batch -> line ids flagged as duplicates
    page,       \* what each page shows and its request in flight
    mapping,    \* bank_account_mappings: the account of the statement's BANKID/ACCTID
    log,        \* email_import_logs: the batch of the attachment
    delivery,   \* each ingestEmail call in flight
    request,    \* what a request of another page has read, before it writes
    overtaken,  \* history: bills a request wrote to after they had become something else
    moves       \* how many outside events there were (the bound only)

importVars == <<txn, bill, batch, cache, page, mapping, log, delivery, request, overtaken, moves>>

-----------------------------------------------------------------------------
LineIds == {l.id : l \in Lines}
LineOf(i) == CHOOSE l \in Lines \cup OtherStatement : l.id = i
AccountRef == Accounts \cup {NoAccount}
BillIds == DOMAIN Bills
BatchRef == Batches \cup {NoBatch}

\* No row and no bill are 0 (ids are positive).
Choice(action, tx, b, other) == [action |-> action, tx |-> tx, bill |-> b, other |-> other]
Plain(action) == Choice(action, 0, 0, NoAccount)

\* ext is the externalId: the line it came from, copy when uniqueExternalId had
\* to append a uuid. lines (history) are the statement lines the row stands for
\* and pays (history) the bill it was created to pay, until the payment is undone.
Unused == [status |-> "UNUSED", type |-> "EXPENSE", accountId |-> NoAccount,
           fromAccountId |-> NoAccount, toAccountId |-> NoAccount, amount |-> 0, day |-> 0,
           text |-> "", ext |-> NoLine, copy |-> FALSE, importBatchId |-> NoBatch,
           lines |-> {}, pays |-> 0]

Live(t) == txn[t].status = "LIVE"
Row(d) == [Unused EXCEPT !.status = "LIVE", !.type = d.type, !.accountId = d.accountId,
                         !.fromAccountId = d.fromAccountId, !.toAccountId = d.toAccountId,
                         !.amount = d.amount, !.day = d.day, !.text = d.text]
Fresh(t) == txn[t].status = "UNUSED" /\ \A s \in Transactions : s < t => txn[s].status # "UNUSED"
Touches(r, a) == a \in {r.accountId, r.fromAccountId, r.toAccountId}
\* One at most: bills.transactionId is unique.
BillOf(t) == {b \in BillIds : bill[b].transactionId = t}

ClosedPage == [pc |-> "closed", batch |-> NoBatch, account |-> NoAccount, flags |-> {},
               choice |-> [i \in LineIds |-> Plain("SKIP")]]

OpenBill == [status |-> "PENDING", transactionId |-> 0, settlement |-> "NONE"]
Paid(t, settlement) == [status |-> "PAID", transactionId |-> t, settlement |-> settlement]
GoneRow == [Unused EXCEPT !.status = "DELETED"]

IdleRequest == [pc |-> "idle", tx |-> 0, bill |-> 0, found |-> {}]

\* FOR UPDATE locks of a confirmation between its reads and its commit.
LockedBills == UNION {{page[u].choice[i].bill : i \in LineIds} : u \in {v \in Pages : page[v].pc = "locked"}}
LockedRows == UNION {{page[u].choice[i].tx : i \in LineIds} : u \in {v \in Pages : page[v].pc = "locked"}}

\* An event around the pages that nothing else bounds.
Outside == moves < MaxMoves /\ moves' = moves + 1

ImportsInit ==
    /\ txn = [t \in Transactions |-> Unused]
    /\ bill = [b \in BillIds |-> OpenBill]
    /\ batch = [b \in Batches |-> [status |-> "NONE", accountId |-> NoAccount,
                                   byEmail |-> FALSE, preview |-> NoPreview]]
    /\ cache = [b \in Batches |-> NoPreview]
    /\ page = [u \in Pages |-> ClosedPage]
    /\ mapping = NoAccount
    /\ log = NoBatch
    /\ delivery = [d \in Deliveries |-> [pc |-> "new", batch |-> NoBatch]]
    /\ request = [r \in Requests |-> IdleRequest]
    /\ overtaken = {}
    /\ moves = 0

-----------------------------------------------------------------------------
\* Fault: the rows of the account are searched, the transfers from and to it are not.
DuplicatesOfAccount(a) ==
    {i \in LineIds : \E t \in Transactions :
        Live(t) /\ txn[t].ext = i /\ ~txn[t].copy /\ txn[t].accountId = a}

\* markDuplicates: known external ids of rows that touch the account. A file
\* that repeats an id is left out: line ids are distinct.
Duplicates(a) ==
    {i \in LineIds : \E t \in Transactions :
        Live(t) /\ txn[t].ext = i /\ ~txn[t].copy /\ Touches(txn[t], a)}

NotFlagged(flags) == {l \in Lines : l.id \notin flags}

\* What reconciliationFor selects from the database.
TransactionCandidates(a) ==
    {[id |-> t, day |-> txn[t].day, amount |-> txn[t].amount, type |-> txn[t].type,
      accountId |-> txn[t].accountId, fromAccountId |-> txn[t].fromAccountId,
      toAccountId |-> txn[t].toAccountId, ofBill |-> BillOf(t) # {},
      linked |-> txn[t].ext # NoLine,
      text |-> IF BillOf(t) = {} THEN txn[t].text ELSE Bills[CHOOSE b \in BillOf(t) : TRUE].text]
        : t \in {s \in Transactions : /\ Live(s) /\ Touches(txn[s], a)
                                      /\ txn[s].ext = NoLine \/ txn[s].type = "TRANSFER"}}

\* Pending, to be paid by this account or by any, and due from 10 days before the
\* first line to 45 days after the last one. (The windows of the two other queries
\* are those of the matching.)
BillCandidates(a, lines) ==
    {[id |-> b, day |-> Bills[b].day, amount |-> Bills[b].amount, text |-> Bills[b].text]
        : b \in {c \in BillIds :
                    /\ bill[c].status = "PENDING" /\ Bills[c].accountId \in {NoAccount, a}
                    /\ \E l \in lines : l.day - WideBefore <= Bills[c].day
                    /\ \E l \in lines : Bills[c].day <= l.day + WideAfter}}

\* Fault: payments of bills are offered as the other side of a transfer.
AnyCounterparts(a) ==
    {[id |-> t, day |-> txn[t].day, amount |-> txn[t].amount, type |-> txn[t].type,
      accountId |-> txn[t].accountId, text |-> ""]
        : t \in {s \in Transactions : Live(s) /\ txn[s].type # "TRANSFER" /\ txn[s].accountId # a}}

Counterparts(a) ==
    {[id |-> t, day |-> txn[t].day, amount |-> txn[t].amount, type |-> txn[t].type,
      accountId |-> txn[t].accountId, text |-> ""]
        : t \in {s \in Transactions : /\ Live(s) /\ txn[s].type # "TRANSFER"
                                      /\ txn[s].accountId # a /\ BillOf(s) = {}}}

Reconciliation(a, lines) ==
    MatchImportRows(lines, TransactionCandidates(a), BillCandidates(a, lines),
                    Counterparts(a), a, NoAccount, "confirm")

StillValid(choice, flagged, matches) ==
    CASE choice.action \in {"IMPORT", "SKIP"} -> TRUE
      [] flagged -> FALSE
      [] choice.action = "RECORD_TRANSFER" ->
            choice.tx = 0 \/ \E m \in matches : /\ m.kind = "OWN_TRANSFER" /\ m.id = choice.tx
                                                /\ m.account = choice.other
      [] choice.action = "LINK_TRANSACTION" ->
            \E m \in matches : m.kind # "BILL" /\ m.id = choice.tx
      [] OTHER -> \E m \in matches : m.kind = "BILL" /\ m.id = choice.bill

-----------------------------------------------------------------------------
(* The page.                                                                *)

ChoiceFor(m) ==
    CASE m.kind = "OWN_TRANSFER" -> Choice("RECORD_TRANSFER", m.id, 0, m.account)
      [] m.kind = "BILL" -> Choice("PAY_BILL", 0, m.id, NoAccount)
      [] m.kind = "TRANSFER_MIRROR" -> Plain("SKIP")
      [] OTHER -> Choice("LINK_TRANSACTION", m.id, 0, NoAccount)

\* What ReconciliationSelect and ImportCategoryField offer for a line: import,
\* leave out, one of the matches, link to a mirror, a transfer to another account.
Offered(a, matches) ==
    {Plain("IMPORT"), Plain("SKIP")} \cup {ChoiceFor(m) : m \in matches}
    \cup {Choice("LINK_TRANSACTION", m.id, 0, NoAccount)
            : m \in {n \in matches : n.kind = "TRANSFER_MIRROR"
                                     /\ txn[n.id].ext = NoLine}}
    \cup {Choice("RECORD_TRANSFER", 0, 0, c)
            : c \in {d \in Accounts \ {a} :
                        \A m \in matches : m.kind = "OWN_TRANSFER" => m.account # d}}

\* applyPreview and the choices of the member; a flagged line is not selected.
\* Without an account there are no matches to choose from.
ShowPreview(u, b, a, flags) ==
    LET known == IF a = NoAccount THEN <<>> ELSE Reconciliation(a, NotFlagged(flags))
        options(i) == IF i \in flags THEN {Plain("SKIP")}
                      ELSE Offered(a, IF a = NoAccount THEN {} ELSE known[i].matches)
    IN  \E f \in [LineIds -> UNION {options(i) : i \in LineIds}] :
            /\ \A i \in LineIds : f[i] \in options(i)
            /\ page' = [page EXCEPT ![u] = [pc |-> "shown", batch |-> b, account |-> a,
                                            flags |-> {}, choice |-> f]]

\* After a conflict the page keeps what it showed; the member can give up a match.
ChooseImport(u, i) ==
    /\ page[u].pc = "shown"
    /\ page[u].choice[i].action \notin {"IMPORT", "SKIP"}
    /\ page' = [page EXCEPT ![u].choice[i] = Plain("IMPORT")]
    /\ UNCHANGED <<txn, bill, batch, cache, mapping, log, delivery, request, overtaken, moves>>

ClosePage(u) ==
    /\ page[u].pc = "shown"
    /\ page' = [page EXCEPT ![u] = ClosedPage]
    /\ UNCHANGED <<txn, bill, batch, cache, mapping, log, delivery, request, overtaken, moves>>

Answered(u, pc) == [page EXCEPT ![u].pc = pc, ![u].flags = {}]

-----------------------------------------------------------------------------
(* ImportsService.                                                          *)

Open(b) == batch[b].status \in {"PENDING", "UNMAPPED_ACCOUNT"}

FirstFree(b) == batch[b].status = "NONE" /\ \A c \in Batches : c < b => batch[c].status # "NONE"

\* createPendingBatch: the flags are computed once and stored with the rows.
CreatePendingBatch(b, a, byEmail) ==
    LET flags == IF a = NoAccount THEN {} ELSE Duplicates(a)
    IN  /\ FirstFree(b)
        /\ batch' = [batch EXCEPT ![b] =
                [status |-> IF a = NoAccount THEN "UNMAPPED_ACCOUNT" ELSE "PENDING",
                 accountId |-> a, byEmail |-> byEmail, preview |-> flags]]
        /\ cache' = [cache EXCEPT ![b] = flags]

Upload(u, b, a) ==
    /\ page[u].pc = "closed"
    /\ CreatePendingBatch(b, a, FALSE)
    /\ ShowPreview(u, b, a, Duplicates(a))
    /\ UNCHANGED <<txn, bill, mapping, log, delivery, request, overtaken, moves>>

LoadPreview(b) == IF cache[b] # NoPreview THEN cache[b] ELSE batch[b].preview

\* preview: recomputes the flags in place when the batch has an account.
Preview(u, b) ==
    LET a == batch[b].accountId
        flags == IF a = NoAccount THEN LoadPreview(b) ELSE Duplicates(a)
    IN  /\ page[u].pc = "closed"
        /\ Open(b)
        /\ cache' = [cache EXCEPT ![b] = flags]
        /\ ShowPreview(u, b, a, flags)
        /\ UNCHANGED <<txn, bill, batch, mapping, log, delivery, request, overtaken, moves>>

\* confirm up to its transaction. The mapping is remembered at once.
ConfirmRead(u, a) ==
    LET b == page[u].batch IN
    /\ page[u].pc = "shown"
    /\ Open(b)
    /\ page[u].account # NoAccount => a = page[u].account
    /\ \A i \in LineIds : page[u].choice[i].other # a
    /\ cache' = [cache EXCEPT ![b] = LoadPreview(b)]
    /\ mapping' = IF batch[b].byEmail THEN a ELSE mapping
    /\ page' = [page EXCEPT ![u].pc = "sent", ![u].account = a, ![u].flags = LoadPreview(b)]
    /\ UNCHANGED <<txn, bill, batch, log, delivery, request, overtaken, moves>>

\* The rows behind the cached preview are shared objects: reconciliationFor sees
\* the flags as they are now, the decisions keep those copied by ConfirmRead.
AllStillValid(u) ==
    LET seen == IF cache[page[u].batch] = NoPreview THEN page[u].flags ELSE cache[page[u].batch]
        known == Reconciliation(page[u].account, NotFlagged(seen))
    IN  \A i \in LineIds :
            StillValid(page[u].choice[i], i \in page[u].flags,
                       IF i \in seen THEN {} ELSE known[i].matches)

\* Bills, then transactions, each in id order: no two confirmations wait in a ring.
ConfirmLock(u) ==
    /\ page[u].pc = "sent"
    /\ \A i \in LineIds : /\ page[u].choice[i].bill \notin LockedBills \ {0}
                          /\ page[u].choice[i].tx \notin LockedRows \ {0}
    /\ page' = IF AllStillValid(u) THEN [page EXCEPT ![u].pc = "locked"] ELSE Answered(u, "shown")
    /\ UNCHANGED <<txn, bill, batch, cache, mapping, log, delivery, request, overtaken, moves>>

Written(u, action) ==
    {i \in LineIds \ page[u].flags : page[u].choice[i].action = action}

\* What the loop of confirm asks of the lines of a set, each with its choice: the
\* row or the bill is found, and as it should be.
Linkable(i, c) ==
    c[i].action = "LINK_TRANSACTION" =>
        c[i].tx \in Transactions /\ Live(c[i].tx) /\ txn[c[i].tx].ext = NoLine

\* The row to replace must be the other side of the movement, and of no bill.
Replaceable(i, c) ==
    (c[i].action = "RECORD_TRANSFER" /\ c[i].tx # 0) =>
        /\ c[i].tx \in Transactions /\ Live(c[i].tx) /\ BillOf(c[i].tx) = {}
        /\ txn[c[i].tx].accountId = c[i].other
        /\ txn[c[i].tx].type = (IF LineOf(i).out THEN "INCOME" ELSE "EXPENSE")
        /\ txn[c[i].tx].amount = LineOf(i).amount

Payable(i, c) ==
    c[i].action = "PAY_BILL" => c[i].bill \in BillIds /\ bill[c[i].bill].status = "PENDING"

Accepts(ids, c) ==
    /\ \A i \in ids : Linkable(i, c) /\ Replaceable(i, c) /\ Payable(i, c)
    /\ \A i, j \in ids : (i # j /\ c[i].action = c[j].action) =>
          /\ c[i].tx # 0 => c[i].tx # c[j].tx
          /\ c[i].bill # 0 => c[i].bill # c[j].bill

Moving(line, from, to) ==
    [type |-> "TRANSFER", accountId |-> NoAccount, fromAccountId |-> from, toAccountId |-> to,
     amount |-> line.amount, day |-> line.day, text |-> line.text]

OneSided(line, a) ==
    [type |-> IF line.out THEN "EXPENSE" ELSE "INCOME", accountId |-> a,
     fromAccountId |-> NoAccount, toAccountId |-> NoAccount,
     amount |-> line.amount, day |-> line.day, text |-> line.text]

FromLine(d, i, copy, b) ==
    [Row(d) EXCEPT !.ext = i, !.copy = copy, !.importBatchId = b, !.lines = {i}]

\* uniqueExternalId looks at rows whose accountId is the account, no others.
Taken(a, i) ==
    \E t \in Transactions : Live(t) /\ txn[t].accountId = a /\ txn[t].ext = i /\ ~txn[t].copy

ImportedRow(u, i) == FromLine(OneSided(LineOf(i), page[u].account), i,
                              Taken(page[u].account, i), page[u].batch)

PaymentRow(u, i) ==
    LET b == page[u].choice[i].bill
        a == page[u].account
        to == Bills[b].targetAccountId
        d == IF to = NoAccount THEN OneSided(LineOf(i), a) ELSE Moving(LineOf(i), a, to)
    IN  [FromLine([d EXCEPT !.text = Bills[b].text], i, FALSE, page[u].batch) EXCEPT !.pays = b]

\* recordTransfer: the new row keeps the id, the batch, the date and the text
\* of the row it replaces.
TransferRow(u, i) ==
    LET c == page[u].choice[i]
        a == page[u].account
        moved == IF LineOf(i).out THEN Moving(LineOf(i), a, c.other)
                 ELSE Moving(LineOf(i), c.other, a)
        plain == FromLine(moved, i, FALSE, page[u].batch)
    IN  IF c.tx = 0 THEN plain
        ELSE LET old == txn[c.tx] IN
             [plain EXCEPT !.day = old.day, !.text = old.text,
                           !.ext = IF old.ext = NoLine THEN @ ELSE old.ext,
                           !.copy = old.copy,
                           !.importBatchId = IF old.importBatchId = NoBatch THEN @ ELSE old.importBatchId,
                           !.lines = @ \cup old.lines]

\* The unique indexes [accountId, externalId] and [fromAccountId, externalId].
KeysUnique(rows) ==
    \A s, t \in Transactions :
        (s # t /\ rows[s].status = "LIVE" /\ rows[t].status = "LIVE" /\ rows[s].ext # NoLine
         /\ rows[s].ext = rows[t].ext /\ ~rows[s].copy /\ ~rows[t].copy)
        => /\ rows[s].accountId = rows[t].accountId => rows[s].accountId = NoAccount
           /\ rows[s].fromAccountId = rows[t].fromAccountId => rows[s].fromAccountId = NoAccount

\* The unique index of bills.transactionId.
SettledApart(bills) ==
    \A b, c \in BillIds : b # c /\ bills[b].transactionId # 0 => bills[b].transactionId # bills[c].transactionId

\* The rows after the whole loop over the selected lines; id is the new row of a line.
AfterConfirm(u, id) ==
    LET c == page[u].choice
        created == {id[i] : i \in DOMAIN id}
        lineOf(t) == CHOOSE i \in DOMAIN id : id[i] = t
        links == Written(u, "LINK_TRANSACTION")
        replaced == {c[i].tx : i \in Written(u, "RECORD_TRANSFER")} \ {0}
    IN  [t \in Transactions |->
            IF t \in created
            THEN CASE c[lineOf(t)].action = "IMPORT" -> ImportedRow(u, lineOf(t))
                   [] c[lineOf(t)].action = "PAY_BILL" -> PaymentRow(u, lineOf(t))
                   [] OTHER -> TransferRow(u, lineOf(t))
            ELSE IF t \in replaced THEN GoneRow
            ELSE IF \E i \in links : c[i].tx = t
            THEN LET i == CHOOSE j \in links : c[j].tx = t IN
                 [txn[t] EXCEPT !.ext = i, !.importBatchId = page[u].batch, !.lines = @ \cup {i}]
            ELSE txn[t]]

\* New rows take the next ids, line by line.
NewIds(u) ==
    LET creating == UNION {Written(u, k) : k \in {"IMPORT", "PAY_BILL", "RECORD_TRANSFER"}}
        used == Cardinality({t \in Transactions : txn[t].status # "UNUSED"})
    IN  [i \in creating |-> used + Cardinality({j \in creating : j <= i})]

\* Fault: a confirmed batch stays open.
StaysOpen(b, status, a) ==
    [batch EXCEPT ![b].status = IF status = "CONFIRMED" THEN @ ELSE status, ![b].accountId = a]

Closed(b, status, a) ==
    [batch EXCEPT ![b].status = status, ![b].accountId = a, ![b].preview = NoPreview]

ConfirmCommit(u) ==
    LET id == NewIds(u)
        b == page[u].batch
        paid == {page[u].choice[i].bill : i \in Written(u, "PAY_BILL")}
        payment(k) == id[CHOOSE i \in Written(u, "PAY_BILL") : page[u].choice[i].bill = k]
    IN  /\ page[u].pc = "locked"
        /\ Accepts(LineIds \ page[u].flags, page[u].choice)
        /\ \A i \in DOMAIN id : id[i] \in Transactions
        /\ KeysUnique(AfterConfirm(u, id))
        /\ txn' = AfterConfirm(u, id)
        /\ bill' = [k \in BillIds |-> IF k \in paid
                                      THEN Paid(payment(k), "LINKED") ELSE bill[k]]
        /\ SettledApart(bill')
        /\ batch' = Closed(b, "CONFIRMED", page[u].account)
        /\ cache' = [cache EXCEPT ![b] = NoPreview]
        /\ page' = [page EXCEPT ![u] = ClosedPage]
        /\ UNCHANGED <<mapping, log, delivery, request, overtaken, moves>>

\* A conflict found in the loop, a unique index, or the time limit of an
\* interactive transaction: everything is rolled back.
ConfirmFails(u) ==
    /\ page[u].pc = "locked"
    /\ page' = Answered(u, "shown")
    /\ UNCHANGED <<txn, bill, batch, cache, mapping, log, delivery, request, overtaken, moves>>

DiscardRead(u) ==
    /\ page[u].pc = "shown"
    /\ Open(page[u].batch)
    /\ page' = Answered(u, "discarding")
    /\ UNCHANGED <<txn, bill, batch, cache, mapping, log, delivery, request, overtaken, moves>>

DiscardWrite(u) ==
    /\ page[u].pc = "discarding"
    /\ batch' = Closed(page[u].batch, "DISCARDED", batch[page[u].batch].accountId)
    /\ cache' = [cache EXCEPT ![page[u].batch] = NoPreview]
    /\ page' = [page EXCEPT ![u] = ClosedPage]
    /\ UNCHANGED <<txn, bill, mapping, log, delivery, request, overtaken, moves>>
-----------------------------------------------------------------------------
(* The rest of the household's work on the same rows (Ledger, Bills).       *)

\* Fault: the status is not read again under the lock.
UnlockedBill(b) == b \notin LockedBills

FreeBill(b) == bill[b].status = "PENDING" /\ b \notin LockedBills

CreateManual(t, d) ==
    /\ Outside
    /\ Fresh(t)
    /\ txn' = [txn EXCEPT ![t] = Row(d)]
    /\ UNCHANGED <<bill, batch, cache, page, mapping, log, delivery, request, overtaken>>

\* pay, from the checklist of bills: lock, check, create, settle.
PayBill(b, t, a) ==
    LET d == [type |-> IF Bills[b].targetAccountId = NoAccount THEN "EXPENSE" ELSE "TRANSFER",
              accountId |-> IF Bills[b].targetAccountId = NoAccount THEN a ELSE NoAccount,
              fromAccountId |-> IF Bills[b].targetAccountId = NoAccount THEN NoAccount ELSE a,
              toAccountId |-> Bills[b].targetAccountId,
              amount |-> Bills[b].amount, day |-> Bills[b].day, text |-> Bills[b].text]
    IN  /\ Outside
        /\ FreeBill(b)
        /\ Bills[b].targetAccountId # a
        /\ Fresh(t)
        /\ txn' = [txn EXCEPT ![t] = [Row(d) EXCEPT !.pays = b]]
        /\ bill' = [bill EXCEPT ![b] = Paid(t, "GENERATED")]
        /\ UNCHANGED <<batch, cache, page, mapping, log, delivery, request, overtaken>>

\* linkTransaction: the reference to the row waits for its FOR UPDATE lock.
LinkBill(b, t) ==
    /\ Outside
    /\ FreeBill(b)
    /\ Live(t) /\ t \notin LockedRows
    /\ BillOf(t) = {}
    /\ txn[t].type = (IF Bills[b].targetAccountId = NoAccount THEN "EXPENSE" ELSE "TRANSFER")
    /\ Bills[b].targetAccountId # NoAccount => txn[t].toAccountId = Bills[b].targetAccountId
    /\ AmountClose(txn[t].amount, Bills[b].amount)
    /\ Between(txn[t].day - Bills[b].day, WideBefore, WideAfter)
    /\ bill' = [bill EXCEPT ![b] = Paid(t, "LINKED")]
    /\ UNCHANGED <<txn, batch, cache, page, mapping, log, delivery, request, overtaken>>

\* unpay: what was linked is let go (a payment a confirmation made as well), what
\* was generated is deleted.
Unpay(b) ==
    LET t == bill[b].transactionId IN
    /\ Outside
    /\ bill[b].status = "PAID" /\ t # 0 /\ b \notin LockedBills
    /\ bill' = [bill EXCEPT ![b] = OpenBill]
    /\ \/ bill[b].settlement = "LINKED" /\ txn' = [txn EXCEPT ![t].pays = 0]
       \/ bill[b].settlement = "GENERATED" /\ t \notin LockedRows /\ txn' = [txn EXCEPT ![t] = GoneRow]
    /\ UNCHANGED <<batch, cache, page, mapping, log, delivery, request, overtaken>>

\* Requests that read, and write later what they no longer look at.
Reads(r, slot) ==
    /\ Outside
    /\ request[r] = IdleRequest /\ request' = [request EXCEPT ![r] = slot]
    /\ UNCHANGED <<txn, bill, batch, cache, page, mapping, log, delivery, overtaken>>

Ends(r) == request' = [request EXCEPT ![r] = IdleRequest]

\* remove and deleteWithin, up to the search for the bill of the row.
DeleteFind(r, t) == Live(t) /\ Reads(r, [IdleRequest EXCEPT !.pc = "deleting", !.tx = t, !.found = BillOf(t)])

\* Fault: the bill of the row is left to the foreign key.
BillsNulled(t, found) == [b \in BillIds |-> IF b \in BillOf(t) THEN [bill[b] EXCEPT !.transactionId = 0] ELSE bill[b]]

\* The bills after the deletion of row t: the one that was found is written by its
\* id, any other of the row loses it by the foreign key (SetNull).
BillsWithout(t, found) ==
    [b \in BillIds |-> IF b \in found THEN OpenBill
                       ELSE IF b \in BillOf(t) THEN [bill[b] EXCEPT !.transactionId = 0] ELSE bill[b]]

\* The deletion of a row that is gone fails, and the whole transaction with it.
DeleteCommit(r) ==
    LET t == request[r].tx
        found == request[r].found IN
    /\ request[r].pc = "deleting" /\ Ends(r)
    /\ \/ ~Live(t) /\ UNCHANGED <<txn, bill, overtaken>>
       \/ /\ Live(t) /\ t \notin LockedRows /\ (found \cup BillOf(t)) \cap LockedBills = {}
          /\ txn' = [txn EXCEPT ![t] = GoneRow]
          /\ bill' = BillsWithout(t, found)
          /\ overtaken' = overtaken \cup (found \ BillOf(t)) \cup (BillOf(t) \ found)
    /\ UNCHANGED <<batch, cache, page, mapping, log, delivery, moves>>

\* cancel, remove (which deletes what no recurrence made; a deleted bill is one
\* that nobody reopens) and reopen: no lock, and the status is written by id.
CancelRead(r, b) == bill[b].status = "PENDING" /\ Reads(r, [IdleRequest EXCEPT !.pc = "canceling", !.bill = b])
ReopenRead(r, b) == bill[b].status = "CANCELED" /\ Reads(r, [IdleRequest EXCEPT !.pc = "reopening", !.bill = b])

StatusWrite(r, pc, expected, status) ==
    LET b == request[r].bill IN
    /\ request[r].pc = pc /\ Ends(r)
    /\ b \notin LockedBills
    /\ bill' = [bill EXCEPT ![b].status = status]
    /\ overtaken' = overtaken \cup (IF bill[b].status = expected THEN {} ELSE {b})
    /\ UNCHANGED <<txn, batch, cache, page, mapping, log, delivery, moves>>

CancelWrite(r) == StatusWrite(r, "canceling", "PENDING", "CANCELED")
ReopenWrite(r) == StatusWrite(r, "reopening", "CANCELED", "PENDING")

\* update writes the row with toData and no extras: its import is forgotten.
EditRow(t) ==
    /\ Outside
    /\ Live(t) /\ t \notin LockedRows
    /\ txn[t].ext # NoLine
    /\ txn' = [txn EXCEPT ![t].ext = NoLine, ![t].copy = FALSE, ![t].importBatchId = NoBatch]
    /\ UNCHANGED <<bill, batch, cache, page, mapping, log, delivery, request, overtaken>>

-----------------------------------------------------------------------------
(* Bank account mappings: create is refused when the pair is mapped.        *)

SetMapping(a) ==
    /\ Outside
    /\ a # mapping
    /\ mapping' = a
    /\ UNCHANGED <<txn, bill, batch, cache, page, log, delivery, request, overtaken>>

RemoveMapping ==
    /\ Outside
    /\ mapping # NoAccount
    /\ mapping' = NoAccount
    /\ UNCHANGED <<txn, bill, batch, cache, page, log, delivery, request, overtaken>>

-----------------------------------------------------------------------------
(* ingestEmail, called by n8n; a delivery that failed is made again.        *)

Lookup(d) ==
    /\ delivery[d].pc = "new"
    /\ delivery' = [delivery EXCEPT ![d].pc = IF log = NoBatch THEN "unseen" ELSE "done"]
    /\ UNCHANGED <<txn, bill, batch, cache, page, mapping, log, request, overtaken, moves>>

EmailBatch(d, b) ==
    /\ delivery[d].pc = "unseen"
    /\ CreatePendingBatch(b, mapping, TRUE)
    /\ delivery' = [delivery EXCEPT ![d] = [pc |-> "created", batch |-> b]]
    /\ UNCHANGED <<txn, bill, page, mapping, log, request, overtaken, moves>>

\* The unique index [messageId, attachmentHash] refuses a second log row: the
\* call fails and n8n makes it again, but its batch stays.
WriteLog(d) ==
    /\ delivery[d].pc = "created"
    /\ log' = IF log = NoBatch THEN delivery[d].batch ELSE log
    /\ delivery' = [delivery EXCEPT ![d].pc = IF log = NoBatch THEN "done" ELSE "new",
                                     ![d].batch = NoBatch]
    /\ UNCHANGED <<txn, bill, batch, cache, page, mapping, request, overtaken, moves>>

\* The API process moves: its memory and the requests in flight are lost.
Restart ==
    /\ Outside
    /\ cache' = [b \in Batches |-> NoPreview]
    /\ page' = [u \in Pages |-> IF page[u].pc = "closed" THEN page[u] ELSE Answered(u, "shown")[u]]
    /\ delivery' = [d \in Deliveries |-> IF delivery[d].pc = "done" THEN delivery[d]
                                         ELSE [pc |-> "new", batch |-> NoBatch]]
    /\ request' = [r \in Requests |-> IdleRequest]
    /\ UNCHANGED <<txn, bill, batch, mapping, log, overtaken>>

PageStep(u) ==
    \/ \E b \in Batches : (\E a \in StatementAccounts : Upload(u, b, a)) \/ Preview(u, b)
    \/ \E i \in LineIds : ChooseImport(u, i)
    \/ \E a \in StatementAccounts : ConfirmRead(u, a)
    \/ ClosePage(u)
    \/ ConfirmLock(u)
    \/ ConfirmCommit(u)
    \/ ConfirmFails(u)
    \/ DiscardRead(u)
    \/ DiscardWrite(u)

LedgerStep ==
    \/ \E t \in Transactions :
        \/ \E d \in Manual : CreateManual(t, d)
        \/ \E b \in BillIds : LinkBill(b, t) \/ \E a \in Accounts : PayBill(b, t, a)
        \/ EditRow(t)
    \/ \E b \in BillIds : Unpay(b)

RequestStep(r) ==
    \/ \E t \in Transactions : DeleteFind(r, t)
    \/ \E b \in BillIds : CancelRead(r, b) \/ ReopenRead(r, b)
    \/ DeleteCommit(r) \/ CancelWrite(r) \/ ReopenWrite(r)

DeliveryStep(d) ==
    \/ Lookup(d)
    \/ \E b \in Batches : EmailBatch(d, b)
    \/ WriteLog(d)

\* Nothing is in flight and nobody does anything.
ImportsIdle ==
    /\ \A u \in Pages : page[u].pc = "closed"
    /\ \A d \in Deliveries : delivery[d].pc # "created"
    /\ \A r \in Requests : request[r] = IdleRequest
    /\ UNCHANGED importVars

ImportsNext ==
    \/ ImportsIdle
    \/ \E u \in Pages : PageStep(u)
    \/ LedgerStep
    \/ \E r \in Requests : RequestStep(r)
    \/ (\E a \in StatementAccounts : SetMapping(a)) \/ RemoveMapping
    \/ \E d \in Deliveries : DeliveryStep(d)
    \/ Restart

ImportsSpec == ImportsInit /\ [][ImportsNext]_importVars

-----------------------------------------------------------------------------
(* Properties.                                                              *)

ImportsTypeOK ==
    /\ \A t \in Transactions : /\ txn[t].status \in {"UNUSED", "LIVE", "DELETED"}
                               /\ txn[t].ext \in LineIds \cup {NoLine}
                               /\ txn[t].importBatchId \in BatchRef
                               /\ txn[t].lines \subseteq LineIds
    /\ bill \in [BillIds -> [status : {"PENDING", "PAID", "CANCELED"}, transactionId : Transactions \cup {0},
                            settlement : {"NONE", "GENERATED", "LINKED"}]]
    /\ batch \in [Batches -> [status : {"NONE", "PENDING", "UNMAPPED_ACCOUNT", "CONFIRMED", "DISCARDED"},
                              accountId : AccountRef, byEmail : BOOLEAN,
                              preview : (SUBSET LineIds) \cup {NoPreview}]]
    /\ cache \in [Batches -> (SUBSET LineIds) \cup {NoPreview}]
    /\ \A u \in Pages : /\ page[u].pc \in {"closed", "shown", "sent", "locked", "discarding"}
                        /\ page[u].batch \in BatchRef /\ page[u].account \in AccountRef
                        /\ page[u].flags # NoPreview /\ page[u].flags \subseteq LineIds
    /\ mapping \in AccountRef /\ log \in BatchRef
    /\ delivery \in [Deliveries -> [pc : {"new", "unseen", "created", "done"}, batch : BatchRef]]
    /\ request \in [Requests -> [pc : {"idle", "deleting", "canceling", "reopening"}, tx : Transactions \cup {0},
                                  bill : BillIds \cup {0}, found : SUBSET BillIds]]
    /\ overtaken \subseteq BillIds
    /\ moves \in 0..MaxMoves

\* However a bill is settled, undone, canceled and reopened (checklist, import, both
\* at once, twice), the rows that were created to pay it are the one it is settled
\* with, and it is PAID if and only if it is settled with a row, one that exists
\* (docs/36, 7.3); unless a deletion, a cancellation or a reopening wrote to the bill
\* after it had become something else than they had read.
BillPaidOnce ==
    /\ \A b \in BillIds : bill[b].transactionId # 0 => Live(bill[b].transactionId)
    /\ \A b \in BillIds \ overtaken :
          /\ \A t \in Transactions : Live(t) /\ txn[t].pays = b => bill[b].transactionId = t
          /\ bill[b].status = "PAID" <=> bill[b].transactionId # 0

\* The types, and one row at most per bill.
BillsPaidSoundly == ImportsTypeOK /\ BillPaidOnce

\* The matching reads the ledger alone: its invariants are evaluated only while no
\* page is open and no request is under way. Every ledger there is comes about so.
AtRest == (\A u \in Pages : page[u].pc = "closed") /\ \A r \in Requests : request[r] = IdleRequest

\* The claims of two lines of one statement are disjoint.
SuggestionsOneToOne(known) ==
    \A l, m \in OtherStatement : l # m => Claims(known[l.id]) \cap Claims(known[m.id]) = {}

\* What decisionStillValid and the loop of confirm accept, were every line decided
\* the way the preview suggests.
SuggestionsConfirmable(known) ==
    LET choice == [i \in {l.id : l \in OtherStatement} |->
                      IF known[i].suggestedAction = "IMPORT" THEN Plain("IMPORT")
                      ELSE ChoiceFor(CHOOSE m \in known[i].matches : TRUE)]
    IN  /\ Accepts(DOMAIN choice, choice)
        /\ \A i \in DOMAIN choice : StillValid(choice[i], FALSE, known[i].matches)

\* Two lines of one statement are never matched to the same row or bill (docs/36,
\* test 6), whatever else is in the books, and a preview whose suggestions are
\* accepted as they are can be confirmed.
SuggestionsSound ==
    AtRest =>
    \A a \in StatementAccounts :
        LET known == Reconciliation(a, OtherStatement)
        IN  SuggestionsOneToOne(known) /\ SuggestionsConfirmable(known)

\* docs/36, 5.1, on the bills a statement is compared with: pending, of the account or
\* of none, due "em [menor data da linha - 45d, maior + 10d]".
InDocumentedWindow(b, lines) ==
    /\ \E l \in lines : l.day - WideAfter <= Bills[b].day
    /\ \E l \in lines : Bills[b].day <= l.day + WideBefore

\* Every pending bill of the documented window is compared with the lines of a
\* preview that is on a page.
LateBillsCompared ==
    \A u \in Pages : page[u].pc = "shown" =>
        LET lines == NotFlagged(page[u].flags) IN
        \A b \in BillIds :
            (/\ bill[b].status = "PENDING" /\ Bills[b].accountId \in {NoAccount, page[u].account}
             /\ InDocumentedWindow(b, lines))
            => \E c \in BillCandidates(page[u].account, lines) : c.id = b

Recorded(i, a) == {t \in Transactions : Live(t) /\ i \in txn[t].lines /\ Touches(txn[t], a)}

\* A line gets a second row in its account only if the flags the confirmation used
\* were outdated, or the first row no longer carries the line's own id: it was
\* edited, it is itself a copy, or it became a transfer under the other side's id;
\* or if a row of the other account that stands for the same id becomes a transfer.
LineImportedTwiceOnlyIf ==
    [][\A u \in Pages, a \in StatementAccounts :
        (ConfirmCommit(u) /\ page[u].account = a) =>
            \A i \in LineIds :
                (Cardinality(Recorded(i, a)') > 1 /\ ~(Recorded(i, a)' \subseteq Recorded(i, a)))
                => \/ i \in Duplicates(a) \ page[u].flags
                   \/ \A t \in Recorded(i, a) : txn[t].ext # i \/ txn[t].copy
                   \/ \E t \in Transactions : Live(t) /\ i \in txn[t].lines /\ ~Touches(txn[t], a)]_importVars

DiscardedWithRows(b) ==
    /\ batch[b].status = "DISCARDED"
    /\ \E t \in Transactions : Live(t) /\ txn[t].importBatchId = b

\* A discarded batch has rows in the ledger only if a request wrote over a batch
\* that another one had closed after the check (confirm and discard read the
\* status outside their transactions).
BatchFateMixedOnlyByStaleCheck ==
    [][\A b \in Batches :
        (DiscardedWithRows(b)' /\ ~DiscardedWithRows(b)) => ~Open(b)]_importVars

=============================================================================
