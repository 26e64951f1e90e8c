---------------------------- MODULE ImportsProofs ----------------------------
(***************************************************************************)
(* What Imports guarantees for any statement, household and number of pages *)
(* and batches: which row pays a bill, which batch a row belongs to, and    *)
(* when a line of a statement comes to stand twice in the ledger.           *)
(***************************************************************************)
EXTENDS Imports, MatchingProofs, FiniteSetTheorems, TLAPS

-----------------------------------------------------------------------------
(* The inductive invariant *)

\* A row of the ledger: its fields, and two sides only for a transfer.
RowFields == {"status", "type", "accountId", "fromAccountId", "toAccountId", "amount", "day", "text",
              "ext", "copy", "importBatchId", "lines", "pays"}

RowFits(r) ==
    /\ DOMAIN r = RowFields
    /\ r.status \in {"UNUSED", "LIVE", "DELETED"} /\ r.ext \in LineIds \cup {NoLine}
    /\ r.importBatchId \in BatchRef /\ r.lines \subseteq LineIds /\ r.day \in Int
    /\ r.status = "LIVE" /\ r.type # "TRANSFER" => r.fromAccountId = NoAccount /\ r.toAccountId = NoAccount

RowsFit == txn = [t \in Transactions |-> txn[t]] /\ \A t \in Transactions : RowFits(txn[t])

\* A page: an open one shows a batch, and one that was sent transfers to another
\* account than its own.
PageFits(p) ==
    /\ DOMAIN p = {"pc", "batch", "account", "flags", "choice"}
    /\ p.pc \in {"closed", "shown", "sent", "locked", "discarding"}
    /\ p.batch \in BatchRef /\ p.account \in AccountRef /\ p.flags # NoPreview /\ p.flags \subseteq LineIds
    /\ p.pc # "closed" => p.batch \in Batches
    /\ p.pc \in {"sent", "locked"} => \A i \in LineIds : p.choice[i].other # p.account

PagesFit == page = [u \in Pages |-> page[u]] /\ \A u \in Pages : PageFits(page[u])

\* An open batch has its preview.
BatchesFit ==
    /\ batch \in [Batches -> [status : {"NONE", "PENDING", "UNMAPPED_ACCOUNT", "CONFIRMED", "DISCARDED"},
                              accountId : AccountRef, byEmail : BOOLEAN,
                              preview : (SUBSET LineIds) \cup {NoPreview}]]
    /\ cache \in [Batches -> (SUBSET LineIds) \cup {NoPreview}]
    /\ \A b \in Batches : Open(b) => batch[b].preview # NoPreview

BillType == [status : {"PENDING", "PAID", "CANCELED"}, transactionId : Transactions \cup {0},
             settlement : {"NONE", "GENERATED", "LINKED"}]

\* A bill is settled with a row that exists and that settles no other bill; unless it
\* was overtaken, it is PAID when it is settled, and with the row that pays it.
BillsFit ==
    /\ bill \in [BillIds -> BillType] /\ SettledApart(bill)
    /\ \A b \in BillIds : bill[b].transactionId # 0 => Live(bill[b].transactionId)
    /\ \A b \in BillIds \ overtaken :
          /\ \A t \in Transactions : Live(t) /\ txn[t].pays = b => bill[b].transactionId = t
          /\ bill[b].status = "PAID" <=> bill[b].transactionId # 0

\* A batch that was not closed has no row.
Filled(b) == batch[b].status \in {"CONFIRMED", "DISCARDED"}
FilledOnce == \A b \in Batches, t \in Transactions : (Live(t) /\ txn[t].importBatchId = b) => Filled(b)

OthersFit ==
    /\ mapping \in AccountRef /\ log \in BatchRef
    /\ delivery \in [Deliveries -> [pc : {"new", "unseen", "created", "done"}, batch : BatchRef]]
    /\ moves \in 0..MaxMoves

\* A request has found the row it deletes, or the bill it writes to.
RequestType == [pc : {"idle", "deleting", "canceling", "reopening"}, tx : Transactions \cup {0},
                bill : BillIds \cup {0}, found : SUBSET BillIds]
RequestFits(q) ==
    /\ q \in RequestType
    /\ q.pc = "deleting" => q.tx \in Transactions
    /\ q.pc \in {"canceling", "reopening"} => q.bill \in BillIds

RequestsFit ==
    /\ request = [r \in Requests |-> request[r]] /\ \A r \in Requests : RequestFits(request[r])
    /\ overtaken \subseteq BillIds

ImportsInv == RowsFit /\ PagesFit /\ BatchesFit /\ BillsFit /\ FilledOnce /\ OthersFit /\ RequestsFit

-----------------------------------------------------------------------------
(* The pages *)

\* The preview has no other name, and an account is not none.
LEMMA Named ==
    /\ \A S \in SUBSET LineIds : S # NoPreview
    /\ {} \subseteq LineIds /\ {} # NoPreview
    /\ 0 \notin BillIds /\ NoAccount \notin Accounts /\ NoBatch \notin Batches
    /\ StatementAccounts \subseteq AccountRef /\ StatementAccounts \subseteq Accounts
<1>1. \A S \in SUBSET LineIds : S # NoPreview
    BY ImportAssumption DEF LineIds
<1>2. {} \in SUBSET LineIds
    OBVIOUS
<1>. QED BY <1>1, <1>2, ImportAssumption DEF AccountRef, BillIds

\* One page is written.
LEMMA PageWritten ==
    ASSUME PagesFit, NEW u \in Pages, NEW p, PageFits(p), page' = [page EXCEPT ![u] = p]
    PROVE  PagesFit'
<1>1. page' = [v \in Pages |-> IF v = u THEN p ELSE page[v]]
    BY DEF PagesFit
<1>2. page' = [v \in Pages |-> page'[v]]
    BY <1>1
<1>3. \A v \in Pages : PageFits(page'[v])
    BY <1>1 DEF PagesFit
<1>. QED BY <1>2, <1>3 DEF PagesFit

\* A request is answered.
LEMMA PageAnswered ==
    ASSUME PagesFit, NEW u \in Pages, NEW pc \in {"shown", "discarding"}, page[u].pc # "closed", page' = Answered(u, pc)
    PROVE  PagesFit'
<1>. DEFINE p == [page[u] EXCEPT !.pc = pc, !.flags = {}]
<1>1. page' = [page EXCEPT ![u] = p]
    BY DEF Answered, PagesFit
<1>2. PageFits(page[u]) /\ page[u].batch \in Batches /\ page[u].account \in AccountRef
    BY DEF PagesFit, PageFits
<1>3. DOMAIN p = DOMAIN page[u] /\ p.pc = pc /\ p.flags = {} /\ p.batch = page[u].batch /\ p.account = page[u].account
    BY <1>2 DEF PageFits
<1>. HIDE DEF p
<1>4. PageFits(p)
    BY <1>2, <1>3, Named DEF PageFits
<1>. QED BY <1>1, <1>4, PageWritten

\* What LoadPreview finds for an open batch.
LEMMA PreviewLoaded ==
    ASSUME BatchesFit, NEW b \in Batches, Open(b)
    PROVE  LoadPreview(b) \in SUBSET LineIds /\ LoadPreview(b) # NoPreview
<1>1. cache[b] \in (SUBSET LineIds) \cup {NoPreview} /\ batch[b].preview \in (SUBSET LineIds) \cup {NoPreview}
    BY DEF BatchesFit
<1>2. batch[b].preview # NoPreview
    BY DEF BatchesFit
<1>. QED BY <1>1, <1>2 DEF LoadPreview

\* The flags are lines of the statement.
LEMMA DuplicatesFit == \A a : Duplicates(a) \in SUBSET LineIds
BY DEF Duplicates

\* A preview is shown.
LEMMA PageShown ==
    ASSUME PagesFit, NEW u \in Pages, NEW b \in Batches, NEW a \in AccountRef, NEW flags, ShowPreview(u, b, a, flags)
    PROVE  PagesFit'
<1>1. PICK f : page' = [page EXCEPT ![u] = [pc |-> "shown", batch |-> b, account |-> a, flags |-> {}, choice |-> f]]
    BY Zenon DEF ShowPreview
<1>. DEFINE p == [pc |-> "shown", batch |-> b, account |-> a, flags |-> {}, choice |-> f]
<1>2. PageFits(p)
    BY Named DEF PageFits, BatchRef
<1>3. page' = [page EXCEPT ![u] = p]
    BY <1>1
<1>. HIDE DEF p
<1>. QED BY <1>2, <1>3, PageWritten

\* A page that shows nothing fits.
LEMMA ClosedFits == PageFits(ClosedPage)
BY Named DEF PageFits, ClosedPage, BatchRef, AccountRef

\* Every step of a page and of the process keeps the pages.
LEMMA PageSteps ==
    ASSUME PagesFit, BatchesFit, NEW u \in Pages, PageStep(u)
    PROVE  PagesFit'
<1>1. ASSUME NEW b \in Batches, NEW a \in StatementAccounts, Upload(u, b, a)
      PROVE  PagesFit'
    BY <1>1, PageShown, Named DEF Upload
<1>2. ASSUME NEW b \in Batches, Preview(u, b)
      PROVE  PagesFit'
    <2>1. PICK a \in AccountRef : \E flags : ShowPreview(u, b, a, flags)
        BY <1>2 DEF Preview, BatchesFit
    <2>. QED BY <2>1, PageShown
<1>3. ASSUME NEW i \in LineIds, ChooseImport(u, i)
      PROVE  PagesFit'
    <2>. DEFINE c == [page[u].choice EXCEPT ![i] = Plain("IMPORT")]
                p == [page[u] EXCEPT !.choice = c]
    <2>1. page' = [page EXCEPT ![u] = p]
        BY <1>3 DEF ChooseImport
    <2>. HIDE DEF c
    <2>2. PageFits(p)
        BY <1>3 DEF ChooseImport, PagesFit, PageFits
    <2>. HIDE DEF p
    <2>. QED BY <2>1, <2>2, PageWritten
<1>4. ASSUME NEW a \in StatementAccounts, ConfirmRead(u, a)
      PROVE  PagesFit'
    <2>1. page[u].pc = "shown" /\ page[u].batch \in Batches /\ Open(page[u].batch)
        BY <1>4 DEF ConfirmRead, PagesFit, PageFits
    <2>2. PICK flags \in SUBSET LineIds : flags = LoadPreview(page[u].batch) /\ flags # NoPreview
        BY <2>1, PreviewLoaded
    <2>. DEFINE p == [page[u] EXCEPT !.pc = "sent", !.account = a, !.flags = flags]
    <2>3. page' = [page EXCEPT ![u] = p]
        BY <1>4, <2>2 DEF ConfirmRead
    <2>4. \A i \in LineIds : page[u].choice[i].other # a
        BY <1>4 DEF ConfirmRead
    <2>5. /\ PageFits(page[u]) /\ DOMAIN p = DOMAIN page[u] /\ p.pc = "sent" /\ p.flags = flags /\ p.account = a
          /\ p.batch = page[u].batch /\ p.choice = page[u].choice
        BY DEF PagesFit, PageFits
    <2>. HIDE DEF p
    <2>6. PageFits(p)
        BY <2>1, <2>2, <2>4, <2>5, Named DEF PageFits
    <2>. QED BY <2>3, <2>6, PageWritten
<1>5. CASE ConfirmLock(u)
    <2>1. page[u].pc = "sent" /\ (page' = [page EXCEPT ![u].pc = "locked"] \/ page' = Answered(u, "shown"))
        BY <1>5 DEF ConfirmLock
    <2>2. CASE page' = [page EXCEPT ![u].pc = "locked"]
        <3>. DEFINE p == [page[u] EXCEPT !.pc = "locked"]
        <3>1. page' = [page EXCEPT ![u] = p]
            BY <2>2
        <3>2. PageFits(p)
            BY <2>1 DEF PagesFit, PageFits
        <3>. HIDE DEF p
        <3>. QED BY <3>1, <3>2, PageWritten
    <2>. QED BY <2>1, <2>2, PageAnswered
<1>6. CASE ClosePage(u) \/ ConfirmCommit(u) \/ DiscardWrite(u)
    BY <1>6, ClosedFits, PageWritten DEF ClosePage, ConfirmCommit, DiscardWrite
<1>7. CASE ConfirmFails(u) \/ DiscardRead(u)
    BY <1>7, PageAnswered DEF ConfirmFails, DiscardRead
<1>. QED BY Zenon, <1>1, <1>2, <1>3, <1>4, <1>5, <1>6, <1>7 DEF PageStep

\* A restart leaves every open page answered.
LEMMA RestartPages ==
    ASSUME PagesFit, Restart
    PROVE  PagesFit'
<1>1. page' = [u \in Pages |-> IF page[u].pc = "closed" THEN page[u] ELSE Answered(u, "shown")[u]]
    BY DEF Restart
<1>2. ASSUME NEW u \in Pages, page[u].pc # "closed"
      PROVE  PageFits(Answered(u, "shown")[u])
    <2>. DEFINE p == [page[u] EXCEPT !.pc = "shown", !.flags = {}]
    <2>1. Answered(u, "shown")[u] = p
        BY DEF Answered, PagesFit
    <2>2. /\ PageFits(page[u]) /\ DOMAIN p = DOMAIN page[u] /\ p.pc = "shown" /\ p.flags = {}
          /\ p.account = page[u].account /\ p.batch = page[u].batch
        BY DEF PagesFit, PageFits
    <2>. HIDE DEF p
    <2>3. page[u].batch \in Batches /\ page[u].account \in AccountRef
        BY <1>2 DEF PagesFit, PageFits
    <2>. QED BY <1>2, <2>1, <2>2, <2>3, Named DEF PageFits
<1>3. \A u \in Pages : PageFits(page'[u])
    BY <1>1, <1>2 DEF PagesFit
<1>4. page' = [u \in Pages |-> page'[u]]
    BY <1>1
<1>. QED BY <1>3, <1>4 DEF PagesFit

-----------------------------------------------------------------------------
(* The batches *)

BatchType == [status : {"NONE", "PENDING", "UNMAPPED_ACCOUNT", "CONFIRMED", "DISCARDED"}, accountId : AccountRef,
              byEmail : BOOLEAN, preview : (SUBSET LineIds) \cup {NoPreview}]

\* The cache is written, the batches are not.
LEMMA CacheWritten ==
    ASSUME BatchesFit, batch' = batch, cache' \in [Batches -> (SUBSET LineIds) \cup {NoPreview}]
    PROVE  BatchesFit' /\ \A b \in Batches : Filled(b) => Filled(b)'
BY DEF BatchesFit, Open, Filled

\* One batch is written.
LEMMA BatchWritten ==
    ASSUME BatchesFit, NEW b \in Batches, NEW r \in BatchType, batch' = [batch EXCEPT ![b] = r],
           cache' \in [Batches -> (SUBSET LineIds) \cup {NoPreview}],
           r.status \in {"PENDING", "UNMAPPED_ACCOUNT"} => r.preview # NoPreview,
           Filled(b) => r.status \in {"CONFIRMED", "DISCARDED"}
    PROVE  BatchesFit' /\ \A c \in Batches : Filled(c) => Filled(c)'
<1>1. batch \in [Batches -> BatchType]
    BY DEF BatchesFit, BatchType
<1>2. batch' \in [Batches -> BatchType] /\ batch'[b] = r /\ \A c \in Batches \ {b} : batch'[c] = batch[c]
    BY <1>1
<1>3. BatchesFit'
    BY <1>2 DEF BatchesFit, BatchType, Open
<1>4. \A c \in Batches : Filled(c) => Filled(c)'
    BY <1>2 DEF Filled
<1>. QED BY <1>3, <1>4

\* A batch is created.
LEMMA BatchCreated ==
    ASSUME BatchesFit, NEW b \in Batches, NEW a \in AccountRef, NEW byEmail \in BOOLEAN, CreatePendingBatch(b, a, byEmail)
    PROVE  BatchesFit' /\ \A c \in Batches : Filled(c) => Filled(c)'
<1>. DEFINE flags == IF a = NoAccount THEN {} ELSE Duplicates(a)
            r == [status |-> IF a = NoAccount THEN "UNMAPPED_ACCOUNT" ELSE "PENDING",
                  accountId |-> a, byEmail |-> byEmail, preview |-> flags]
<1>1. batch' = [batch EXCEPT ![b] = r] /\ cache' = [cache EXCEPT ![b] = flags] /\ ~Filled(b)
    BY DEF CreatePendingBatch, FirstFree, Filled
<1>2. flags \in SUBSET LineIds /\ flags # NoPreview
    BY DuplicatesFit, Named
<1>. HIDE DEF flags
<1>3. r \in BatchType /\ r.preview # NoPreview
    BY <1>2 DEF BatchType
<1>. HIDE DEF r
<1>4. cache' \in [Batches -> (SUBSET LineIds) \cup {NoPreview}]
    BY <1>1, <1>2 DEF BatchesFit
<1>. QED BY <1>1, <1>3, <1>4, BatchWritten

\* A batch is closed.
LEMMA BatchClosed ==
    ASSUME BatchesFit, NEW b \in Batches, NEW a \in AccountRef, NEW s \in {"CONFIRMED", "DISCARDED"},
           batch' = Closed(b, s, a), cache' = [cache EXCEPT ![b] = NoPreview]
    PROVE  BatchesFit' /\ (\A c \in Batches : Filled(c) => Filled(c)') /\ Filled(b)'
<1>. DEFINE x == [batch[b] EXCEPT !.status = s]
            y == [x EXCEPT !.accountId = a]
            r == [y EXCEPT !.preview = NoPreview]
<1>1. batch' = [batch EXCEPT ![b] = r]
    BY DEF Closed, BatchesFit
<1>2. batch[b] \in BatchType
    BY DEF BatchesFit, BatchType
<1>3. x \in BatchType /\ x.status = s
    BY <1>2 DEF BatchType
<1>. HIDE DEF x
<1>4. y \in BatchType /\ y.status = s
    BY <1>3 DEF BatchType
<1>. HIDE DEF y
<1>5. r \in BatchType /\ r.status = s
    BY <1>4 DEF BatchType
<1>. HIDE DEF r
<1>6. cache' \in [Batches -> (SUBSET LineIds) \cup {NoPreview}]
    BY DEF BatchesFit
<1>7. Filled(b)'
    BY <1>1, <1>5 DEF Filled, BatchesFit
<1>. QED BY <1>1, <1>5, <1>6, <1>7, BatchWritten

\* The cases of a step.
LEMMA ImportsSteps ==
    ASSUME [ImportsNext]_importVars
    PROVE  \/ \E u \in Pages, b \in Batches : Preview(u, b) \/ \E a \in StatementAccounts : Upload(u, b, a)
           \/ \E u \in Pages : \/ \E i \in LineIds : ChooseImport(u, i)
                               \/ \E a \in StatementAccounts : ConfirmRead(u, a)
                               \/ ClosePage(u) \/ ConfirmLock(u) \/ ConfirmCommit(u) \/ ConfirmFails(u)
                               \/ DiscardRead(u) \/ DiscardWrite(u)
           \/ \E t \in Transactions : \/ \E d \in Manual : CreateManual(t, d)
                                      \/ \E b \in BillIds : LinkBill(b, t) \/ \E a \in Accounts : PayBill(b, t, a)
                                      \/ EditRow(t)
           \/ (\E b \in BillIds : Unpay(b)) \/ \E r \in Requests : RequestStep(r)
           \/ (\E a \in StatementAccounts : SetMapping(a)) \/ RemoveMapping
           \/ \E d \in Deliveries : Lookup(d) \/ WriteLog(d) \/ \E b \in Batches : EmailBatch(d, b)
           \/ Restart \/ UNCHANGED importVars
BY Zenon DEF ImportsNext, PageStep, LedgerStep, DeliveryStep, ImportsIdle

\* A request of another page touches the ledger only.
LEMMA RequestAside ==
    ASSUME NEW r \in Requests, RequestStep(r)
    PROVE  /\ batch' = batch /\ cache' = cache /\ page' = page
           /\ mapping' = mapping /\ log' = log /\ delivery' = delivery
           /\ moves' = moves \/ Outside
BY Zenon DEF RequestStep, DeleteFind, CancelRead, ReopenRead, Reads, DeleteCommit, CancelWrite, ReopenWrite, StatusWrite

\* Every step keeps the batches, and closed ones closed.
LEMMA BatchSteps ==
    ASSUME BatchesFit, PagesFit, OthersFit, [ImportsNext]_importVars
    PROVE  BatchesFit' /\ \A b \in Batches : Filled(b) => Filled(b)'
<1>1. ASSUME NEW u \in Pages, NEW b \in Batches, NEW a \in StatementAccounts, Upload(u, b, a)
      PROVE  BatchesFit' /\ \A c \in Batches : Filled(c) => Filled(c)'
    BY <1>1, BatchCreated, Named DEF Upload
<1>2. ASSUME NEW d \in Deliveries, NEW b \in Batches, EmailBatch(d, b)
      PROVE  BatchesFit' /\ \A c \in Batches : Filled(c) => Filled(c)'
    <2>1. PICK a \in AccountRef : a = mapping
        BY DEF OthersFit
    <2>. QED BY <1>2, <2>1, BatchCreated DEF EmailBatch
<1>3. ASSUME NEW u \in Pages, NEW b \in Batches, Preview(u, b)
      PROVE  BatchesFit' /\ \A c \in Batches : Filled(c) => Filled(c)'
    <2>1. batch' = batch /\ Open(b)
        BY <1>3 DEF Preview
    <2>2. PICK flags \in SUBSET LineIds : cache' = [cache EXCEPT ![b] = flags]
        BY <1>3, <2>1, PreviewLoaded, DuplicatesFit DEF Preview
    <2>3. cache' \in [Batches -> (SUBSET LineIds) \cup {NoPreview}]
        BY <2>2 DEF BatchesFit
    <2>. QED BY <2>1, <2>3, CacheWritten
<1>4. ASSUME NEW u \in Pages, NEW a \in StatementAccounts, ConfirmRead(u, a)
      PROVE  BatchesFit' /\ \A c \in Batches : Filled(c) => Filled(c)'
    <2>1. PICK b \in Batches : b = page[u].batch
        BY <1>4 DEF ConfirmRead, PagesFit, PageFits
    <2>2. batch' = batch /\ Open(b) /\ cache' = [cache EXCEPT ![b] = LoadPreview(b)]
        BY <1>4, <2>1 DEF ConfirmRead
    <2>3. cache' \in [Batches -> (SUBSET LineIds) \cup {NoPreview}]
        BY <2>2, PreviewLoaded DEF BatchesFit
    <2>. QED BY <2>2, <2>3, CacheWritten
<1>5. ASSUME NEW u \in Pages, ConfirmCommit(u) \/ DiscardWrite(u)
      PROVE  BatchesFit' /\ \A c \in Batches : Filled(c) => Filled(c)'
    <2>1. PICK b \in Batches : b = page[u].batch
        BY <1>5 DEF ConfirmCommit, DiscardWrite, PagesFit, PageFits
    <2>2. PICK a \in AccountRef, s \in {"CONFIRMED", "DISCARDED"} : batch' = Closed(b, s, a)
        BY <1>5, <2>1 DEF ConfirmCommit, DiscardWrite, PagesFit, PageFits, BatchesFit
    <2>3. cache' = [cache EXCEPT ![b] = NoPreview]
        BY <1>5, <2>1 DEF ConfirmCommit, DiscardWrite
    <2>. QED BY <2>2, <2>3, BatchClosed
<1>6. CASE Restart
    BY <1>6, CacheWritten DEF Restart
<1>7. CASE batch' = batch /\ cache' = cache
    BY <1>7, CacheWritten DEF BatchesFit
<1>8. ASSUME \/ \E u \in Pages : \/ \E i \in LineIds : ChooseImport(u, i)
                                 \/ ClosePage(u) \/ ConfirmLock(u) \/ ConfirmFails(u) \/ DiscardRead(u)
             \/ \E t \in Transactions : \/ \E d \in Manual : CreateManual(t, d)
                                        \/ \E b \in BillIds : LinkBill(b, t) \/ \E a \in Accounts : PayBill(b, t, a)
                                        \/ EditRow(t)
             \/ (\E b \in BillIds : Unpay(b)) \/ (\E r \in Requests : RequestStep(r))
             \/ (\E a \in StatementAccounts : SetMapping(a)) \/ RemoveMapping
             \/ (\E d \in Deliveries : Lookup(d) \/ WriteLog(d)) \/ UNCHANGED importVars
      PROVE  batch' = batch /\ cache' = cache
    BY <1>8, RequestAside, Zenon DEF ChooseImport, ClosePage, ConfirmLock, ConfirmFails, DiscardRead, CreateManual, LinkBill, PayBill,
        Unpay, EditRow, SetMapping, RemoveMapping, Lookup, WriteLog, importVars
<1>. QED BY Zenon, <1>1, <1>2, <1>3, <1>4, <1>5, <1>6, <1>7, <1>8, ImportsSteps

\* The mapping, the log and the deliveries keep their types.
LEMMA OtherSteps ==
    ASSUME BatchesFit, PagesFit, OthersFit, [ImportsNext]_importVars
    PROVE  OthersFit'
<1>1. /\ mapping \in AccountRef /\ log \in BatchRef /\ moves \in 0..MaxMoves /\ NoAccount \in AccountRef
      /\ NoBatch \in BatchRef /\ Batches \subseteq BatchRef
      /\ delivery \in [Deliveries -> [pc : {"new", "unseen", "created", "done"}, batch : BatchRef]]
    BY DEF OthersFit, AccountRef, BatchRef
<1>2. mapping' \in AccountRef
    BY <1>1, Named, ImportsSteps, RequestAside, Zenon DEF Preview, Upload, ChooseImport, ConfirmRead, ClosePage, ConfirmLock, ConfirmCommit, ConfirmFails,
        DiscardRead, DiscardWrite, CreateManual, LinkBill, PayBill, Unpay, EditRow, SetMapping, RemoveMapping,
        Lookup, WriteLog, EmailBatch, Restart, importVars
<1>3. moves' \in 0..MaxMoves
    <2>1. moves' = moves \/ (moves < MaxMoves /\ moves' = moves + 1)
        <3>1. moves' = moves \/ Outside
            BY ImportsSteps, RequestAside, Zenon DEF Preview, Upload, ChooseImport, ConfirmRead, ClosePage, ConfirmLock, ConfirmCommit,
                ConfirmFails, DiscardRead, DiscardWrite, CreateManual, LinkBill, PayBill, Unpay, EditRow, SetMapping,
                RemoveMapping, Lookup, WriteLog, EmailBatch, Restart, importVars
        <3>. QED BY <3>1 DEF Outside
    <2>. QED BY <1>1, <2>1, ImportAssumption
<1>4. ASSUME NEW d \in Deliveries, Lookup(d) \/ WriteLog(d) \/ \E b \in Batches : EmailBatch(d, b)
      PROVE  /\ log' \in BatchRef
             /\ delivery' \in [Deliveries -> [pc : {"new", "unseen", "created", "done"}, batch : BatchRef]]
    <2>1. CASE Lookup(d)
        BY <1>1, <2>1 DEF Lookup
    <2>2. CASE WriteLog(d)
        <3>. DEFINE pc == IF log = NoBatch THEN "done" ELSE "new"
                    c == [delivery[d] EXCEPT !.pc = pc, !.batch = NoBatch]
        <3>1. delivery' = [delivery EXCEPT ![d] = c] /\ log' \in BatchRef
            BY <1>1, <2>2 DEF WriteLog
        <3>2. c \in [pc : {"new", "unseen", "created", "done"}, batch : BatchRef]
            BY <1>1
        <3>. HIDE DEF c
        <3>. QED BY <1>1, <3>1, <3>2
    <2>3. CASE \E b \in Batches : EmailBatch(d, b)
        BY <1>1, <2>3 DEF EmailBatch
    <2>. QED BY <1>4, <2>1, <2>2, <2>3
<1>5. ASSUME Restart
      PROVE  /\ log' \in BatchRef
             /\ delivery' \in [Deliveries -> [pc : {"new", "unseen", "created", "done"}, batch : BatchRef]]
    <2>. DEFINE new == [pc |-> "new", batch |-> NoBatch]
    <2>1. /\ delivery' = [d \in Deliveries |-> IF delivery[d].pc = "done" THEN delivery[d] ELSE new]
          /\ log' = log
        BY <1>5 DEF Restart
    <2>2. new \in [pc : {"new", "unseen", "created", "done"}, batch : BatchRef]
        BY <1>1
    <2>. HIDE DEF new
    <2>. QED BY <1>1, <2>1, <2>2
<1>6. ASSUME ~Restart, ~\E d \in Deliveries : Lookup(d) \/ WriteLog(d) \/ \E b \in Batches : EmailBatch(d, b)
      PROVE  log' = log /\ delivery' = delivery
    BY <1>6, ImportsSteps, RequestAside, Zenon DEF Preview, Upload, ChooseImport, ConfirmRead, ClosePage, ConfirmLock, ConfirmCommit,
        ConfirmFails, DiscardRead, DiscardWrite, CreateManual, LinkBill, PayBill, Unpay, EditRow, SetMapping,
        RemoveMapping, importVars
<1>7. /\ log' \in BatchRef
      /\ delivery' \in [Deliveries -> [pc : {"new", "unseen", "created", "done"}, batch : BatchRef]]
    BY <1>1, <1>4, <1>5, <1>6
<1>. QED BY <1>2, <1>3, <1>7 DEF OthersFit

-----------------------------------------------------------------------------
(* Rows and bills, outside the imports *)

\* A row as it is typed, and one that is gone.
LEMMA RowMade ==
    ASSUME NEW d
    PROVE  /\ DOMAIN Row(d) = RowFields /\ Row(d).status = "LIVE" /\ Row(d).type = d.type
           /\ Row(d).accountId = d.accountId /\ Row(d).fromAccountId = d.fromAccountId
           /\ Row(d).toAccountId = d.toAccountId /\ Row(d).ext = NoLine /\ Row(d).importBatchId = NoBatch
           /\ Row(d).lines = {} /\ Row(d).pays = 0 /\ Row(d).day = d.day
BY DEF Row, Unused, RowFields

\* A deleted row fits.
LEMMA RowGone == RowFits(GoneRow) /\ GoneRow.status = "DELETED"
BY DEF GoneRow, RowFits, Unused, RowFields, BatchRef

\* One row is written.
LEMMA RowWritten ==
    ASSUME RowsFit, NEW t \in Transactions, NEW r, RowFits(r), txn' = [txn EXCEPT ![t] = r]
    PROVE  RowsFit' /\ txn'[t] = r /\ \A s \in Transactions \ {t} : txn'[s] = txn[s]
<1>1. txn' = [s \in Transactions |-> IF s = t THEN r ELSE txn[s]]
    BY DEF RowsFit
<1>2. txn' = [s \in Transactions |-> txn'[s]] /\ txn'[t] = r /\ \A s \in Transactions \ {t} : txn'[s] = txn[s]
    BY <1>1
<1>3. \A s \in Transactions : RowFits(txn'[s])
    BY <1>2 DEF RowsFit
<1>. QED BY <1>2, <1>3 DEF RowsFit

\* No row is 0.
LEMMA RowsNumbered == 0 \notin Transactions
<1>1. PICK n : Transactions = 1..n
    BY Zenon, ImportAssumption
<1>. QED BY <1>1

\* The records of a bill.
LEMMA PaidFits ==
    ASSUME NEW t \in Transactions, NEW how \in {"GENERATED", "LINKED"}
    PROVE  Paid(t, how) \in BillType /\ Paid(t, how).status = "PAID" /\ Paid(t, how).transactionId = t
BY DEF Paid, BillType

LEMMA OpenFits == OpenBill \in BillType /\ OpenBill.status = "PENDING" /\ OpenBill.transactionId = 0
BY DEF OpenBill, BillType

LEMMA BillFields ==
    ASSUME BillsFit
    PROVE  /\ bill \in [BillIds -> BillType]
           /\ \A b \in BillIds : bill[b].transactionId \in Transactions \cup {0}
<1>1. bill \in [BillIds -> BillType]
    BY DEF BillsFit
<1>2. \A x \in BillType : x.transactionId \in Transactions \cup {0}
    BY DEF BillType
<1>. QED BY <1>1, <1>2

\* The bills stay as they are, and no row goes or begins to pay one.
LEMMA BillsCarried ==
    ASSUME BillsFit, RowsFit, NEW t \in Transactions, bill' = bill, overtaken' = overtaken,
           \A s \in Transactions \ {t} : txn'[s] = txn[s],
           \/ txn[t].status = "UNUSED" /\ txn'[t].pays = 0
           \/ txn'[t].status = txn[t].status /\ txn'[t].pays = txn[t].pays
    PROVE  BillsFit'
<1>1. SettledApart(bill)' /\ bill' \in [BillIds -> BillType]
    BY DEF BillsFit, SettledApart
<1>2. ASSUME NEW b \in BillIds, bill[b].transactionId # 0
      PROVE  txn'[bill[b].transactionId].status = "LIVE"
    <2>1. PICK s \in Transactions : s = bill[b].transactionId /\ Live(s)
        BY <1>2, BillFields DEF BillsFit
    <2>. QED BY <2>1 DEF Live
<1>3. ASSUME NEW b \in BillIds \ overtaken, NEW s \in Transactions, txn'[s].status = "LIVE", txn'[s].pays = b
      PROVE  bill[b].transactionId = s
    <2>1. txn[s].status = "LIVE" /\ txn[s].pays = b
        BY <1>3, Named
    <2>. QED BY <2>1 DEF BillsFit, Live
<1>4. \A b \in BillIds \ overtaken : bill[b].status = "PAID" <=> bill[b].transactionId # 0
    BY DEF BillsFit
<1>. QED BY <1>1, <1>2, <1>3, <1>4 DEF BillsFit, Live

\* A pending bill is settled with a row that settles no other bill and pays no other.
LEMMA BillSettled ==
    ASSUME BillsFit, RowsFit, NEW t \in Transactions, NEW b \in BillIds, NEW how \in {"GENERATED", "LINKED"},
           bill[b].status = "PENDING", bill' = [bill EXCEPT ![b] = Paid(t, how)], overtaken' = overtaken,
           \A c \in BillIds : bill[c].transactionId # t,
           \A s \in Transactions \ {t} : txn'[s] = txn[s], txn'[t].status = "LIVE",
           txn'[t] = txn[t] \/ txn'[t].pays = b
    PROVE  BillsFit'
<1>1. bill \in [BillIds -> BillType] /\ Paid(t, how) \in BillType /\ Paid(t, how).transactionId = t
      /\ Paid(t, how).status = "PAID" /\ t # 0
    BY BillFields, PaidFits, RowsNumbered
<1>2. bill' \in [BillIds -> BillType] /\ bill'[b] = Paid(t, how) /\ \A c \in BillIds \ {b} : bill'[c] = bill[c]
    BY <1>1
<1>3. SettledApart(bill)'
    BY <1>1, <1>2 DEF BillsFit, SettledApart
<1>4. ASSUME NEW c \in BillIds, bill'[c].transactionId # 0
      PROVE  txn'[bill'[c].transactionId].status = "LIVE"
    <2>1. CASE c = b
        BY <1>1, <1>2, <2>1
    <2>2. CASE c # b
        <3>1. PICK s \in Transactions : s = bill[c].transactionId /\ Live(s) /\ s # t
            BY <1>1, <1>2, <1>4, <2>2, BillFields DEF BillsFit
        <3>. QED BY <1>2, <2>2, <3>1 DEF Live
    <2>. QED BY <2>1, <2>2
<1>5. ASSUME NEW c \in BillIds \ overtaken, NEW s \in Transactions, txn'[s].status = "LIVE", txn'[s].pays = c
      PROVE  bill'[c].transactionId = s
    <2>1. CASE s = t /\ txn'[t].pays = b
        BY <1>1, <1>2, <1>5, <2>1
    <2>2. CASE txn'[s] = txn[s]
        <3>1. bill[c].transactionId = s
            BY <1>5, <2>2 DEF BillsFit, Live
        <3>2. c # b
            BY <1>5, <3>1, RowsNumbered DEF BillsFit
        <3>. QED BY <1>2, <3>1, <3>2
    <2>. QED BY <2>1, <2>2
<1>6. \A c \in BillIds \ overtaken : bill'[c].status = "PAID" <=> bill'[c].transactionId # 0
    BY <1>1, <1>2 DEF BillsFit
<1>. QED BY <1>2, <1>3, <1>4, <1>5, <1>6 DEF BillsFit, Live

\* What people do to the rows and the bills.
LEMMA LedgerSteps ==
    ASSUME RowsFit, BillsFit, FilledOnce, NEW t \in Transactions, batch' = batch,
           \/ \E d \in Manual : CreateManual(t, d)
           \/ \E b \in BillIds : LinkBill(b, t) \/ \E a \in Accounts : PayBill(b, t, a)
           \/ EditRow(t)
    PROVE  RowsFit' /\ BillsFit' /\ FilledOnce'
<1>1. ASSUME NEW d \in Manual, CreateManual(t, d)
      PROVE  RowsFit' /\ BillsFit' /\ FilledOnce'
    <2>1. /\ txn[t].status = "UNUSED" /\ txn' = [txn EXCEPT ![t] = Row(d)] /\ bill' = bill
          /\ overtaken' = overtaken
        BY <1>1 DEF CreateManual, Fresh
    <2>2. RowFits(Row(d))
        BY RowMade, ImportAssumption DEF RowFits, BatchRef
    <2>3. RowsFit' /\ txn'[t] = Row(d) /\ \A s \in Transactions \ {t} : txn'[s] = txn[s]
        BY <2>1, <2>2, RowWritten
    <2>4. BillsFit'
        BY <2>1, <2>3, RowMade, Named, BillsCarried, Zenon
    <2>5. FilledOnce'
        BY <2>3, RowMade, Named DEF FilledOnce, Filled, Live
    <2>. QED BY <2>3, <2>4, <2>5
<1>2. ASSUME NEW b \in BillIds, LinkBill(b, t)
      PROVE  RowsFit' /\ BillsFit' /\ FilledOnce'
    <2>1. /\ txn' = txn /\ Live(t) /\ bill[b].status = "PENDING" /\ BillOf(t) = {} /\ overtaken' = overtaken
          /\ bill' = [bill EXCEPT ![b] = Paid(t, "LINKED")]
        BY <1>2 DEF LinkBill, FreeBill
    <2>2. BillsFit'
        BY <2>1, BillSettled DEF BillOf, Live
    <2>. QED BY <2>1, <2>2 DEF RowsFit, FilledOnce, Filled, Live
<1>3. ASSUME NEW b \in BillIds, NEW a \in Accounts, PayBill(b, t, a)
      PROVE  RowsFit' /\ BillsFit' /\ FilledOnce'
    <2>. DEFINE d == [type |-> IF Bills[b].targetAccountId = NoAccount THEN "EXPENSE" ELSE "TRANSFER",
                      accountId |-> IF Bills[b].targetAccountId = NoAccount THEN a ELSE NoAccount,
                      fromAccountId |-> IF Bills[b].targetAccountId = NoAccount THEN NoAccount ELSE a,
                      toAccountId |-> Bills[b].targetAccountId,
                      amount |-> Bills[b].amount, day |-> Bills[b].day, text |-> Bills[b].text]
                r == [Row(d) EXCEPT !.pays = b]
    <2>1. /\ txn[t].status = "UNUSED" /\ bill[b].status = "PENDING" /\ txn' = [txn EXCEPT ![t] = r]
          /\ bill' = [bill EXCEPT ![b] = Paid(t, "GENERATED")] /\ overtaken' = overtaken
        BY <1>3 DEF PayBill, FreeBill, Fresh
    <2>2. (d.type # "TRANSFER" => d.fromAccountId = NoAccount /\ d.toAccountId = NoAccount) /\ d.day \in Int
        BY ImportAssumption DEF BillIds
    <2>. HIDE DEF d
    <2>3. /\ DOMAIN r = RowFields /\ r.status = "LIVE" /\ r.type = d.type /\ r.fromAccountId = d.fromAccountId
          /\ r.toAccountId = d.toAccountId /\ r.ext = NoLine /\ r.importBatchId = NoBatch /\ r.lines = {} /\ r.pays = b
          /\ r.day = d.day
        <3>1. PICK x : x = Row(d)
            OBVIOUS
        <3>. QED BY <3>1, RowMade DEF RowFields
    <2>. HIDE DEF r
    <2>4. RowFits(r)
        BY <2>2, <2>3 DEF RowFits, BatchRef
    <2>5. RowsFit' /\ txn'[t] = r /\ \A s \in Transactions \ {t} : txn'[s] = txn[s]
        BY <2>1, <2>4, RowWritten
    <2>6. \A c \in BillIds : bill[c].transactionId # t
        BY <2>1, RowsNumbered DEF BillsFit, Live
    <2>8. BillsFit'
        BY <2>1, <2>3, <2>5, <2>6, BillSettled DEF Live
    <2>7. FilledOnce'
        BY <2>3, <2>5, Named DEF FilledOnce, Filled, Live
    <2>. QED BY <2>5, <2>7, <2>8
<1>4. CASE EditRow(t)
    <2>. DEFINE r == [txn[t] EXCEPT !.ext = NoLine, !.copy = FALSE, !.importBatchId = NoBatch]
    <2>1. txn' = [txn EXCEPT ![t] = r] /\ bill' = bill /\ overtaken' = overtaken
        BY <1>4 DEF EditRow, RowsFit
    <2>2. /\ DOMAIN r = RowFields /\ r.status = txn[t].status /\ r.type = txn[t].type /\ r.ext = NoLine
          /\ r.fromAccountId = txn[t].fromAccountId /\ r.toAccountId = txn[t].toAccountId
          /\ r.importBatchId = NoBatch /\ r.lines = txn[t].lines /\ r.pays = txn[t].pays /\ r.day = txn[t].day
        BY DEF RowsFit, RowFits, RowFields
    <2>. HIDE DEF r
    <2>3. RowFits(r)
        BY <2>2 DEF RowsFit, RowFits, BatchRef
    <2>4. RowsFit' /\ txn'[t] = r /\ \A s \in Transactions \ {t} : txn'[s] = txn[s]
        BY <2>1, <2>3, RowWritten
    <2>5. BillsFit'
        BY <2>1, <2>2, <2>4, BillsCarried, Zenon
    <2>6. FilledOnce'
        BY <2>2, <2>4, Named DEF FilledOnce, Filled, Live
    <2>. QED BY <2>4, <2>5, <2>6
<1>. QED BY <1>1, <1>2, <1>3, <1>4

-----------------------------------------------------------------------------
(* What is undone *)

\* A row is let go by the bill it settles, or deleted with what settles by it.
LEMMA BillsReleased ==
    ASSUME BillsFit, RowsFit, NEW t \in Transactions, \A s \in Transactions \ {t} : txn'[s] = txn[s],
           txn'[t].status # "LIVE" \/ txn'[t].pays = 0,
           overtaken \subseteq overtaken', bill' \in [BillIds -> BillType],
           \A b \in BillIds : \/ bill'[b].transactionId = 0
                              \/ (bill'[b].transactionId = bill[b].transactionId /\ bill[b].transactionId # t),
           \A b \in BillIds \ overtaken' : \/ (bill'[b] = OpenBill /\ bill[b].transactionId = t)
                                           \/ (bill'[b] = bill[b] /\ bill[b].transactionId # t)
    PROVE  BillsFit'
<1>1. SettledApart(bill)'
    BY DEF BillsFit, SettledApart
<1>2. ASSUME NEW b \in BillIds, bill'[b].transactionId # 0
      PROVE  txn'[bill'[b].transactionId].status = "LIVE"
    <2>1. PICK s \in Transactions : s = bill[b].transactionId /\ bill'[b].transactionId = s /\ s # t /\ Live(s)
        BY <1>2, BillFields DEF BillsFit
    <2>. QED BY <2>1 DEF Live
<1>3. ASSUME NEW b \in BillIds \ overtaken', NEW s \in Transactions, txn'[s].status = "LIVE", txn'[s].pays = b
      PROVE  bill'[b].transactionId = s
    <2>1. s # t /\ txn[s].status = "LIVE" /\ txn[s].pays = b
        BY <1>3, Named
    <2>2. bill[b].transactionId = s
        BY <2>1 DEF BillsFit, Live
    <2>. QED BY <2>1, <2>2
<1>4. \A b \in BillIds \ overtaken' : bill'[b].status = "PAID" <=> bill'[b].transactionId # 0
    BY OpenFits DEF BillsFit
<1>. QED BY <1>1, <1>2, <1>3, <1>4 DEF BillsFit, Live

\* A settled bill is settled with a row, and no other bill is settled with it.
LEMMA SettledRow ==
    ASSUME BillsFit, NEW b \in BillIds, bill[b].transactionId # 0
    PROVE  /\ bill[b].transactionId \in Transactions /\ Live(bill[b].transactionId)
           /\ \A c \in BillIds \ {b} : bill[c].transactionId # bill[b].transactionId
BY BillFields DEF BillsFit, SettledApart

\* A row loses what paid by it, and nothing else.
LEMMA RowLetGo ==
    ASSUME RowsFit, FilledOnce, batch' = batch, NEW t \in Transactions, txn' = [txn EXCEPT ![t].pays = 0]
    PROVE  RowsFit' /\ FilledOnce' /\ txn'[t].pays = 0 /\ \A s \in Transactions \ {t} : txn'[s] = txn[s]
<1>. DEFINE r == [txn[t] EXCEPT !.pays = 0]
<1>1. txn' = [txn EXCEPT ![t] = r]
    BY DEF RowsFit
<1>2. /\ DOMAIN r = RowFields /\ r.status = txn[t].status /\ r.type = txn[t].type /\ r.ext = txn[t].ext
      /\ r.fromAccountId = txn[t].fromAccountId /\ r.toAccountId = txn[t].toAccountId /\ r.pays = 0
      /\ r.importBatchId = txn[t].importBatchId /\ r.lines = txn[t].lines /\ r.day = txn[t].day
    BY DEF RowsFit, RowFits, RowFields
<1>. HIDE DEF r
<1>3. RowFits(r)
    BY <1>2 DEF RowsFit, RowFits
<1>4. RowsFit' /\ txn'[t] = r /\ \A s \in Transactions \ {t} : txn'[s] = txn[s]
    BY <1>1, <1>3, RowWritten
<1>5. FilledOnce'
    BY <1>2, <1>4 DEF FilledOnce, Filled, Live
<1>. QED BY <1>2, <1>4, <1>5

\* A row is deleted.
LEMMA RowDeleted ==
    ASSUME RowsFit, FilledOnce, batch' = batch, NEW t \in Transactions, txn' = [txn EXCEPT ![t] = GoneRow]
    PROVE  RowsFit' /\ FilledOnce' /\ txn'[t].status # "LIVE" /\ \A s \in Transactions \ {t} : txn'[s] = txn[s]
<1>1. RowsFit' /\ txn'[t] = GoneRow /\ \A s \in Transactions \ {t} : txn'[s] = txn[s]
    BY RowGone, RowWritten
<1>2. FilledOnce'
    BY <1>1, RowGone DEF FilledOnce, Filled, Live
<1>. QED BY <1>1, <1>2, RowGone

\* A bill is unpaid.
LEMMA UnpayStep ==
    ASSUME RowsFit, BillsFit, FilledOnce, NEW b \in BillIds, Unpay(b)
    PROVE  RowsFit' /\ BillsFit' /\ FilledOnce'
<1>1. /\ bill' = [bill EXCEPT ![b] = OpenBill] /\ overtaken' = overtaken /\ batch' = batch
      /\ bill[b].transactionId # 0
    BY DEF Unpay
<1>2. PICK t \in Transactions : t = bill[b].transactionId /\ \A c \in BillIds \ {b} : bill[c].transactionId # t
    BY <1>1, SettledRow
<1>3. txn' = [txn EXCEPT ![t].pays = 0] \/ txn' = [txn EXCEPT ![t] = GoneRow]
    BY <1>2 DEF Unpay
<1>4. /\ RowsFit' /\ FilledOnce' /\ \A s \in Transactions \ {t} : txn'[s] = txn[s]
      /\ txn'[t].status # "LIVE" \/ txn'[t].pays = 0
    BY <1>1, <1>3, RowLetGo, RowDeleted
<1>5. bill \in [BillIds -> BillType] /\ OpenBill \in BillType /\ OpenBill.transactionId = 0
    BY BillFields, OpenFits
<1>6. bill' \in [BillIds -> BillType] /\ bill'[b] = OpenBill /\ \A c \in BillIds \ {b} : bill'[c] = bill[c]
    BY <1>1, <1>5
<1>7. BillsFit'
    BY <1>1, <1>2, <1>4, <1>5, <1>6, BillsReleased
<1>. QED BY <1>4, <1>7

\* A row is deleted, with what was found of it.
LEMMA DeleteStep ==
    ASSUME RowsFit, BillsFit, FilledOnce, RequestsFit, NEW r \in Requests, DeleteCommit(r)
    PROVE  RowsFit' /\ BillsFit' /\ FilledOnce' /\ overtaken' \subseteq BillIds
<1>1. PICK t \in Transactions, found \in SUBSET BillIds : t = request[r].tx /\ found = request[r].found
    BY DEF DeleteCommit, RequestsFit, RequestFits, RequestType
<1>2. CASE UNCHANGED <<txn, bill, overtaken>>
    BY <1>2 DEF DeleteCommit, RowsFit, BillsFit, FilledOnce, Filled, Live, RequestsFit
<1>3. CASE /\ txn' = [txn EXCEPT ![t] = GoneRow] /\ bill' = BillsWithout(t, found)
           /\ overtaken' = overtaken \cup (found \ BillOf(t)) \cup (BillOf(t) \ found)
    <2>1. batch' = batch
        BY DEF DeleteCommit
    <2>2. RowsFit' /\ FilledOnce' /\ txn'[t].status # "LIVE" /\ \A s \in Transactions \ {t} : txn'[s] = txn[s]
        BY <1>3, <2>1, RowDeleted
    <2>3. bill \in [BillIds -> BillType] /\ OpenBill \in BillType /\ OpenBill.transactionId = 0
        BY BillFields, OpenFits
    <2>4. \A b \in BillIds : bill'[b] = IF b \in found THEN OpenBill
                                       ELSE IF b \in BillOf(t) THEN [bill[b] EXCEPT !.transactionId = 0] ELSE bill[b]
        BY <1>3 DEF BillsWithout
    <2>5. ASSUME NEW b \in BillIds
          PROVE  [bill[b] EXCEPT !.transactionId = 0] \in BillType /\ [bill[b] EXCEPT !.transactionId = 0].transactionId = 0
        BY <2>3 DEF BillType
    <2>6. \A b \in BillIds : bill'[b] \in BillType
        BY <2>3, <2>4, <2>5
    <2>7. bill' \in [BillIds -> BillType]
        BY <1>3, <2>6 DEF BillsWithout
    <2>8. \A b \in BillIds : b \in BillOf(t) <=> bill[b].transactionId = t
        BY DEF BillOf
    <2>9. \A b \in BillIds : \/ bill'[b].transactionId = 0
                             \/ (bill'[b].transactionId = bill[b].transactionId /\ bill[b].transactionId # t)
        BY <2>3, <2>4, <2>5, <2>8
    <2>10. \A b \in BillIds \ overtaken' : \/ (bill'[b] = OpenBill /\ bill[b].transactionId = t)
                                           \/ (bill'[b] = bill[b] /\ bill[b].transactionId # t)
        BY <1>3, <2>4, <2>8
    <2>11. overtaken \subseteq overtaken' /\ overtaken' \subseteq BillIds
        BY <1>3 DEF BillOf, RequestsFit
    <2>12. BillsFit'
        BY <2>2, <2>7, <2>9, <2>10, <2>11, BillsReleased
    <2>. QED BY <2>2, <2>11, <2>12
<1>. QED BY <1>1, <1>2, <1>3 DEF DeleteCommit

\* A status is written without a look at the bill.
LEMMA StatusStep ==
    ASSUME RowsFit, BillsFit, FilledOnce, RequestsFit, NEW r \in Requests, CancelWrite(r) \/ ReopenWrite(r)
    PROVE  RowsFit' /\ BillsFit' /\ FilledOnce' /\ overtaken' \subseteq BillIds
<1>1. PICK expected \in {"PENDING", "CANCELED"}, status \in {"PENDING", "CANCELED"}, pc \in {"canceling", "reopening"} :
        StatusWrite(r, pc, expected, status)
    BY DEF CancelWrite, ReopenWrite
<1>2. PICK b \in BillIds : b = request[r].bill
    BY <1>1 DEF StatusWrite, RequestsFit, RequestFits
<1>3. /\ txn' = txn /\ batch' = batch /\ bill' = [bill EXCEPT ![b].status = status]
      /\ overtaken' = overtaken \cup (IF bill[b].status = expected THEN {} ELSE {b})
    BY <1>1, <1>2 DEF StatusWrite
<1>. DEFINE c == [bill[b] EXCEPT !.status = status]
<1>4. bill \in [BillIds -> BillType] /\ bill' = [bill EXCEPT ![b] = c]
    BY <1>3 DEF BillsFit
<1>5. c \in BillType /\ c.status = status /\ c.transactionId = bill[b].transactionId
    BY <1>4 DEF BillType
<1>. HIDE DEF c
<1>6. bill' \in [BillIds -> BillType] /\ bill'[b] = c /\ \A d \in BillIds \ {b} : bill'[d] = bill[d]
    BY <1>4, <1>5
<1>7. \A d \in BillIds : bill'[d].transactionId = bill[d].transactionId
    BY <1>5, <1>6
<1>8. SettledApart(bill)'
    BY <1>7 DEF BillsFit, SettledApart
<1>9. \A d \in BillIds \ overtaken' : bill'[d].status = "PAID" <=> bill'[d].transactionId # 0
    BY <1>3, <1>5, <1>6 DEF BillsFit
<1>10. BillsFit'
    BY <1>3, <1>6, <1>7, <1>8, <1>9 DEF BillsFit, Live
<1>11. overtaken' \subseteq BillIds
    BY <1>3 DEF RequestsFit
<1>. QED BY <1>3, <1>10, <1>11 DEF RowsFit, FilledOnce, Filled, Live

\* What the other pages do.
LEMMA RequestSteps ==
    ASSUME RowsFit, BillsFit, FilledOnce, RequestsFit, NEW r \in Requests, RequestStep(r)
    PROVE  RowsFit' /\ BillsFit' /\ FilledOnce' /\ overtaken' \subseteq BillIds
<1>1. CASE \E q : Reads(r, q)
    BY <1>1 DEF Reads, RowsFit, BillsFit, FilledOnce, Filled, Live, RequestsFit
<1>2. ASSUME ~\E q : Reads(r, q)
      PROVE  DeleteCommit(r) \/ CancelWrite(r) \/ ReopenWrite(r)
    BY <1>2, Zenon DEF RequestStep, DeleteFind, CancelRead, ReopenRead
<1>. QED BY <1>1, <1>2, DeleteStep, StatusStep

\* The requests of the other pages have read rows and bills of the tables.
LEMMA RequestsKept ==
    ASSUME RequestsFit, [ImportsNext]_importVars,
           \A r \in Requests : RequestStep(r) => overtaken' \subseteq BillIds
    PROVE  RequestsFit'
<1>1. RequestFits(IdleRequest)
    BY DEF RequestFits, RequestType, IdleRequest
<1>2. ASSUME NEW r \in Requests, NEW q, RequestFits(q), request' = [request EXCEPT ![r] = q], overtaken' \subseteq BillIds
      PROVE  RequestsFit'
    <2>1. request' = [x \in Requests |-> IF x = r THEN q ELSE request[x]]
        BY <1>2 DEF RequestsFit
    <2>2. request' = [x \in Requests |-> request'[x]] /\ \A x \in Requests : RequestFits(request'[x])
        BY <1>2, <2>1 DEF RequestsFit
    <2>. QED BY <1>2, <2>2 DEF RequestsFit
<1>3. ASSUME NEW r \in Requests, RequestStep(r)
      PROVE  RequestsFit'
    <2>1. CASE Ends(r)
        BY <1>1, <1>2, <1>3, <2>1 DEF Ends
    <2>2. ASSUME NEW t \in Transactions, DeleteFind(r, t)
          PROVE  RequestsFit'
        <3>. DEFINE q == [IdleRequest EXCEPT !.pc = "deleting", !.tx = t, !.found = BillOf(t)]
        <3>1. request' = [request EXCEPT ![r] = q]
            BY <2>2 DEF DeleteFind, Reads
        <3>2. RequestFits(q)
            BY DEF RequestFits, RequestType, IdleRequest, BillOf
        <3>. HIDE DEF q
        <3>. QED BY <1>2, <1>3, <3>1, <3>2
    <2>3. ASSUME NEW b \in BillIds, CancelRead(r, b) \/ ReopenRead(r, b)
          PROVE  RequestsFit'
        <3>1. PICK pc \in {"canceling", "reopening"} : request' = [request EXCEPT ![r] = [IdleRequest EXCEPT !.pc = pc, !.bill = b]]
            BY <2>3 DEF CancelRead, ReopenRead, Reads
        <3>. DEFINE q == [IdleRequest EXCEPT !.pc = pc, !.bill = b]
        <3>2. RequestFits(q)
            BY DEF RequestFits, RequestType, IdleRequest
        <3>3. request' = [request EXCEPT ![r] = q]
            BY <3>1
        <3>. HIDE DEF q
        <3>. QED BY <1>2, <1>3, <3>2, <3>3
    <2>. QED BY Zenon, <1>3, <2>1, <2>2, <2>3 DEF RequestStep, DeleteCommit, CancelWrite, ReopenWrite, StatusWrite
<1>4. CASE Restart
    <2>1. request' = [r \in Requests |-> IdleRequest] /\ overtaken' = overtaken
        BY <1>4 DEF Restart
    <2>. QED BY <1>1, <2>1 DEF RequestsFit
<1>5. CASE request' = request /\ overtaken' = overtaken
    BY <1>5 DEF RequestsFit
<1>6. ASSUME ~Restart, ~\E r \in Requests : RequestStep(r)
      PROVE  request' = request /\ overtaken' = overtaken
    BY <1>6, ImportsSteps, Zenon DEF Preview, Upload, ChooseImport, ConfirmRead, ClosePage, ConfirmLock, ConfirmCommit,
        ConfirmFails, DiscardRead, DiscardWrite, CreateManual, LinkBill, PayBill, Unpay, EditRow, SetMapping,
        RemoveMapping, Lookup, WriteLog, EmailBatch, importVars
<1>. QED BY <1>3, <1>4, <1>5, <1>6

-----------------------------------------------------------------------------
(* The confirmation *)

Creating(u) == UNION {Written(u, k) : k \in {"IMPORT", "PAY_BILL", "RECORD_TRANSFER"}}

\* The row of a line, as its decision makes it.
NewRow(u, i) ==
    CASE page[u].choice[i].action = "IMPORT" -> ImportedRow(u, i)
      [] page[u].choice[i].action = "PAY_BILL" -> PaymentRow(u, i)
      [] OTHER -> TransferRow(u, i)

LinkedRow(u, t, i) ==
    [txn[t] EXCEPT !.ext = i, !.importBatchId = page[u].batch, !.lines = @ \cup {i}]

\* A line that makes a row is one of three decisions.
LEMMA DecidedLines ==
    ASSUME NEW u, NEW i \in Creating(u)
    PROVE  /\ i \in LineIds /\ i \notin page[u].flags
           /\ \/ page[u].choice[i].action = "IMPORT" \/ page[u].choice[i].action = "PAY_BILL"
              \/ page[u].choice[i].action = "RECORD_TRANSFER"
BY DEF Creating, Written

\* What a confirmation makes of each row.
LEMMA RowAfter ==
    ASSUME NEW u, NEW id, DOMAIN id = Creating(u), NEW t \in Transactions
    PROVE  \/ /\ \E i \in Creating(u) : id[i] = t /\ AfterConfirm(u, id)[t] = NewRow(u, i)
           \/ /\ t \notin {id[i] : i \in Creating(u)}
              /\ \/ /\ AfterConfirm(u, id)[t] = GoneRow
                    /\ \E i \in Written(u, "RECORD_TRANSFER") : page[u].choice[i].tx = t /\ t # 0
                 \/ \E i \in Written(u, "LINK_TRANSACTION") :
                        page[u].choice[i].tx = t /\ AfterConfirm(u, id)[t] = LinkedRow(u, t, i)
                 \/ AfterConfirm(u, id)[t] = txn[t]
<1>. DEFINE c == page[u].choice
            created == {id[i] : i \in DOMAIN id}
            lineOf(s) == CHOOSE i \in DOMAIN id : id[i] = s
            links == Written(u, "LINK_TRANSACTION")
            linkOf(s) == CHOOSE j \in links : c[j].tx = s
            replaced == {c[i].tx : i \in Written(u, "RECORD_TRANSFER")} \ {0}
            r == AfterConfirm(u, id)[t]
<1>1. r = IF t \in created
            THEN NewRow(u, lineOf(t))
            ELSE IF t \in replaced THEN GoneRow
            ELSE IF \E i \in links : c[i].tx = t THEN LinkedRow(u, t, linkOf(t))
            ELSE txn[t]
    BY DEF AfterConfirm, NewRow, LinkedRow, GoneRow
<1>2. CASE t \in created
    <2>1. lineOf(t) \in Creating(u) /\ id[lineOf(t)] = t
        BY <1>2
    <2>. QED BY <1>1, <1>2, <2>1
<1>3. CASE t \notin created /\ t \in replaced
    BY <1>1, <1>3
<1>4. CASE t \notin created /\ t \notin replaced /\ \E i \in links : c[i].tx = t
    <2>1. linkOf(t) \in links /\ c[linkOf(t)].tx = t
        BY <1>4
    <2>. QED BY <1>1, <1>4, <2>1
<1>5. CASE t \notin created /\ t \notin replaced /\ ~\E i \in links : c[i].tx = t
    BY <1>1, <1>5
<1>. QED BY <1>2, <1>3, <1>4, <1>5

\* A confirmation gives every row a value.
LEMMA AfterConfirmMaps ==
    ASSUME NEW u, NEW id
    PROVE  AfterConfirm(u, id) = [t \in Transactions |-> AfterConfirm(u, id)[t]]
<1>. DEFINE c == page[u].choice
            created == {id[i] : i \in DOMAIN id}
            lineOf(t) == CHOOSE i \in DOMAIN id : id[i] = t
            links == Written(u, "LINK_TRANSACTION")
            linkOf(t) == CHOOSE j \in links : c[j].tx = t
            replaced == {c[i].tx : i \in Written(u, "RECORD_TRANSFER")} \ {0}
            R(t) == IF t \in created THEN NewRow(u, lineOf(t))
                    ELSE IF t \in replaced THEN GoneRow
                    ELSE IF \E i \in links : c[i].tx = t THEN LinkedRow(u, t, linkOf(t)) ELSE txn[t]
<1>1. AfterConfirm(u, id) = [t \in Transactions |-> R(t)]
    BY DEF AfterConfirm, NewRow, LinkedRow, GoneRow
<1>. HIDE DEF R
<1>. QED BY <1>1

\* A row that comes from a line.
LEMMA RowFromLine ==
    ASSUME NEW d, NEW i \in LineIds, NEW copy, NEW b \in Batches
    PROVE  LET r == FromLine(d, i, copy, b) IN
           /\ DOMAIN r = RowFields /\ r.status = "LIVE" /\ r.type = d.type /\ r.accountId = d.accountId
           /\ r.fromAccountId = d.fromAccountId /\ r.toAccountId = d.toAccountId /\ r.ext = i
           /\ r.importBatchId = b /\ r.lines = {i} /\ r.pays = 0 /\ r.day = d.day
<1>. PICK x : x = Row(d)
    OBVIOUS
<1>. QED BY RowMade DEF FromLine, RowFields

\* The day of a line is a day.
LEMMA DayOfLine == ASSUME NEW i \in LineIds PROVE LineOf(i).day \in Int
<1>1. LineOf(i) \in Lines \cup OtherStatement
    BY DEF LineOf, LineIds
<1>. QED BY <1>1, ImportAssumption

\* The row of an imported line.
LEMMA ImportedFits ==
    ASSUME NEW u \in Pages, NEW i \in LineIds, page[u].batch \in Batches
    PROVE  LET r == ImportedRow(u, i) IN
           RowFits(r) /\ r.status = "LIVE" /\ r.importBatchId = page[u].batch /\ r.lines = {i} /\ r.pays = 0
<1>. DEFINE d == OneSided(LineOf(i), page[u].account)
            r == ImportedRow(u, i)
<1>1. d.fromAccountId = NoAccount /\ d.toAccountId = NoAccount /\ d.day \in Int
    BY DayOfLine DEF OneSided
<1>2. PICK copy : r = FromLine(d, i, copy, page[u].batch)
    BY DEF ImportedRow
<1>. HIDE DEF d
<1>3. /\ DOMAIN r = RowFields /\ r.status = "LIVE" /\ r.fromAccountId = NoAccount /\ r.toAccountId = NoAccount
      /\ r.ext = i /\ r.importBatchId = page[u].batch /\ r.lines = {i} /\ r.pays = 0 /\ r.day \in Int
    BY <1>1, <1>2, RowFromLine
<1>. HIDE DEF r
<1>. QED BY <1>3 DEF RowFits, BatchRef, r

\* The row of a line that pays a bill.
LEMMA PaymentFits ==
    ASSUME NEW u \in Pages, NEW i \in LineIds, page[u].batch \in Batches
    PROVE  LET r == PaymentRow(u, i) IN
           /\ RowFits(r) /\ r.status = "LIVE" /\ r.importBatchId = page[u].batch /\ r.lines = {i}
           /\ r.pays = page[u].choice[i].bill
<1>. DEFINE b == page[u].choice[i].bill
            a == page[u].account
            to == Bills[b].targetAccountId
            d == IF to = NoAccount THEN OneSided(LineOf(i), a) ELSE Moving(LineOf(i), a, to)
            e == [d EXCEPT !.text = Bills[b].text]
            p == FromLine(e, i, FALSE, page[u].batch)
            r == PaymentRow(u, i)
<1>1. r = [p EXCEPT !.pays = b]
    BY DEF PaymentRow
<1>2. (d.type # "TRANSFER" => d.fromAccountId = NoAccount /\ d.toAccountId = NoAccount) /\ d.day \in Int
    BY DayOfLine DEF OneSided, Moving
<1>3. e.type = d.type /\ e.fromAccountId = d.fromAccountId /\ e.toAccountId = d.toAccountId /\ e.day = d.day
    BY DEF OneSided, Moving
<1>. HIDE DEF d, e
<1>4. /\ DOMAIN p = RowFields /\ p.status = "LIVE" /\ p.type = e.type /\ p.fromAccountId = e.fromAccountId
      /\ p.toAccountId = e.toAccountId /\ p.ext = i /\ p.importBatchId = page[u].batch /\ p.lines = {i} /\ p.day = e.day
    <2>1. PICK x : x = Row(e)
        OBVIOUS
    <2>2. PICK batchId : batchId = page[u].batch
        OBVIOUS
    <2>3. p = [x EXCEPT !.ext = i, !.copy = FALSE, !.importBatchId = batchId, !.lines = {i}]
        BY <2>1, <2>2 DEF FromLine
    <2>4. /\ DOMAIN x = RowFields /\ x.status = "LIVE" /\ x.type = e.type /\ x.fromAccountId = e.fromAccountId
          /\ x.toAccountId = e.toAccountId /\ x.day = e.day
        BY <2>1, RowMade
    <2>. HIDE DEF p
    <2>. QED BY <2>2, <2>3, <2>4 DEF RowFields
<1>. HIDE DEF p, b
<1>5. /\ DOMAIN r = RowFields /\ r.status = "LIVE" /\ r.type = p.type /\ r.fromAccountId = p.fromAccountId
      /\ r.toAccountId = p.toAccountId /\ r.ext = i /\ r.importBatchId = page[u].batch /\ r.lines = {i} /\ r.pays = b
      /\ r.day = p.day
    BY <1>1, <1>4 DEF RowFields
<1>. HIDE DEF r
<1>6. RowFits(r)
    BY <1>2, <1>3, <1>4, <1>5 DEF RowFits, BatchRef
<1>. QED BY <1>5, <1>6 DEF r, b

\* A transfer takes over the row of its other side, when it is there.
LEMMA TransferFits ==
    ASSUME RowsFit, NEW u \in Pages, NEW i \in LineIds, page[u].batch \in Batches,
           page[u].choice[i].tx # 0 => page[u].choice[i].tx \in Transactions
    PROVE  LET r == TransferRow(u, i)
               tx == page[u].choice[i].tx IN
           /\ RowFits(r) /\ r.status = "LIVE" /\ r.pays = 0
           /\ r.importBatchId = page[u].batch \/ (tx # 0 /\ r.importBatchId = txn[tx].importBatchId)
           /\ r.lines = {i} \cup (IF tx = 0 THEN {} ELSE txn[tx].lines)
<1>. DEFINE tx == page[u].choice[i].tx
            a == page[u].account
            moved == IF LineOf(i).out THEN Moving(LineOf(i), a, page[u].choice[i].other)
                     ELSE Moving(LineOf(i), page[u].choice[i].other, a)
            p == FromLine(moved, i, FALSE, page[u].batch)
            r == TransferRow(u, i)
<1>1. moved.type = "TRANSFER" /\ moved.day \in Int
    BY DayOfLine DEF Moving
<1>2. r = IF tx = 0 THEN p
          ELSE [p EXCEPT !.day = txn[tx].day, !.text = txn[tx].text,
                         !.ext = IF txn[tx].ext = NoLine THEN @ ELSE txn[tx].ext,
                         !.copy = txn[tx].copy,
                         !.importBatchId = IF txn[tx].importBatchId = NoBatch THEN @ ELSE txn[tx].importBatchId,
                         !.lines = @ \cup txn[tx].lines]
    BY DEF TransferRow
<1>. HIDE DEF moved
<1>3. /\ DOMAIN p = RowFields /\ p.status = "LIVE" /\ p.type = "TRANSFER" /\ p.ext = i
      /\ p.importBatchId = page[u].batch /\ p.lines = {i} /\ p.pays = 0 /\ p.day \in Int
    <2>1. PICK copy : p = FromLine(moved, i, copy, page[u].batch)
        BY Zenon
    <2>. HIDE DEF p
    <2>. QED BY <1>1, <2>1, RowFromLine
<1>. HIDE DEF p, r
<1>4. CASE tx = 0
    BY <1>2, <1>3, <1>4 DEF RowFits, BatchRef, r
<1>5. CASE tx # 0
    <2>1. PICK old : old = txn[tx] /\ RowFits(old)
        BY <1>5 DEF RowsFit
    <2>. DEFINE ext == IF old.ext = NoLine THEN p.ext ELSE old.ext
                b == IF old.importBatchId = NoBatch THEN p.importBatchId ELSE old.importBatchId
                q == [p EXCEPT !.day = old.day, !.text = old.text, !.ext = ext, !.copy = old.copy,
                               !.importBatchId = b, !.lines = {i} \cup old.lines]
    <2>2. r = q
        BY <1>2, <1>3, <1>5, <2>1
    <2>3. /\ DOMAIN q = RowFields /\ q.status = "LIVE" /\ q.type = "TRANSFER" /\ q.ext = ext
          /\ q.importBatchId = b /\ q.lines = {i} \cup old.lines /\ q.pays = 0 /\ q.day = old.day
        BY <1>3 DEF RowFields
    <2>. HIDE DEF q
    <2>4. RowFits(q)
        BY <1>3, <2>1, <2>3 DEF RowFits, BatchRef
    <2>. QED BY <1>3, <1>5, <2>1, <2>2, <2>3, <2>4 DEF r
<1>. QED BY <1>4, <1>5

\* A row that is linked keeps what it was.
LEMMA LinkedFits ==
    ASSUME RowsFit, NEW u \in Pages, NEW t \in Transactions, NEW i \in LineIds, page[u].batch \in Batches
    PROVE  LET r == LinkedRow(u, t, i) IN
           /\ RowFits(r) /\ r.status = txn[t].status /\ r.pays = txn[t].pays /\ r.importBatchId = page[u].batch
           /\ r.lines = txn[t].lines \cup {i} /\ r.accountId = txn[t].accountId
           /\ r.fromAccountId = txn[t].fromAccountId /\ r.toAccountId = txn[t].toAccountId
<1>. DEFINE r == LinkedRow(u, t, i)
<1>1. PICK old : old = txn[t] /\ RowFits(old)
    BY DEF RowsFit
<1>2. r = [old EXCEPT !.ext = i, !.importBatchId = page[u].batch, !.lines = old.lines \cup {i}]
    BY <1>1 DEF LinkedRow
<1>3. /\ DOMAIN r = RowFields /\ r.status = old.status /\ r.pays = old.pays /\ r.importBatchId = page[u].batch
      /\ r.lines = old.lines \cup {i} /\ r.accountId = old.accountId /\ r.type = old.type /\ r.ext = i
      /\ r.fromAccountId = old.fromAccountId /\ r.toAccountId = old.toAccountId /\ r.day = old.day
    BY <1>1, <1>2 DEF RowFits, RowFields
<1>. HIDE DEF r
<1>4. RowFits(r)
    BY <1>1, <1>3 DEF RowFits, BatchRef
<1>. QED BY <1>1, <1>3, <1>4 DEF r

\* What confirm asked of the lines it writes.
LEMMA AcceptedLines ==
    ASSUME NEW u, Accepts(LineIds \ page[u].flags, page[u].choice)
    PROVE  /\ \A i \in Written(u, "RECORD_TRANSFER") : page[u].choice[i].tx # 0 =>
                 /\ page[u].choice[i].tx \in Transactions /\ Live(page[u].choice[i].tx)
                 /\ BillOf(page[u].choice[i].tx) = {} /\ txn[page[u].choice[i].tx].accountId = page[u].choice[i].other
                 /\ txn[page[u].choice[i].tx].type # "TRANSFER"
           /\ \A i \in Written(u, "PAY_BILL") :
                 /\ page[u].choice[i].bill \in BillIds /\ bill[page[u].choice[i].bill].status = "PENDING"
                 /\ \A j \in Written(u, "PAY_BILL") :
                       i # j => page[u].choice[i].bill = 0 \/ page[u].choice[i].bill # page[u].choice[j].bill
<1>. DEFINE c == page[u].choice
            ids == LineIds \ page[u].flags
<1>1. \A i \in ids : Replaceable(i, c) /\ Payable(i, c)
    BY DEF Accepts
<1>2. \A i, j \in ids : (i # j /\ c[i].action = c[j].action) => (c[i].bill # 0 => c[i].bill # c[j].bill)
    BY DEF Accepts
<1>3. \A k : \A i \in Written(u, k) : i \in ids /\ c[i].action = k
    BY DEF Written
<1>. HIDE DEF ids, c
<1>4. \A i \in Written(u, "RECORD_TRANSFER") : c[i].tx # 0 =>
         /\ c[i].tx \in Transactions /\ Live(c[i].tx) /\ BillOf(c[i].tx) = {} /\ txn[c[i].tx].accountId = c[i].other
         /\ txn[c[i].tx].type # "TRANSFER"
    BY <1>1, <1>3 DEF Replaceable
<1>5. \A i \in Written(u, "PAY_BILL") :
         /\ c[i].bill \in BillIds /\ bill[c[i].bill].status = "PENDING"
         /\ \A j \in Written(u, "PAY_BILL") : i # j => c[i].bill = 0 \/ c[i].bill # c[j].bill
    BY <1>1, <1>2, <1>3 DEF Payable
<1>. QED BY <1>4, <1>5 DEF c

\* Every row a confirmation creates fits, and says which bill, batch and lines it is for.
LEMMA NewRowFits ==
    ASSUME RowsFit, NEW u \in Pages, page[u].batch \in Batches, Accepts(LineIds \ page[u].flags, page[u].choice),
           NEW i \in Creating(u)
    PROVE  LET r == NewRow(u, i)
               tx == page[u].choice[i].tx IN
           /\ RowFits(r) /\ r.status = "LIVE" /\ i \in r.lines
           /\ r.pays = 0 \/ (i \in Written(u, "PAY_BILL") /\ r.pays = page[u].choice[i].bill)
           /\ \/ r.importBatchId = page[u].batch
              \/ \E s \in Transactions : Live(s) /\ r.importBatchId = txn[s].importBatchId
           /\ \/ r.lines = {i}
              \/ i \in Written(u, "RECORD_TRANSFER") /\ tx \in Transactions /\ tx # 0 /\ r.lines = {i} \cup txn[tx].lines
<1>. DEFINE r == NewRow(u, i)
            tx == page[u].choice[i].tx
<1>1. i \in LineIds /\ i \notin page[u].flags
    BY DecidedLines
<1>2. CASE page[u].choice[i].action = "IMPORT"
    <2>1. r = ImportedRow(u, i)
        BY <1>2 DEF NewRow
    <2>. QED BY <1>1, <2>1, ImportedFits
<1>3. CASE page[u].choice[i].action = "PAY_BILL"
    <2>1. r = PaymentRow(u, i)
        BY <1>3 DEF NewRow
    <2>2. i \in Written(u, "PAY_BILL")
        BY <1>1, <1>3 DEF Written
    <2>. QED BY <1>1, <2>1, <2>2, PaymentFits
<1>4. CASE page[u].choice[i].action = "RECORD_TRANSFER"
    <2>1. r = TransferRow(u, i)
        BY <1>4 DEF NewRow
    <2>2. i \in Written(u, "RECORD_TRANSFER")
        BY <1>1, <1>4 DEF Written
    <2>3. tx # 0 => tx \in Transactions /\ Live(tx)
        BY <2>2, AcceptedLines
    <2>4. /\ RowFits(r) /\ r.status = "LIVE" /\ r.pays = 0
          /\ r.importBatchId = page[u].batch \/ (tx # 0 /\ r.importBatchId = txn[tx].importBatchId)
          /\ r.lines = {i} \cup (IF tx = 0 THEN {} ELSE txn[tx].lines)
        BY <1>1, <2>1, <2>3, TransferFits
    <2>. HIDE DEF r
    <2>5. r.importBatchId = page[u].batch \/ \E s \in Transactions : Live(s) /\ r.importBatchId = txn[s].importBatchId
        BY <2>3, <2>4
    <2>6. r.lines = {i} \/ (tx # 0 /\ r.lines = {i} \cup txn[tx].lines)
        BY <2>4
    <2>. QED BY <2>2, <2>3, <2>4, <2>5, <2>6 DEF r
<1>. QED BY <1>2, <1>3, <1>4, DecidedLines

\* A confirmation keeps what is known of the rows and the bills.
LEMMA CommitSteps ==
    ASSUME RowsFit, BillsFit, FilledOnce, NEW u \in Pages, NEW b \in Batches, page[u].batch = b, ConfirmCommit(u),
           \A d \in Batches : Filled(d) => Filled(d)', Filled(b)'
    PROVE  RowsFit' /\ BillsFit' /\ FilledOnce'
<1>. DEFINE c == page[u].choice
            pays == Written(u, "PAY_BILL")
            paid == {c[i].bill : i \in pays}
<1>1. Accepts(LineIds \ page[u].flags, page[u].choice)
    BY Zenon DEF ConfirmCommit
<1>2. PICK id : /\ id = NewIds(u) /\ txn' = AfterConfirm(u, id) /\ \A i \in DOMAIN id : id[i] \in Transactions
                /\ bill' = [k \in BillIds |-> IF k \in paid
                                              THEN Paid(id[CHOOSE i \in pays : c[i].bill = k], "LINKED")
                                              ELSE bill[k]]
                /\ SettledApart(bill') /\ overtaken' = overtaken
    BY Zenon DEF ConfirmCommit
<1>3. DOMAIN id = Creating(u) /\ pays \subseteq Creating(u)
    BY <1>2 DEF NewIds, Creating
<1>4. \A i \in pays : id[i] \in Transactions
    BY <1>2, <1>3
\* What the new value of each row is.
<1>5. ASSUME NEW t \in Transactions
      PROVE  \/ /\ \E i \in Creating(u) : id[i] = t /\ txn'[t] = NewRow(u, i)
             \/ /\ t \notin {id[i] : i \in Creating(u)}
                /\ \/ /\ txn'[t] = GoneRow
                      /\ \E i \in Written(u, "RECORD_TRANSFER") : c[i].tx = t /\ t # 0
                   \/ \E i \in Written(u, "LINK_TRANSACTION") : c[i].tx = t /\ txn'[t] = LinkedRow(u, t, i)
                   \/ txn'[t] = txn[t]
    BY <1>2, <1>3, RowAfter
<1>6. \A i \in Written(u, "LINK_TRANSACTION") : i \in LineIds
    BY DEF Written
<1>7. RowsFit'
    <2>1. ASSUME NEW t \in Transactions
          PROVE  RowFits(txn'[t])
        <3>1. CASE \E i \in Creating(u) : id[i] = t /\ txn'[t] = NewRow(u, i)
            BY <1>1, <3>1, NewRowFits
        <3>2. CASE \E i \in Written(u, "LINK_TRANSACTION") : txn'[t] = LinkedRow(u, t, i)
            BY <1>6, <3>2, LinkedFits
        <3>3. CASE txn'[t] = GoneRow \/ txn'[t] = txn[t]
            BY <3>3, RowGone DEF RowsFit
        <3>. QED BY <1>5, <3>1, <3>2, <3>3
    <2>2. txn' = [t \in Transactions |-> txn'[t]]
        BY <1>2, AfterConfirmMaps
    <2>. QED BY <2>1, <2>2 DEF RowsFit
\* The row of each bill that is paid.
<1>8. \A i \in pays : /\ c[i].bill \in BillIds /\ bill[c[i].bill].status = "PENDING" /\ bill'[c[i].bill].status = "PAID"
                      /\ bill'[c[i].bill] = Paid(id[i], "LINKED") /\ bill'[c[i].bill].transactionId = id[i]
    <2>1. TAKE i \in pays
    <2>2. c[i].bill \in BillIds /\ bill[c[i].bill].status = "PENDING" /\ c[i].bill # 0
        BY <1>1, AcceptedLines, Named
    <2>3. \A j \in pays : c[j].bill = c[i].bill => j = i
        BY <1>1, <2>2, AcceptedLines
    <2>4. (CHOOSE j \in pays : c[j].bill = c[i].bill) = i
        BY <2>3
    <2>5. bill'[c[i].bill] = Paid(id[i], "LINKED")
        BY <1>2, <2>2, <2>4
    <2>. QED BY <2>2, <2>5 DEF Paid
<1>9. \A k \in BillIds : k \notin paid => bill'[k] = bill[k]
    BY <1>2
\* A row that paid a bill is the one it is settled with, and the bill is not pending.
<1>10. \A k \in BillIds \ overtaken, t \in Transactions :
            txn[t].status = "LIVE" /\ txn[t].pays = k => bill'[k] = bill[k] /\ bill[k].transactionId = t
    <2>1. TAKE k \in BillIds \ overtaken, t \in Transactions
    <2>2. HAVE txn[t].status = "LIVE" /\ txn[t].pays = k
    <2>3. bill[k].transactionId = t /\ bill[k].status = "PAID"
        BY <2>2, RowsNumbered DEF BillsFit, Live
    <2>4. k \notin paid
        BY <1>8, <2>3
    <2>. QED BY <1>9, <2>3, <2>4
<1>11. BillsFit'
    <2>1. bill' \in [BillIds -> BillType]
        <3>1. \A k \in paid : bill'[k] \in BillType
            <4>1. TAKE k \in paid
            <4>2. PICK i \in pays : k = c[i].bill /\ k \in BillIds
                BY <1>8
            <4>3. bill'[k] = Paid(id[i], "LINKED") /\ id[i] \in Transactions
                BY <1>4, <1>8, <4>2
            <4>. QED BY <4>3, PaidFits
        <3>2. \A k \in BillIds : bill'[k] \in BillType
            BY <1>9, <3>1 DEF BillsFit
        <3>. QED BY <1>2, <3>2
    <2>2. ASSUME NEW t \in Transactions, NEW k \in BillIds \ overtaken, txn'[t].status = "LIVE", txn'[t].pays = k
          PROVE  bill'[k].transactionId = t
        <3>1. CASE \E i \in Creating(u) : id[i] = t /\ txn'[t] = NewRow(u, i)
            <4>1. PICK i \in Creating(u) : id[i] = t /\ txn'[t] = NewRow(u, i)
                BY <3>1
            <4>2. txn'[t].pays = 0 \/ (i \in pays /\ txn'[t].pays = c[i].bill)
                BY <1>1, <4>1, NewRowFits
            <4>3. i \in pays /\ k = c[i].bill
                BY <2>2, <4>2, Named
            <4>. QED BY <1>8, <4>1, <4>3
        <3>2. CASE \E i \in Written(u, "LINK_TRANSACTION") : txn'[t] = LinkedRow(u, t, i)
            <4>1. txn[t].status = "LIVE" /\ txn[t].pays = k
                BY <1>6, <2>2, <3>2, LinkedFits
            <4>. QED BY <1>10, <4>1
        <3>3. CASE txn'[t] = GoneRow \/ txn'[t] = txn[t]
            BY <1>10, <2>2, <3>3, RowGone
        <3>. QED BY <1>5, <3>1, <3>2, <3>3
    <2>3. ASSUME NEW k \in BillIds, bill'[k].transactionId # 0
          PROVE  txn'[bill'[k].transactionId].status = "LIVE"
        <3>1. CASE k \in paid
            <4>1. PICK i \in Creating(u) : bill'[k].transactionId = id[i] /\ id[i] \in Transactions
                <5>1. PICK i \in pays : k = c[i].bill
                    BY <3>1
                <5>2. bill'[k].transactionId = id[i]
                    BY <1>8, <5>1
                <5>. QED BY <1>2, <1>3, <5>2
            <4>2. \E j \in Creating(u) : txn'[id[i]] = NewRow(u, j)
                BY <1>5, <4>1
            <4>. QED BY <1>1, <4>1, <4>2, NewRowFits
        <3>2. CASE k \notin paid
            <4>1. PICK t \in Transactions : t = bill[k].transactionId /\ Live(t) /\ bill'[k] = bill[k]
                BY <1>9, <2>3, <3>2, SettledRow
            <4>2. k \in BillOf(t)
                BY <4>1 DEF BillOf
            <4>3. ~\E i \in Written(u, "RECORD_TRANSFER") : c[i].tx = t /\ t # 0
                BY <1>1, <4>2, AcceptedLines
            <4>4. CASE \E i \in Creating(u) : id[i] = t /\ txn'[t] = NewRow(u, i)
                BY <1>1, <4>1, <4>4, NewRowFits
            <4>5. CASE \E i \in Written(u, "LINK_TRANSACTION") : txn'[t] = LinkedRow(u, t, i)
                BY <1>6, <4>1, <4>5, LinkedFits DEF Live
            <4>. QED BY <1>5, <4>1, <4>3, <4>4, <4>5 DEF Live
        <3>. QED BY <3>1, <3>2
    <2>4. \A k \in BillIds \ overtaken : bill'[k].status = "PAID" <=> bill'[k].transactionId # 0
        <3>1. TAKE k \in BillIds \ overtaken
        <3>2. CASE k \in paid
            <4>1. PICK i \in pays : k = c[i].bill
                BY <3>2
            <4>2. bill'[k].status = "PAID" /\ bill'[k].transactionId = id[i] /\ id[i] \in Transactions
                BY <1>4, <1>8, <4>1 DEF Paid
            <4>. QED BY <4>2, RowsNumbered
        <3>3. CASE k \notin paid
            BY <1>9, <3>3 DEF BillsFit
        <3>. QED BY <3>2, <3>3
    <2>5. SettledApart(bill)' /\ overtaken' = overtaken
        BY <1>2 DEF SettledApart
    <2>. QED BY <2>1, <2>2, <2>3, <2>4, <2>5 DEF BillsFit, Live
<1>12. FilledOnce'
    <2>. SUFFICES ASSUME NEW d \in Batches, NEW t \in Transactions, Live(t)', txn'[t].importBatchId = d
                  PROVE  Filled(d)'
        BY DEF FilledOnce
    <2>1. \A s \in Transactions : Live(s) /\ txn[s].importBatchId = d => Filled(d)'
        BY DEF FilledOnce
    <2>2. CASE \E i \in Creating(u) : txn'[t] = NewRow(u, i)
        <3>1. PICK i \in Creating(u) : txn'[t] = NewRow(u, i)
            BY <2>2
        <3>2. d = page[u].batch \/ \E s \in Transactions : Live(s) /\ d = txn[s].importBatchId
            BY <1>1, <3>1, NewRowFits
        <3>3. CASE d = b
            BY <3>3 DEF Filled
        <3>. QED BY <2>1, <3>2, <3>3
    <2>3. CASE \E i \in Written(u, "LINK_TRANSACTION") : txn'[t] = LinkedRow(u, t, i)
        <3>1. d = b
            BY <1>6, <2>3, LinkedFits
        <3>. QED BY <3>1 DEF Filled
    <2>4. CASE txn'[t] = GoneRow \/ txn'[t] = txn[t]
        BY <2>1, <2>4, RowGone DEF Live
    <2>. QED BY <1>5, <2>2, <2>3, <2>4
<1>. QED BY <1>7, <1>11, <1>12

-----------------------------------------------------------------------------
(* The invariant *)

\* The tables are empty.
LEMMA ImportsInitInv == ImportsInit => ImportsInv
<1>. SUFFICES ASSUME ImportsInit
              PROVE  ImportsInv
    OBVIOUS
<1>1. RowsFit
    <2>1. RowFits(Unused)
        BY DEF RowFits, Unused, RowFields, BatchRef
    <2>. QED BY <2>1 DEF ImportsInit, RowsFit
<1>2. ~\E t \in Transactions : Live(t)
    BY DEF ImportsInit, Live, Unused
<1>3. PagesFit
    BY ClosedFits DEF ImportsInit, PagesFit
<1>4. BatchesFit
    BY DEF ImportsInit, BatchesFit, Open, AccountRef
<1>5. BillsFit
    BY <1>2 DEF ImportsInit, BillsFit, BillType, OpenBill, SettledApart
<1>6. FilledOnce
    BY <1>2 DEF FilledOnce
<1>7. OthersFit
    BY ImportAssumption DEF ImportsInit, OthersFit, AccountRef, BatchRef
<1>8. RequestsFit
    BY DEF ImportsInit, RequestsFit, RequestFits, RequestType, IdleRequest
<1>. QED BY <1>1, <1>3, <1>4, <1>5, <1>6, <1>7, <1>8 DEF ImportsInv

\* The rows and the bills stay as they are.
LEMMA RowsKept ==
    ASSUME RowsFit, BillsFit, FilledOnce, txn' = txn, bill' = bill, overtaken' = overtaken, \A b \in Batches : Filled(b) => Filled(b)'
    PROVE  RowsFit' /\ BillsFit' /\ FilledOnce'
<1>1. RowsFit' /\ BillsFit'
    BY DEF RowsFit, BillsFit, Live
<1>2. FilledOnce'
    BY DEF FilledOnce, Live
<1>. QED BY <1>1, <1>2

\* Every step keeps the invariant.
LEMMA ImportsNextInv == ImportsInv /\ [ImportsNext]_importVars => ImportsInv'
<1>. SUFFICES ASSUME ImportsInv, [ImportsNext]_importVars
              PROVE  ImportsInv'
    OBVIOUS
<1>1. RowsFit /\ PagesFit /\ BatchesFit /\ BillsFit /\ FilledOnce /\ OthersFit /\ RequestsFit
    BY DEF ImportsInv
<1>2. BatchesFit' /\ OthersFit' /\ \A b \in Batches : Filled(b) => Filled(b)'
    BY <1>1, BatchSteps, OtherSteps
<1>3. PagesFit'
    <2>1. ASSUME NEW u \in Pages, PageStep(u)
          PROVE  PagesFit'
        BY <1>1, <2>1, PageSteps
    <2>2. CASE Restart
        BY <1>1, <2>2, RestartPages
    <2>3. CASE page' = page
        BY <1>1, <2>3 DEF PagesFit
    <2>5. ASSUME NEW r \in Requests, RequestStep(r)
          PROVE  PagesFit'
        BY <2>3, <2>5, RequestAside
    <2>4. CASE \/ ImportsIdle \/ LedgerStep \/ (\E a \in StatementAccounts : SetMapping(a)) \/ RemoveMapping
               \/ (\E d \in Deliveries : DeliveryStep(d)) \/ UNCHANGED importVars
        <3>1. page' = page
            BY <2>4, Zenon DEF ImportsIdle, LedgerStep, CreateManual, LinkBill, PayBill, Unpay, EditRow, SetMapping,
                RemoveMapping, DeliveryStep, Lookup, WriteLog, EmailBatch, importVars
        <3>. QED BY <2>3, <3>1
    <2>. QED BY Zenon, <2>1, <2>2, <2>4, <2>5 DEF ImportsNext
<1>4. RowsFit' /\ BillsFit' /\ FilledOnce'
    <2>1. CASE \E t \in Transactions : \/ \E d \in Manual : CreateManual(t, d)
                                       \/ \E b \in BillIds : LinkBill(b, t) \/ \E a \in Accounts : PayBill(b, t, a)
                                       \/ EditRow(t)
        <3>1. batch' = batch
            BY <2>1, Zenon DEF CreateManual, LinkBill, PayBill, EditRow
        <3>. QED BY <1>1, <2>1, <3>1, LedgerSteps
    <2>2. ASSUME NEW u \in Pages, ConfirmCommit(u)
          PROVE  RowsFit' /\ BillsFit' /\ FilledOnce'
        <3>1. PICK b \in Batches, a \in AccountRef : b = page[u].batch /\ a = page[u].account
            BY <1>1, <2>2 DEF ConfirmCommit, PagesFit, PageFits
        <3>2. batch' = Closed(b, "CONFIRMED", a) /\ cache' = [cache EXCEPT ![b] = NoPreview]
            BY <2>2, <3>1 DEF ConfirmCommit
        <3>3. Filled(b)'
            BY <1>1, <3>2, BatchClosed
        <3>. QED BY <1>1, <1>2, <2>2, <3>1, <3>3, CommitSteps
    <2>3. CASE txn' = txn /\ bill' = bill /\ overtaken' = overtaken
        BY <1>1, <1>2, <2>3, RowsKept
    <2>4. CASE \/ \E u \in Pages, b \in Batches : Preview(u, b) \/ \E a \in StatementAccounts : Upload(u, b, a)
               \/ \E u \in Pages : \/ \E i \in LineIds : ChooseImport(u, i)
                                   \/ \E a \in StatementAccounts : ConfirmRead(u, a)
                                   \/ ClosePage(u) \/ ConfirmLock(u) \/ ConfirmFails(u)
                                   \/ DiscardRead(u) \/ DiscardWrite(u)
               \/ (\E a \in StatementAccounts : SetMapping(a)) \/ RemoveMapping
               \/ \E d \in Deliveries : Lookup(d) \/ WriteLog(d) \/ \E b \in Batches : EmailBatch(d, b)
               \/ Restart \/ UNCHANGED importVars
        <3>1. txn' = txn /\ bill' = bill /\ overtaken' = overtaken
            BY <2>4, Zenon DEF Preview, Upload, ChooseImport, ConfirmRead, ClosePage, ConfirmLock, ConfirmFails, DiscardRead,
                DiscardWrite, SetMapping, RemoveMapping, Lookup, WriteLog, EmailBatch, Restart, importVars
        <3>. QED BY <2>3, <3>1
    <2>5. CASE (\E b \in BillIds : Unpay(b)) \/ \E r \in Requests : RequestStep(r)
        BY <1>1, <2>5, UnpayStep, RequestSteps
    <2>. QED BY Zenon, <2>1, <2>2, <2>4, <2>5, ImportsSteps
<1>5. RequestsFit'
    BY <1>1, RequestSteps, RequestsKept
<1>. QED BY Zenon, <1>2, <1>3, <1>4, <1>5 DEF ImportsInv

\* Every reachable state has the invariant.
LEMMA ImportsInvariant == ImportsSpec => []ImportsInv
BY ImportsInitInv, ImportsNextInv, PTL DEF ImportsSpec

-----------------------------------------------------------------------------
(* What the runs check *)

\* The invariant leaves no second row for a bill.
LEMMA PaidOnce == ASSUME ImportsInv PROVE BillsPaidSoundly
<1>1. RowsFit /\ PagesFit /\ BatchesFit /\ BillsFit /\ OthersFit /\ RequestsFit
    BY DEF ImportsInv
<1>2. request \in [Requests -> RequestType]
    BY <1>1 DEF RequestsFit, RequestFits
<1>3. bill \in [BillIds -> BillType] /\ overtaken \subseteq BillIds
    BY <1>1 DEF BillsFit, RequestsFit
<1>4. ImportsTypeOK
    BY <1>1, <1>2, <1>3 DEF ImportsTypeOK, RowsFit, RowFits, PagesFit, PageFits, BatchesFit, BillType, OthersFit, RequestType
<1>5. BillPaidOnce
    BY <1>1 DEF BillPaidOnce, BillsFit
<1>. QED BY <1>4, <1>5 DEF BillsPaidSoundly

\* However a bill is settled, undone, canceled and reopened, one row at most pays it,
\* and it is PAID exactly when it is settled with a row, one that exists: on the
\* checklist, by a confirmation, by both at once (bills.service.ts,
\* transactions.service.ts and imports.service.ts). The exceptions are the bills that
\* a deletion, a cancellation or a reopening wrote to after they had become something
\* else than it had read.
THEOREM PaidByOneRow == ImportsSpec => []BillsPaidSoundly
BY ImportsInvariant, PaidOnce, PTL

\* The step that discards an open batch writes no row.
LEMMA DiscardWritesNoRow ==
    ASSUME BatchesFit, PagesFit, [ImportsNext]_importVars, NEW b \in Batches, Open(b), batch'[b].status = "DISCARDED"
    PROVE  txn' = txn
<1>1. batch \in [Batches -> BatchType] /\ batch[b].status \in {"PENDING", "UNMAPPED_ACCOUNT"}
    BY DEF BatchesFit, BatchType, Open
<1>2. ASSUME NEW u \in Pages, ConfirmCommit(u)
      PROVE  FALSE
    <2>1. PICK d \in Batches, a \in AccountRef : d = page[u].batch /\ a = page[u].account
        BY <1>2 DEF ConfirmCommit, PagesFit, PageFits
    <2>2. batch' = Closed(d, "CONFIRMED", a)
        BY <1>2, <2>1 DEF ConfirmCommit
    <2>. DEFINE x == [batch[d] EXCEPT !.status = "CONFIRMED"]
                y == [x EXCEPT !.accountId = a]
                r == [y EXCEPT !.preview = NoPreview]
    <2>3. batch' = [batch EXCEPT ![d] = r]
        BY <1>1, <2>2 DEF Closed
    <2>4. r.status = "CONFIRMED"
        <3>1. x \in BatchType /\ x.status = "CONFIRMED"
            BY <1>1 DEF BatchType
        <3>. HIDE DEF x
        <3>2. y \in BatchType /\ y.status = "CONFIRMED"
            BY <3>1 DEF BatchType
        <3>. HIDE DEF y
        <3>. QED BY <3>2 DEF BatchType
    <2>. HIDE DEF r
    <2>. QED BY <1>1, <2>3, <2>4
<1>3. ASSUME NEW d \in Deliveries, NEW c \in Batches, EmailBatch(d, c)
      PROVE  txn' = txn
    BY <1>3 DEF EmailBatch
<1>4. CASE batch' = batch
    BY <1>1, <1>4
<1>5. CASE \/ \E u \in Pages : \/ \E i \in LineIds : ChooseImport(u, i)
                               \/ \E a \in StatementAccounts : ConfirmRead(u, a)
                               \/ ClosePage(u) \/ ConfirmLock(u) \/ ConfirmFails(u) \/ DiscardRead(u) \/ DiscardWrite(u)
           \/ \E u \in Pages, c \in Batches : Preview(u, c) \/ \E a \in StatementAccounts : Upload(u, c, a)
           \/ (\E a \in StatementAccounts : SetMapping(a)) \/ RemoveMapping
           \/ (\E d \in Deliveries : Lookup(d) \/ WriteLog(d)) \/ Restart \/ UNCHANGED importVars
    BY <1>5, Zenon DEF ChooseImport, ConfirmRead, ClosePage, ConfirmLock, ConfirmFails, DiscardRead, DiscardWrite, Preview,
        Upload, SetMapping, RemoveMapping, Lookup, WriteLog, Restart, importVars
<1>6. CASE \E t \in Transactions : \/ \E d \in Manual : CreateManual(t, d)
                                   \/ \E c \in BillIds : LinkBill(c, t) \/ \E a \in Accounts : PayBill(c, t, a)
                                   \/ EditRow(t)
    <2>1. batch' = batch
        BY <1>6, Zenon DEF CreateManual, LinkBill, PayBill, EditRow
    <2>. QED BY <1>4, <2>1
<1>7. CASE (\E c \in BillIds : Unpay(c)) \/ \E r \in Requests : RequestStep(r)
    <2>1. batch' = batch
        BY <1>7, RequestAside, Zenon DEF Unpay
    <2>. QED BY <1>4, <2>1
<1>. QED BY Zenon, <1>2, <1>3, <1>5, <1>6, <1>7, ImportsSteps

\* An open batch has no row yet.
LEMMA FateMixed ==
    ASSUME ImportsInv, [ImportsNext]_importVars
    PROVE  [\A b \in Batches : (DiscardedWithRows(b)' /\ ~DiscardedWithRows(b)) => ~Open(b)]_importVars
<1>. SUFFICES ASSUME NEW b \in Batches, DiscardedWithRows(b)', Open(b)
              PROVE  FALSE
    OBVIOUS
<1>1. PICK t \in Transactions : txn'[t].status = "LIVE" /\ txn'[t].importBatchId = b
    BY DEF DiscardedWithRows, Live
<1>2. txn' = txn
    BY DiscardWritesNoRow DEF ImportsInv, DiscardedWithRows
<1>3. Filled(b)
    BY <1>1, <1>2 DEF ImportsInv, FilledOnce, Live
<1>. QED BY <1>3 DEF Filled, Open

\* A discarded batch comes to have rows only when a request writes over a batch
\* that another one had closed since it was checked: confirm and discard read the
\* status outside their transactions (imports.service.ts).
THEOREM FateOfBatch == ImportsSpec => BatchFateMixedOnlyByStaleCheck
<1>1. ImportsInv /\ [ImportsNext]_importVars
      => [\A b \in Batches : (DiscardedWithRows(b)' /\ ~DiscardedWithRows(b)) => ~Open(b)]_importVars
    BY FateMixed
<1>. QED BY <1>1, ImportsInvariant, PTL DEF ImportsSpec, BatchFateMixedOnlyByStaleCheck

\* A row that comes to stand for a line a confirmation did not write took it from a
\* row of the other account.
LEMMA TakenOver ==
    ASSUME ImportsInv, NEW u \in Pages, NEW a \in StatementAccounts, ConfirmCommit(u), page[u].account = a,
           NEW i \in page[u].flags, NEW s \in Recorded(i, a)', s \notin Recorded(i, a)
    PROVE  \E t \in Transactions : Live(t) /\ i \in txn[t].lines /\ ~Touches(txn[t], a)
<1>. DEFINE c == page[u].choice
<1>1. RowsFit /\ PagesFit
    BY DEF ImportsInv
<1>2. /\ page[u].pc = "locked" /\ page[u].batch \in Batches
      /\ \A j \in LineIds : c[j].other # a
    BY <1>1 DEF ConfirmCommit, PagesFit, PageFits
<1>3. Accepts(LineIds \ page[u].flags, page[u].choice)
    BY Zenon DEF ConfirmCommit
<1>4. PICK id : id = NewIds(u) /\ txn' = AfterConfirm(u, id)
    BY Zenon DEF ConfirmCommit
<1>5. DOMAIN id = Creating(u)
    BY <1>4 DEF NewIds, Creating
<1>6. s \in Transactions /\ txn'[s].status = "LIVE" /\ i \in txn'[s].lines /\ Touches(txn'[s], a)
    BY DEF Recorded, Live, Touches
<1>7. \/ \E j \in Creating(u) : id[j] = s /\ txn'[s] = NewRow(u, j)
      \/ txn'[s] = GoneRow
      \/ \E j \in Written(u, "LINK_TRANSACTION") : txn'[s] = LinkedRow(u, s, j)
      \/ txn'[s] = txn[s]
    BY <1>4, <1>5, <1>6, RowAfter
<1>8. CASE \E j \in Creating(u) : txn'[s] = NewRow(u, j)
    <2>1. PICK j \in Creating(u) : txn'[s] = NewRow(u, j)
        BY <1>8
    <2>2. PICK t : t = c[j].tx
        OBVIOUS
    <2>3. j \in LineIds /\ j \notin page[u].flags
        BY DecidedLines
    <2>4. \/ txn'[s].lines = {j}
          \/ j \in Written(u, "RECORD_TRANSFER") /\ t \in Transactions /\ t # 0 /\ txn'[s].lines = {j} \cup txn[t].lines
        BY <1>1, <1>2, <1>3, <2>1, <2>2, NewRowFits
    <2>5. j \in Written(u, "RECORD_TRANSFER") /\ t \in Transactions /\ t # 0 /\ i \in txn[t].lines
        BY <1>6, <2>3, <2>4
    <2>6. Live(t) /\ txn[t].accountId = c[j].other /\ txn[t].type # "TRANSFER"
        BY <1>3, <2>2, <2>5, AcceptedLines
    <2>7. txn[t].fromAccountId = NoAccount /\ txn[t].toAccountId = NoAccount
        BY <1>1, <2>5, <2>6 DEF RowsFit, RowFits, Live
    <2>8. txn[t].accountId # a /\ a # NoAccount
        BY <1>2, <2>3, <2>6, Named
    <2>9. ~Touches(txn[t], a)
        BY <2>7, <2>8 DEF Touches
    <2>. QED BY <2>5, <2>6, <2>9
<1>9. CASE txn'[s] = GoneRow
    BY <1>6, <1>9, RowGone
<1>10. CASE \E j \in Written(u, "LINK_TRANSACTION") : txn'[s] = LinkedRow(u, s, j)
    <2>1. PICK j \in Written(u, "LINK_TRANSACTION") : txn'[s] = LinkedRow(u, s, j)
        BY <1>10
    <2>2. j \in LineIds /\ j \notin page[u].flags
        BY DEF Written
    <2>3. /\ txn'[s].status = txn[s].status /\ txn'[s].lines = txn[s].lines \cup {j} /\ txn'[s].accountId = txn[s].accountId
          /\ txn'[s].fromAccountId = txn[s].fromAccountId /\ txn'[s].toAccountId = txn[s].toAccountId
        BY <1>1, <1>2, <1>6, <2>1, <2>2, LinkedFits
    <2>4. s \in Recorded(i, a)
        BY <1>6, <2>2, <2>3 DEF Recorded, Live, Touches
    <2>. QED BY <2>4
<1>11. CASE txn'[s] = txn[s]
    BY <1>6, <1>11 DEF Recorded, Live
<1>. QED BY <1>7, <1>8, <1>9, <1>10, <1>11

\* A line that is known and not flagged is out of date.
LEMMA SecondRow ==
    ASSUME ImportsInv, NEW u \in Pages, NEW a \in StatementAccounts, ConfirmCommit(u), page[u].account = a,
           NEW i \in LineIds, ~(Recorded(i, a)' \subseteq Recorded(i, a))
    PROVE  \/ i \in Duplicates(a) \ page[u].flags
           \/ \A t \in Recorded(i, a) : txn[t].ext # i \/ txn[t].copy
           \/ \E t \in Transactions : Live(t) /\ i \in txn[t].lines /\ ~Touches(txn[t], a)
<1>. SUFFICES ASSUME i \notin Duplicates(a) \ page[u].flags,
                     NEW t \in Recorded(i, a), txn[t].ext = i, ~txn[t].copy
              PROVE  \E r \in Transactions : Live(r) /\ i \in txn[r].lines /\ ~Touches(txn[r], a)
    OBVIOUS
<1>1. i \in Duplicates(a)
    BY DEF Recorded, Duplicates
<1>2. i \in page[u].flags
    BY <1>1
<1>3. PICK s \in Recorded(i, a)' : s \notin Recorded(i, a)
    OBVIOUS
<1>. QED BY <1>2, <1>3, TakenOver

\* A line of a statement comes to stand twice in its account only if the flags of
\* the confirmation were outdated, the first row no longer carries the line's id,
\* or a row of the other account stands for it (markDuplicates, confirm and
\* recordTransfer in imports.service.ts).
THEOREM LineStandsTwice == ImportsSpec => LineImportedTwiceOnlyIf
<1>1. ImportsInv =>
      [\A u \in Pages, a \in StatementAccounts :
        (ConfirmCommit(u) /\ page[u].account = a) =>
            \A i \in LineIds :
                (Cardinality(Recorded(i, a)') > 1 /\ ~(Recorded(i, a)' \subseteq Recorded(i, a)))
                => \/ i \in Duplicates(a) \ page[u].flags
                   \/ \A t \in Recorded(i, a) : txn[t].ext # i \/ txn[t].copy
                   \/ \E t \in Transactions : Live(t) /\ i \in txn[t].lines /\ ~Touches(txn[t], a)]_importVars
    BY SecondRow
<1>. QED BY <1>1, ImportsInvariant, PTL DEF LineImportedTwiceOnlyIf

-----------------------------------------------------------------------------
(* The suggestions of a preview *)

\* What a candidate says of its row.
LEMMA CandidateOfRow ==
    ASSUME NEW a, NEW c \in TransactionCandidates(a)
    PROVE  \E t \in Transactions :
              /\ Live(t) /\ (txn[t].ext = NoLine \/ txn[t].type = "TRANSFER")
              /\ c.id = t /\ c.day = txn[t].day /\ c.type = txn[t].type /\ (c.linked <=> txn[t].ext # NoLine)
<1>. DEFINE text(t) == IF BillOf(t) = {} THEN txn[t].text ELSE Bills[CHOOSE b \in BillOf(t) : TRUE].text
            billed(t) == BillOf(t) # {}
            linked(t) == txn[t].ext # NoLine
            Cand(t) == [id |-> t, day |-> txn[t].day, amount |-> txn[t].amount, type |-> txn[t].type,
                        accountId |-> txn[t].accountId, fromAccountId |-> txn[t].fromAccountId,
                        toAccountId |-> txn[t].toAccountId, ofBill |-> billed(t), linked |-> linked(t),
                        text |-> text(t)]
            read == {s \in Transactions : /\ Live(s) /\ Touches(txn[s], a)
                                          /\ txn[s].ext = NoLine \/ txn[s].type = "TRANSFER"}
<1>1. c \in {Cand(t) : t \in read}
    BY DEF TransactionCandidates
<1>. HIDE DEF text, billed, linked
<1>2. \A t : Cand(t).id = t /\ Cand(t).day = txn[t].day /\ Cand(t).type = txn[t].type /\ Cand(t).linked = linked(t)
    OBVIOUS
<1>. HIDE DEF Cand
<1>3. PICK t \in read : c = Cand(t)
    BY <1>1
<1>. QED BY <1>2, <1>3 DEF linked

LEMMA CounterpartOfRow ==
    ASSUME NEW a, NEW c \in Counterparts(a)
    PROVE  \E t \in Transactions :
              /\ Live(t) /\ BillOf(t) = {} /\ c.id = t /\ c.day = txn[t].day /\ c.type = txn[t].type
              /\ c.accountId = txn[t].accountId /\ c.amount = txn[t].amount
<1>. DEFINE Cand(t) == [id |-> t, day |-> txn[t].day, amount |-> txn[t].amount, type |-> txn[t].type,
                        accountId |-> txn[t].accountId, text |-> ""]
            read == {s \in Transactions : /\ Live(s) /\ txn[s].type # "TRANSFER"
                                          /\ txn[s].accountId # a /\ BillOf(s) = {}}
<1>1. c \in {Cand(t) : t \in read}
    BY DEF Counterparts
<1>2. \A t : /\ Cand(t).id = t /\ Cand(t).day = txn[t].day /\ Cand(t).type = txn[t].type
             /\ Cand(t).accountId = txn[t].accountId /\ Cand(t).amount = txn[t].amount
    OBVIOUS
<1>. HIDE DEF Cand
<1>3. PICK t \in read : c = Cand(t)
    BY <1>1
<1>. QED BY <1>2, <1>3

LEMMA CandidateOfBill ==
    ASSUME NEW a, NEW lines, NEW c \in BillCandidates(a, lines)
    PROVE  \E b \in BillIds : bill[b].status = "PENDING" /\ c.id = b /\ c.day = Bills[b].day
<1>. DEFINE Cand(b) == [id |-> b, day |-> Bills[b].day, amount |-> Bills[b].amount, text |-> Bills[b].text]
            InWindow(b) == /\ Bills[b].accountId \in {NoAccount, a}
                           /\ \E l \in lines : l.day - WideBefore <= Bills[b].day
                           /\ \E l \in lines : Bills[b].day <= l.day + WideAfter
            read == {b \in BillIds : bill[b].status = "PENDING" /\ InWindow(b)}
<1>1. c \in {Cand(b) : b \in read}
    BY DEF BillCandidates
<1>. HIDE DEF InWindow
<1>2. \A b : Cand(b).id = b /\ Cand(b).day = Bills[b].day
    OBVIOUS
<1>. HIDE DEF Cand
<1>3. PICK b \in read : c = Cand(b)
    BY <1>1
<1>. QED BY <1>2, <1>3

\* What reconciliation reads from the books can be read.
LEMMA BooksRead ==
    ASSUME RowsFit, NEW a
    PROVE  Books(TransactionCandidates(a), BillCandidates(a, OtherStatement), Counterparts(a))
<1>1. \A t \in Transactions : t \in Nat /\ txn[t].day \in Int
    BY ImportAssumption DEF RowsFit, RowFits
<1>2. \A b \in BillIds : b \in Nat /\ Bills[b].day \in Int
    BY ImportAssumption DEF BillIds
<1>3. Numbered(TransactionCandidates(a))
    <2>1. \A c \in TransactionCandidates(a) : \E t \in Transactions : c.id = t /\ c.day = txn[t].day
        BY CandidateOfRow
    <2>. QED BY <1>1, <2>1 DEF Numbered
<1>4. Numbered(BillCandidates(a, OtherStatement))
    <2>1. \A c \in BillCandidates(a, OtherStatement) : \E b \in BillIds : c.id = b /\ c.day = Bills[b].day
        BY CandidateOfBill
    <2>. QED BY <1>2, <2>1 DEF Numbered
<1>5. Numbered(Counterparts(a))
    <2>1. \A c \in Counterparts(a) : \E t \in Transactions : c.id = t /\ c.day = txn[t].day
        BY CounterpartOfRow
    <2>. QED BY <1>1, <2>1 DEF Numbered
<1>. QED BY <1>3, <1>4, <1>5 DEF Books

\* What a row or a bill is that a line was matched to.
LEMMA CandidatesStand ==
    ASSUME NEW a, NEW l \in OtherStatement, NEW k,
           Fitting(l, k, TransactionCandidates(a), BillCandidates(a, OtherStatement), Counterparts(a), a)
    PROVE  /\ k.kind = "TRANSACTION" => k.id \in Transactions /\ Live(k.id) /\ txn[k.id].ext = NoLine
           /\ k.kind = "OWN_TRANSFER" =>
                /\ k.id \in Transactions /\ Live(k.id) /\ BillOf(k.id) = {} /\ txn[k.id].accountId = k.account
                /\ txn[k.id].type = (IF l.out THEN "INCOME" ELSE "EXPENSE") /\ txn[k.id].amount = l.amount
           /\ k.kind = "BILL" => k.id \in BillIds /\ bill[k.id].status = "PENDING"
<1>1. ASSUME k.kind = "TRANSACTION"
      PROVE  k.id \in Transactions /\ Live(k.id) /\ txn[k.id].ext = NoLine
    <2>1. PICK c \in TransactionCandidates(a) : TransactionFits(l, c, a) /\ k.id = c.id
        BY <1>1 DEF Fitting
    <2>2. \E t \in Transactions : /\ c.id = t /\ Live(t) /\ (txn[t].ext = NoLine \/ txn[t].type = "TRANSFER")
                                  /\ c.type = txn[t].type /\ (c.linked <=> txn[t].ext # NoLine)
        BY CandidateOfRow
    <2>. QED BY <2>1, <2>2 DEF TransactionFits
<1>2. ASSUME k.kind = "OWN_TRANSFER"
      PROVE  /\ k.id \in Transactions /\ Live(k.id) /\ BillOf(k.id) = {} /\ txn[k.id].accountId = k.account
             /\ txn[k.id].type = (IF l.out THEN "INCOME" ELSE "EXPENSE") /\ txn[k.id].amount = l.amount
    <2>1. PICK c \in Counterparts(a) : CounterpartyFits(l, c, a) /\ k.id = c.id /\ k.account = c.accountId
        BY <1>2 DEF Fitting
    <2>2. \E t \in Transactions : /\ c.id = t /\ Live(t) /\ BillOf(t) = {} /\ c.type = txn[t].type
                                  /\ c.accountId = txn[t].accountId /\ c.amount = txn[t].amount
        BY CounterpartOfRow
    <2>. QED BY <2>1, <2>2 DEF CounterpartyFits, SameAmountAndDays
<1>3. ASSUME k.kind = "BILL"
      PROVE  k.id \in BillIds /\ bill[k.id].status = "PENDING"
    <2>1. PICK c \in BillCandidates(a, OtherStatement) : k.id = c.id
        BY <1>3 DEF Fitting
    <2>. QED BY <2>1, CandidateOfBill
<1>. QED BY <1>1, <1>2, <1>3

\* The choice that follows a suggestion.
Suggested(r) == IF r.suggestedAction = "IMPORT" THEN Plain("IMPORT") ELSE ChoiceFor(CHOOSE m \in r.matches : TRUE)

LEMMA SuggestedChoice ==
    ASSUME NEW r, NEW l, NEW transactions, NEW bills, NEW counterparts, NEW a,
           Resolved(r, l, transactions, bills, counterparts, a)
    PROVE  \/ Suggested(r).action \in {"IMPORT", "SKIP"} /\ Suggested(r).tx = 0 /\ Suggested(r).bill = 0
           \/ \E k : /\ r.matches = {k} /\ Fitting(l, k, transactions, bills, counterparts, a)
                     /\ Claims(r) = {ClaimKey(k)}
                     /\ \/ /\ k.kind = "BILL" /\ Suggested(r).action = "PAY_BILL"
                           /\ Suggested(r).bill = k.id /\ Suggested(r).tx = 0
                        \/ /\ k.kind = "OWN_TRANSFER" /\ Suggested(r).action = "RECORD_TRANSFER"
                           /\ Suggested(r).tx = k.id /\ Suggested(r).other = k.account /\ Suggested(r).bill = 0
                        \/ /\ k.kind = "TRANSACTION" /\ Suggested(r).action = "LINK_TRANSACTION"
                           /\ Suggested(r).tx = k.id /\ Suggested(r).bill = 0
<1>1. CASE r.suggestedAction = "IMPORT"
    BY <1>1 DEF Suggested, Plain, Choice
<1>2. CASE r.suggestedAction # "IMPORT"
    <2>1. PICK k : /\ r.matches = {k} /\ Fitting(l, k, transactions, bills, counterparts, a)
                   /\ k.kind \in {"BILL", "OWN_TRANSFER", "TRANSFER_MIRROR", "TRANSACTION"}
        BY <1>2 DEF Resolved
    <2>2. Suggested(r) = ChoiceFor(k) /\ Claims(r) = {ClaimKey(k)}
        BY <1>2, <2>1 DEF Suggested, Claims
    <2>3. CASE k.kind = "TRANSFER_MIRROR"
        <3>1. ChoiceFor(k) = Plain("SKIP")
            BY <2>3 DEF ChoiceFor
        <3>. QED BY <2>2, <3>1 DEF Plain, Choice
    <2>4. CASE k.kind = "BILL"
        <3>1. ChoiceFor(k) = Choice("PAY_BILL", 0, k.id, NoAccount)
            BY <2>4 DEF ChoiceFor
        <3>. QED BY <2>1, <2>2, <2>4, <3>1 DEF Choice
    <2>5. CASE k.kind = "OWN_TRANSFER"
        <3>1. ChoiceFor(k) = Choice("RECORD_TRANSFER", k.id, 0, k.account)
            BY <2>5 DEF ChoiceFor
        <3>. QED BY <2>1, <2>2, <2>5, <3>1 DEF Choice
    <2>6. CASE k.kind = "TRANSACTION"
        <3>1. ChoiceFor(k) = Choice("LINK_TRANSACTION", k.id, 0, NoAccount)
            BY <2>6 DEF ChoiceFor
        <3>. QED BY <2>1, <2>2, <2>6, <3>1 DEF Choice
    <2>. QED BY <2>1, <2>3, <2>4, <2>5, <2>6
<1>. QED BY <1>1, <1>2

\* The suggestions for one account.
LEMMA SuggestionsFit ==
    ASSUME RowsFit, NEW a
    PROVE  LET known == Reconciliation(a, OtherStatement)
           IN  SuggestionsOneToOne(known) /\ SuggestionsConfirmable(known)
<1>. DEFINE known == Reconciliation(a, OtherStatement)
            choice == [i \in {l.id : l \in OtherStatement} |-> Suggested(known[i])]
            R(l) == known[l.id]
<1>1. Statement(OtherStatement)
    BY ImportAssumption DEF Statement
<1>2. MatchedSoundly(known, OtherStatement, TransactionCandidates(a), BillCandidates(a, OtherStatement), Counterparts(a), a)
    BY <1>1, BooksRead, MatchedOnce DEF Reconciliation
<1>. HIDE DEF known
<1>3. SuggestionsOneToOne(known)
    BY <1>2 DEF MatchedSoundly, SuggestionsOneToOne
<1>4. \A l \in OtherStatement : Resolved(R(l), l, TransactionCandidates(a), BillCandidates(a, OtherStatement), Counterparts(a), a)
    BY <1>2 DEF MatchedSoundly
<1>5. \A l \in OtherStatement : choice[l.id] = Suggested(R(l)) /\ LineOf(l.id) = l
    <2>1. ASSUME NEW l \in OtherStatement
          PROVE  LineOf(l.id) = l
        BY ImportAssumption DEF LineOf
    <2>. QED BY <2>1
<1>. DEFINE As(c, r, k) ==
                /\ r.matches = {k} /\ Claims(r) = {ClaimKey(k)}
                /\ \/ k.kind = "BILL" /\ c.action = "PAY_BILL" /\ c.bill = k.id /\ c.tx = 0
                   \/ /\ k.kind = "OWN_TRANSFER" /\ c.action = "RECORD_TRANSFER"
                      /\ c.tx = k.id /\ c.other = k.account /\ c.bill = 0
                   \/ k.kind = "TRANSACTION" /\ c.action = "LINK_TRANSACTION" /\ c.tx = k.id /\ c.bill = 0
<1>. HIDE DEF choice
<1>6. ASSUME NEW l \in OtherStatement
      PROVE  \/ choice[l.id].action \in {"IMPORT", "SKIP"} /\ choice[l.id].tx = 0 /\ choice[l.id].bill = 0
             \/ \E k : /\ As(choice[l.id], R(l), k)
                       /\ Fitting(l, k, TransactionCandidates(a), BillCandidates(a, OtherStatement), Counterparts(a), a)
    <2>1. choice[l.id] = Suggested(R(l))
        BY <1>5
    <2>2. Resolved(R(l), l, TransactionCandidates(a), BillCandidates(a, OtherStatement), Counterparts(a), a)
        BY <1>4
    <2>. HIDE DEF R
    <2>. QED BY <2>1, <2>2, SuggestedChoice
<1>7. ASSUME NEW l \in OtherStatement
      PROVE  /\ Linkable(l.id, choice) /\ Replaceable(l.id, choice) /\ Payable(l.id, choice)
             /\ StillValid(choice[l.id], FALSE, R(l).matches)
    <2>. DEFINE c == choice[l.id]
    <2>1. CASE c.action \in {"IMPORT", "SKIP"}
        BY <2>1 DEF Linkable, Replaceable, Payable, StillValid
    <2>2. ASSUME NEW k, As(c, R(l), k), Fitting(l, k, TransactionCandidates(a), BillCandidates(a, OtherStatement), Counterparts(a), a)
          PROVE  /\ Linkable(l.id, choice) /\ Replaceable(l.id, choice) /\ Payable(l.id, choice)
                 /\ StillValid(choice[l.id], FALSE, R(l).matches)
        <3>1. LineOf(l.id) = l
            BY <1>5
        <3>2. /\ k.kind = "TRANSACTION" => k.id \in Transactions /\ Live(k.id) /\ txn[k.id].ext = NoLine
              /\ k.kind = "OWN_TRANSFER" =>
                   /\ k.id \in Transactions /\ Live(k.id) /\ BillOf(k.id) = {} /\ txn[k.id].accountId = k.account
                   /\ txn[k.id].type = (IF l.out THEN "INCOME" ELSE "EXPENSE") /\ txn[k.id].amount = l.amount
              /\ k.kind = "BILL" => k.id \in BillIds /\ bill[k.id].status = "PENDING"
            BY <2>2, CandidatesStand
        <3>3. k \in R(l).matches
            BY <2>2
        <3>. HIDE DEF R
        <3>4. Linkable(l.id, choice)
            BY <2>2, <3>2 DEF Linkable
        <3>5. Replaceable(l.id, choice)
            BY <2>2, <3>1, <3>2 DEF Replaceable
        <3>6. Payable(l.id, choice)
            BY <2>2, <3>2 DEF Payable
        <3>7. StillValid(choice[l.id], FALSE, R(l).matches)
            BY <2>2, <3>3 DEF StillValid
        <3>. QED BY <3>4, <3>5, <3>6, <3>7
    <2>. QED BY <1>6, <2>1, <2>2
<1>8. ASSUME NEW l \in OtherStatement, NEW m \in OtherStatement, l # m, choice[l.id].action = choice[m.id].action
      PROVE  /\ choice[l.id].tx # 0 => choice[l.id].tx # choice[m.id].tx
             /\ choice[l.id].bill # 0 => choice[l.id].bill # choice[m.id].bill
    <2>1. Claims(R(l)) \cap Claims(R(m)) = {}
        BY <1>2, <1>8 DEF MatchedSoundly
    <2>. HIDE DEF R, As
    <2>2. CASE choice[l.id].action \in {"IMPORT", "SKIP"}
        <3>1. choice[l.id].tx = 0 /\ choice[l.id].bill = 0
            BY <1>6, <2>2 DEF As
        <3>. QED BY <3>1
    <2>3. CASE choice[l.id].action \notin {"IMPORT", "SKIP"}
        <3>1. PICK k : As(choice[l.id], R(l), k)
            BY <1>6, <2>3
        <3>2. PICK n : As(choice[m.id], R(m), n)
            BY <1>6, <1>8, <2>3
        <3>3. ClaimKey(k) # ClaimKey(n)
            BY <2>1, <3>1, <3>2 DEF As
        <3>. QED BY <1>8, <3>1, <3>2, <3>3 DEF As, ClaimKey
    <2>. QED BY <2>2, <2>3
<1>9. DOMAIN choice = {l.id : l \in OtherStatement}
    BY DEF choice
<1>10. Accepts(DOMAIN choice, choice)
    <2>1. \A i \in DOMAIN choice : \E l \in OtherStatement : i = l.id
        BY <1>9
    <2>2. \A i \in DOMAIN choice : Linkable(i, choice) /\ Replaceable(i, choice) /\ Payable(i, choice)
        BY <1>7, <2>1
    <2>3. \A i, j \in DOMAIN choice : (i # j /\ choice[i].action = choice[j].action) =>
            /\ choice[i].tx # 0 => choice[i].tx # choice[j].tx
            /\ choice[i].bill # 0 => choice[i].bill # choice[j].bill
        BY <1>8, <2>1
    <2>. QED BY <2>2, <2>3 DEF Accepts
<1>11. \A i \in DOMAIN choice : StillValid(choice[i], FALSE, known[i].matches)
    BY <1>7, <1>9
<1>12. choice = [i \in {l.id : l \in OtherStatement} |->
                     IF known[i].suggestedAction = "IMPORT" THEN Plain("IMPORT")
                     ELSE ChoiceFor(CHOOSE m \in known[i].matches : TRUE)]
    BY DEF choice, Suggested
<1>. QED BY <1>3, <1>10, <1>11, <1>12 DEF SuggestionsConfirmable, known

\* Two lines of one statement are never matched to the same row or bill, whatever
\* is in the books and however many lines there are, and a preview accepted as it
\* is suggested passes every check of the confirmation (docs/36, test 6).
THEOREM SuggestionsStandUp == ImportsSpec => []SuggestionsSound
<1>1. ImportsInv => SuggestionsSound
    BY SuggestionsFit DEF ImportsInv, SuggestionsSound
<1>. QED BY <1>1, ImportsInvariant, PTL
=============================================================================
