----------------------------- MODULE BillsProofs -----------------------------
(***************************************************************************)
(* What Ledger guarantees for every set of accounts, rows, plans, requests *)
(* and posting workers, and Bills for every number of bills and bill       *)
(* requests. A step of the composition is a step of the ledger, covered by *)
(* the lemmas of the first part, or a step on the bills.                   *)
(***************************************************************************)
EXTENDS Bills, TLAPS

-----------------------------------------------------------------------------
(* The ledger: lemmas about its operators *)

\* applyBalance changes every account by an integer.
LEMMA EffectType ==
    ASSUME NEW e \in EntryType
    PROVE  Effect(e) \in [Accounts -> Int]
<1>1. ASSUME NEW a \in Accounts
      PROVE  Effect(e)[a] \in Int
    <2>1. e.amount \in Int
        BY DEF EntryType
    <2>. QED BY <2>1 DEF Effect
<1>. QED BY <1>1 DEF Effect

\* Balance changes form a commutative group; only these facts of it are needed.
LEMMA BalanceAlgebra ==
    ASSUME NEW f \in [Accounts -> Int], NEW g \in [Accounts -> Int]
    PROVE  /\ Plus(f, g) \in [Accounts -> Int]
           /\ Minus(f, g) \in [Accounts -> Int]
           /\ Plus(Zero, g) = g
           /\ Minus(f, f) = Zero
           /\ Plus(Minus(f, f), g) = g
<1>1. Plus(f, g) \in [Accounts -> Int] /\ Minus(f, g) \in [Accounts -> Int]
    BY DEF Plus, Minus
<1>2. Plus(Zero, g) = g
    BY DEF Plus, Zero
<1>3. Minus(f, f) = Zero
    BY DEF Minus, Zero
<1>. QED BY <1>1, <1>2, <1>3

\* Rounding down leaves no negative installment.
LEMMA InstallmentType ==
    ASSUME NEW p \in PurchaseType, NEW i \in 1..p.installmentsCount
    PROVE  Installment(p, i) \in EntryType
<1>. DEFINE n == p.installmentsCount
            base == p.totalAmount \div n
<1>1. p.totalAmount \in Nat /\ n \in Nat /\ n > 0 /\ p.purchaseDate \in Nat /\ p.accountId \in Accounts
    BY DEF PurchaseType
<1>2. base \in Nat /\ base * n <= p.totalAmount
    BY <1>1, Z3
<1>3. InstallmentAmount(p.totalAmount, n, i) \in Nat
    <2>. HIDE DEF n
    <2>1. base * n \in Int
        BY <1>1, <1>2
    <2>2. base + (p.totalAmount - base * n) \in Nat
        BY <1>1, <1>2, <2>1
    <2>. QED BY <1>2, <2>2 DEF InstallmentAmount, n
<1>4. p.purchaseDate + (i - 1) \in Nat
    BY <1>1
<1>. QED BY <1>1, <1>3, <1>4 DEF Installment, InstallmentOn, EntryType, AccountRef

\* The rows and records the handlers write belong to their types.
LEMMA RowTypes ==
    /\ NoEntry \in EntryType
    /\ EmptyRow("UNUSED") \in Row
    /\ EmptyRow("DELETED") \in Row
    /\ \A e \in EntryType, pl \in Plans \cup {NoPlan}, s \in {"SCHEDULED", "POSTED"} :
           NewRow(e, pl, s) \in Row
    /\ \A pc \in {"new", "done"} : IdleRequest(pc) \in RequestType
    /\ IdleJob \in JobType
<1>1. NoEntry \in EntryType
    BY DEF NoEntry, EntryType, AccountRef
<1>2. EmptyRow("UNUSED") \in Row /\ EmptyRow("DELETED") \in Row
    BY <1>1 DEF EmptyRow, Row
<1>3. \A e \in EntryType, pl \in Plans \cup {NoPlan}, s \in {"SCHEDULED", "POSTED"} :
          NewRow(e, pl, s) \in Row
    BY DEF NewRow, Row
<1>4. \A pc \in {"new", "done"} : IdleRequest(pc) \in RequestType
    BY <1>1, <1>2 DEF IdleRequest, RequestType
<1>5. IdleJob \in JobType
    BY <1>2 DEF IdleJob, JobType
<1>. QED BY <1>1, <1>2, <1>3, <1>4, <1>5

\* A bill stays a bill when it is unlinked, reopened or deleted.
LEMMA BillTypes ==
    /\ NoBillRow("NONE") \in BillType
    /\ NoBillRow("DELETED") \in BillType
    /\ \A row \in BillType, S \in SUBSET Transactions : SetNull(row, S) \in BillType
    /\ \A row \in BillType : Reopened(row) \in BillType
BY DEF NoBillRow, BillType, SetNull, Reopened, AccountRef

\* bill.findFirst returns a bill or nothing.
LEMMA BillOfType ==
    ASSUME NEW t
    PROVE  BillOf(t) \in Bills \cup {NoBill}
BY DEF BillOf

-----------------------------------------------------------------------------
(* Type correctness *)

\* An empty database is well typed.
LEMMA InitTypeOK == LedgerInit => TypeOK
<1>. SUFFICES ASSUME LedgerInit PROVE TypeOK
    OBVIOUS
<1>1. applied \in [Transactions -> [Accounts -> Int]]
    BY DEF LedgerInit, Zero
<1>2. req \in [Requests -> RequestType] /\ job \in [Jobs -> JobType]
    BY RowTypes DEF LedgerInit
<1>3. txn \in [Transactions -> Row] /\ bill \in [Bills -> BillType]
    BY RowTypes, BillTypes DEF LedgerInit
<1>. QED BY <1>1, <1>2, <1>3 DEF LedgerInit, TypeOK

\* createWithin keeps the types of the two variables it writes.
LEMMA InsertPostedType ==
    ASSUME TypeOK, NEW t \in Transactions, NEW e \in EntryType, InsertPosted(t, e)
    PROVE  txn' \in [Transactions -> Row] /\ applied' \in [Transactions -> [Accounts -> Int]]
<1>1. NewRow(e, NoPlan, "POSTED") \in Row
    BY RowTypes
<1>2. Plus(applied[t], Effect(e)) \in [Accounts -> Int]
    BY EffectType, BalanceAlgebra DEF TypeOK
<1>. QED BY <1>1, <1>2 DEF InsertPosted, TypeOK

\* deleteWithin keeps the types of the three variables it writes.
LEMMA DeleteWithinType ==
    ASSUME TypeOK, NEW t, NEW snap \in Row, NEW linked, DeleteWithin(t, snap, linked)
    PROVE  /\ txn' \in [Transactions -> Row]
           /\ applied' \in [Transactions -> [Accounts -> Int]]
           /\ bill' \in [Bills -> BillType]
<1>1. txn' \in [Transactions -> Row]
    BY RowTypes DEF DeleteWithin, TypeOK
<1>2. applied' \in [Transactions -> [Accounts -> Int]]
    <2>1. Effect(snap.entry) \in [Accounts -> Int]
        BY EffectType DEF Row
    <2>2. \A u \in Transactions : Minus(applied[u], Effect(snap.entry)) \in [Accounts -> Int]
        BY <2>1, BalanceAlgebra DEF TypeOK
    <2>. QED BY <2>2 DEF DeleteWithin, Reverted, TypeOK
<1>3. bill' \in [Bills -> BillType]
    <2>1. \A b \in Bills : SetNull(bill[b], {t}) \in BillType
        BY DEF TypeOK, BillType, SetNull
    <2>2. \A b \in Bills : Reopened(bill[b]) \in BillType
        BY BillTypes DEF TypeOK
    <2>. QED BY <2>1, <2>2 DEF DeleteWithin, BillsWithout
<1>. QED BY <1>1, <1>2, <1>3

\* A finished request is a request.
LEMMA FinishType ==
    ASSUME TypeOK, NEW r \in Requests, Finish(r)
    PROVE  req' \in [Requests -> RequestType]
BY RowTypes DEF Finish, TypeOK

\* Every step of the ledger keeps every variable in its type: one step per
\* handler, the lemmas above for the writes that several of them share.
LEMMA NextTypeOK ==
    ASSUME TypeOK, [LedgerNext \/ LedgerIdle]_ledgerVars
    PROVE  TypeOK'
<1>. USE DEF TypeOK
<1>1. ASSUME NEW t \in Transactions, NEW e \in Entries, Create(t, e)
      PROVE  TypeOK'
    <2>1. e \in EntryType
        BY InputAssumption
    <2>. QED BY <1>1, <2>1, InsertPostedType DEF Create
<1>2. ASSUME NEW pl \in Plans, NEW p \in Purchases,
             NEW number \in [Transactions -> 0..p.installmentsCount], CreatePlan(pl, p, number)
      PROVE  TypeOK'
    <2>1. p \in PurchaseType /\ p.installmentsCount \in Nat
        BY InputAssumption DEF PurchaseType
    <2>2. \A t \in Transactions : number[t] # 0 => Installment(p, number[t]) \in EntryType
        <3>1. \A t \in Transactions : number[t] # 0 => number[t] \in 1..p.installmentsCount
            BY <2>1
        <3>. QED BY <2>1, <3>1, InstallmentType
    <2>3. \A t \in Transactions : number[t] # 0 =>
              /\ Effect(Installment(p, number[t])) \in [Accounts -> Int]
              /\ NewRow(Installment(p, number[t]), pl, DueStatus(Installment(p, number[t]))) \in Row
        BY <2>2, EffectType, RowTypes DEF DueStatus
    <2>4. txn' \in [Transactions -> Row]
        BY <1>2, <2>3 DEF CreatePlan
    <2>5. applied' \in [Transactions -> [Accounts -> Int]]
        BY <1>2, <2>3, BalanceAlgebra DEF CreatePlan
    <2>6. plan' \in [Plans -> {"NONE", "OPEN", "DELETED"}]
        BY <1>2 DEF CreatePlan
    <2>. QED BY <1>2, <2>4, <2>5, <2>6 DEF CreatePlan
<1>3. ASSUME NEW r \in Requests, NEW t \in Transactions, NEW e \in Entries, UpdateRead(r, t, e)
      PROVE  TypeOK'
    <2>1. e \in EntryType
        BY InputAssumption
    <2>2. [req[r] EXCEPT !.pc = "update", !.tx = t, !.snap = txn[t], !.linked = BillOf(t),
                         !.dto = e] \in RequestType
        BY <2>1, BillOfType DEF RequestType
    <2>. QED BY <1>3, <2>2 DEF UpdateRead, StartUpdate
<1>4. ASSUME NEW r \in Requests, NEW t \in Transactions, RemoveRead(r, t)
      PROVE  TypeOK'
    <2>1. [req[r] EXCEPT !.pc = "remove", !.tx = t, !.snap = txn[t]] \in RequestType
        BY DEF RequestType
    <2>. QED BY <1>4, <2>1 DEF RemoveRead
<1>5. ASSUME NEW r \in Requests, NEW pl \in Plans, RemovePlanRead(r, pl)
      PROVE  TypeOK'
    <2>. DEFINE ids == {t \in PlanRows(pl) : IsScheduled(txn[t])}
    <2>1. ids \in SUBSET Transactions
        BY DEF PlanRows
    <2>2. \A empty \in BOOLEAN :
              [req[r] EXCEPT !.pc = "removePlan", !.plan = pl, !.ids = ids, !.emptied = empty]
                  \in RequestType
        BY <2>1 DEF RequestType
    <2>. QED BY <1>5, <2>2 DEF RemovePlanRead
<1>6. ASSUME NEW r \in Requests, UpdateCommit(r)
      PROVE  TypeOK'
    <2>. DEFINE t == req[r].tx
                snap == req[r].snap
                dto == req[r].dto
    <2>1. dto \in EntryType /\ snap.entry \in EntryType
        BY DEF RequestType, Row
    <2>2. \A u \in Transactions :
              Plus(Minus(applied[u], Effect(snap.entry)), Effect(dto)) \in [Accounts -> Int]
        BY <2>1, EffectType, BalanceAlgebra
    <2>3. applied' \in [Transactions -> [Accounts -> Int]]
        BY <1>6, <2>2 DEF UpdateCommit
    <2>4. \A u \in Transactions : NewRow(dto, txn[u].plan, "POSTED") \in Row
        BY <2>1, RowTypes DEF Row
    <2>5. txn' \in [Transactions -> Row]
        BY <1>6, <2>4 DEF UpdateCommit
    <2>. QED BY <1>6, <2>3, <2>5, FinishType DEF UpdateCommit
<1>7. ASSUME NEW r \in Requests, RemoveLookup(r)
      PROVE  TypeOK'
    <2>1. BillOf(req[r].tx) \in Bills \cup {NoBill}
        BY BillOfType
    <2>2. [req[r] EXCEPT !.pc = "delete", !.linked = BillOf(req[r].tx)] \in RequestType
        BY <2>1 DEF RequestType
    <2>. QED BY <1>7, <2>2 DEF RemoveLookup
<1>8. ASSUME NEW r \in Requests, RemoveCommit(r)
      PROVE  TypeOK'
    <2>1. req[r].snap \in Row
        BY DEF RequestType
    <2>. QED BY <1>8, <2>1, DeleteWithinType, FinishType DEF RemoveCommit
<1>9. ASSUME NEW r \in Requests, RemovePlanCommit(r)
      PROVE  TypeOK'
    <2>1. txn' \in [Transactions -> Row]
        BY <1>9, RowTypes DEF RemovePlanCommit, Row
    <2>2. bill' \in [Bills -> BillType]
        BY <1>9, BillTypes DEF RemovePlanCommit, RequestType
    <2>3. plan' \in [Plans -> {"NONE", "OPEN", "DELETED"}]
        BY <1>9 DEF RemovePlanCommit
    <2>. QED BY <1>9, <2>1, <2>2, <2>3, FinishType DEF RemovePlanCommit
<1>10. ASSUME NEW r \in Requests, WriteFails(r)
       PROVE  TypeOK'
    BY <1>10, FinishType DEF WriteFails
<1>11. ASSUME NEW j \in Jobs, NEW t \in Transactions, PostRead(j, t)
       PROVE  TypeOK'
    BY <1>11 DEF PostRead, JobType
<1>12. ASSUME NEW j \in Jobs, PostCommit(j)
       PROVE  TypeOK'
    <2>1. Effect(job[j].snap.entry) \in [Accounts -> Int]
        BY EffectType DEF JobType, Row
    <2>2. applied' \in [Transactions -> [Accounts -> Int]]
        BY <1>12, <2>1, BalanceAlgebra DEF PostCommit
    <2>3. txn' \in [Transactions -> Row]
        BY <1>12 DEF PostCommit, Row
    <2>. QED BY <1>12, <2>2, <2>3, RowTypes DEF PostCommit
<1>13. ASSUME NEW j \in Jobs, PostFails(j)
       PROVE  TypeOK'
    BY <1>13, RowTypes DEF PostFails
<1>14. ASSUME NextDay
       PROVE  TypeOK'
    BY <1>14 DEF NextDay
<1>15. ASSUME LedgerIdle \/ UNCHANGED ledgerVars
       PROVE  TypeOK'
    BY <1>15 DEF LedgerIdle, ledgerVars
<1>. QED
    BY <1>1, <1>2, <1>3, <1>4, <1>5, <1>6, <1>7, <1>8, <1>9, <1>10, <1>11, <1>12, <1>13, <1>14,
       <1>15 DEF LedgerNext, CreateStep, RequestStep, PostingStep

\* Every variable of the ledger keeps its type in every behaviour.
THEOREM TypeCorrect == LedgerSpec => []TypeOK
<1>. QED BY InitTypeOK, NextTypeOK, PTL DEF LedgerSpec

-----------------------------------------------------------------------------
(* Scheduled rows and the balances *)

\* ScheduledRowsUntouched is not inductive: CreatePlan schedules a row on an
\* unused id and leaves its share of the balances alone, so the ids that are
\* not in use must have touched nothing either.
PendingUntouched ==
    \A t \in Transactions :
        txn[t].postingStatus \in {"UNUSED", "SCHEDULED"} => applied[t] = Zero

\* No row of an empty database has touched a balance.
LEMMA InitPendingUntouched == LedgerInit => PendingUntouched
BY DEF LedgerInit, PendingUntouched

\* The steps of a request that only read, or that are rolled back.
ReadOnlyRequestStep(r) ==
    \/ \E t \in Transactions, e \in Entries : UpdateRead(r, t, e)
    \/ \E t \in Transactions : RemoveRead(r, t)
    \/ \E pl \in Plans : RemovePlanRead(r, pl)
    \/ RemoveLookup(r)
    \/ WriteFails(r)

\* They change nothing but the request itself.
LEMMA ReadOnlySteps ==
    ASSUME NEW r, ReadOnlyRequestStep(r)
    PROVE  UNCHANGED <<txn, applied, plan, bill, job, today>>
BY DEF ReadOnlyRequestStep, UpdateRead, StartUpdate, RemoveRead, RemovePlanRead, RemoveLookup,
       WriteFails

\* PendingUntouched is inductive: a row becomes POSTED when it is first applied
\* and never goes back, and what is not POSTED is applied by no handler.
LEMMA NextPendingUntouched ==
    ASSUME TypeOK, PendingUntouched, [LedgerNext \/ LedgerIdle]_ledgerVars
    PROVE  PendingUntouched'
<1>. USE DEF TypeOK, PendingUntouched
<1>1. ASSUME NEW t \in Transactions, NEW e \in Entries, Create(t, e)
      PROVE  PendingUntouched'
    BY <1>1 DEF Create, InsertPosted, NewRow
<1>2. ASSUME NEW pl \in Plans, NEW p \in Purchases,
             NEW number \in [Transactions -> 0..p.installmentsCount], CreatePlan(pl, p, number)
      PROVE  PendingUntouched'
    BY <1>2 DEF CreatePlan, NewRow, DueStatus
<1>3. ASSUME NEW r \in Requests, UpdateCommit(r)
      PROVE  PendingUntouched'
    BY <1>3 DEF UpdateCommit, NewRow, Row
<1>4. ASSUME NEW r \in Requests, RemoveCommit(r)
      PROVE  PendingUntouched'
    BY <1>4 DEF RemoveCommit, DeleteWithin, Reverted, EmptyRow, Row
<1>5. ASSUME NEW r \in Requests, RemovePlanCommit(r)
      PROVE  PendingUntouched'
    BY <1>5 DEF RemovePlanCommit, EmptyRow, Row
<1>6. ASSUME NEW j \in Jobs, PostCommit(j)
      PROVE  PendingUntouched'
    BY <1>6 DEF PostCommit, Row
<1>7. ASSUME UNCHANGED <<txn, applied>>
      PROVE  PendingUntouched'
    BY <1>7
<1>8. ASSUME NEW r \in Requests, ReadOnlyRequestStep(r)
      PROVE  UNCHANGED <<txn, applied>>
    BY <1>8, ReadOnlySteps
<1>9. ASSUME NEW j \in Jobs, (\E t \in Transactions : PostRead(j, t)) \/ PostFails(j)
      PROVE  UNCHANGED <<txn, applied>>
    BY <1>9 DEF PostRead, PostFails
<1>10. ASSUME NextDay \/ LedgerIdle \/ UNCHANGED ledgerVars
       PROVE  UNCHANGED <<txn, applied>>
    BY <1>10 DEF NextDay, LedgerIdle, ledgerVars
<1>. QED
    BY <1>1, <1>2, <1>3, <1>4, <1>5, <1>6, <1>7, <1>8, <1>9, <1>10
    DEF LedgerNext, CreateStep, RequestStep, PostingStep, ReadOnlyRequestStep

\* A row that is still SCHEDULED has not touched any balance, in any behaviour
\* of any number of requests and posting workers.
THEOREM ScheduledUntouched == LedgerSpec => []ScheduledRowsUntouched
<1>1. PendingUntouched => ScheduledRowsUntouched
    BY DEF PendingUntouched, ScheduledRowsUntouched, IsScheduled
<1>. QED
    BY <1>1, InitTypeOK, NextTypeOK, InitPendingUntouched, NextPendingUntouched, PTL DEF LedgerSpec

-----------------------------------------------------------------------------
(* Where the balance can drift *)

\* A posting worker holds a row that was SCHEDULED when it read it.
WorkersHoldScheduled ==
    \A j \in Jobs : job[j].tx # NoTransaction => IsScheduled(job[j].snap)

\* No worker holds a row at the start.
LEMMA InitWorkers == LedgerInit => WorkersHoldScheduled
BY DEF LedgerInit, WorkersHoldScheduled, IdleJob

\* postIfScheduled goes on only with a row that it read as SCHEDULED.
LEMMA NextWorkers ==
    ASSUME TypeOK, WorkersHoldScheduled, [LedgerNext \/ LedgerIdle]_ledgerVars
    PROVE  WorkersHoldScheduled'
<1>. USE DEF TypeOK, WorkersHoldScheduled
<1>1. ASSUME NEW j \in Jobs, PostingStep(j)
      PROVE  WorkersHoldScheduled'
    BY <1>1 DEF PostingStep, PostRead, PostCommit, PostFails, IdleJob
<1>2. ASSUME UNCHANGED job
      PROVE  WorkersHoldScheduled'
    BY <1>2
<1>3. ASSUME CreateStep \/ NextDay \/ LedgerIdle \/ UNCHANGED ledgerVars
      PROVE  UNCHANGED job
    BY <1>3 DEF CreateStep, Create, CreatePlan, NextDay, LedgerIdle, ledgerVars
<1>4. ASSUME NEW r \in Requests, RequestStep(r)
      PROVE  UNCHANGED job
    BY <1>4, ReadOnlySteps
    DEF RequestStep, ReadOnlyRequestStep, UpdateCommit, RemoveCommit, RemovePlanCommit
<1>. QED BY <1>1, <1>2, <1>3, <1>4 DEF LedgerNext

\* A row created POSTED is balanced.
LEMMA InsertPostedBalanced ==
    ASSUME TypeOK, NEW t \in Transactions, NEW e \in EntryType, InsertPosted(t, e),
           NEW u \in Transactions, RowBalanced(u)
    PROVE  RowBalanced(u)'
<1>1. CASE u = t
    <2>1. applied[t] = Zero
        BY <1>1 DEF RowBalanced, Owed, InsertPosted
    <2>2. applied'[t] = Plus(Zero, Effect(e))
        BY <2>1 DEF InsertPosted, TypeOK
    <2>3. Owed(t)' = Effect(e)
        BY DEF InsertPosted, Owed, TypeOK, NewRow
    <2>. QED BY <1>1, <2>2, <2>3, EffectType, BalanceAlgebra DEF RowBalanced
<1>2. CASE u # t
    BY <1>2 DEF InsertPosted, RowBalanced, Owed, TypeOK
<1>. QED BY <1>1, <1>2

\* A deletion that reverts the row as it is leaves nothing behind.
LEMMA DeleteWithinBalanced ==
    ASSUME TypeOK, NEW t, NEW linked, NEW snap \in Row, DeleteWithin(t, snap, linked),
           NEW u \in Transactions, RowBalanced(u), u = t => snap = txn[t]
    PROVE  RowBalanced(u)'
<1>1. CASE u = t
    <2>1. Owed(t)' = Zero
        BY <1>1 DEF DeleteWithin, Owed, EmptyRow, TypeOK
    <2>2. CASE IsScheduled(snap)
        BY <1>1, <2>1, <2>2 DEF DeleteWithin, Reverted, RowBalanced, Owed, IsScheduled
    <2>3. CASE ~IsScheduled(snap)
        <3>1. applied[t] = Effect(snap.entry)
            BY <1>1, <2>3 DEF RowBalanced, Owed, DeleteWithin, Live, IsScheduled
        <3>2. applied'[t] = Minus(Effect(snap.entry), Effect(snap.entry))
            BY <1>1, <2>3, <3>1 DEF DeleteWithin, Reverted, TypeOK
        <3>3. Effect(snap.entry) \in [Accounts -> Int]
            BY EffectType DEF Row
        <3>. QED BY <1>1, <2>1, <3>2, <3>3, BalanceAlgebra DEF RowBalanced
    <2>. QED BY <2>2, <2>3
<1>2. CASE u # t
    BY <1>2 DEF DeleteWithin, Reverted, RowBalanced, Owed, TypeOK
<1>. QED BY <1>1, <1>2

\* A balanced row stays balanced in every step that is no stale write and no
\* edit of a SCHEDULED row.
LEMMA NextDrift ==
    ASSUME TypeOK, PendingUntouched, WorkersHoldScheduled, LedgerNext \/ LedgerIdle,
           NEW u \in Transactions, RowBalanced(u), ~LedgerDriftCause(u)
    PROVE  RowBalanced(u)'
<1>. USE DEF TypeOK
<1>1. ASSUME NEW t \in Transactions, NEW e \in Entries, Create(t, e)
      PROVE  RowBalanced(u)'
    BY <1>1, InputAssumption, InsertPostedBalanced DEF Create
<1>2. ASSUME NEW pl \in Plans, NEW p \in Purchases,
             NEW number \in [Transactions -> 0..p.installmentsCount], CreatePlan(pl, p, number)
      PROVE  RowBalanced(u)'
    <2>. DEFINE e == Installment(p, number[u])
    <2>1. CASE number[u] = 0
        BY <1>2, <2>1 DEF CreatePlan, RowBalanced, Owed
    <2>2. CASE number[u] # 0
        <3>1. applied[u] = Zero
            BY <1>2, <2>2 DEF CreatePlan, PendingUntouched
        <3>2. Effect(e) \in [Accounts -> Int]
            <4>1. p \in PurchaseType /\ p.installmentsCount \in Nat
                BY InputAssumption DEF PurchaseType
            <4>2. number[u] \in 1..p.installmentsCount
                BY <2>2, <4>1
            <4>. QED BY <4>1, <4>2, InstallmentType, EffectType
        <3>3. txn'[u] = NewRow(e, pl, DueStatus(e))
            BY <1>2, <2>2 DEF CreatePlan
        <3>4. applied'[u] = IF IsDue(e) THEN Effect(e) ELSE Zero
            BY <1>2, <2>2, <3>1, <3>2, BalanceAlgebra DEF CreatePlan
        <3>5. Owed(u)' = IF IsDue(e) THEN Effect(e) ELSE Zero
            BY <3>3 DEF Owed, NewRow, DueStatus
        <3>. QED BY <3>4, <3>5 DEF RowBalanced
    <2>. QED BY <2>1, <2>2
<1>3. ASSUME NEW r \in Requests, UpdateCommit(r)
      PROVE  RowBalanced(u)'
    <2>. DEFINE t == req[r].tx
                snap == req[r].snap
                dto == req[r].dto
    <2>1. CASE u = t
        <3>1. req'[r].pc = "done"
            BY <1>3 DEF UpdateCommit, Finish, IdleRequest
        <3>2. snap = txn[t] /\ ~IsScheduled(snap)
            BY <1>3, <2>1, <3>1
            DEF LedgerDriftCause, StaleRequest, EditOfScheduled, UpdateCommit
        <3>3. applied[t] = Effect(snap.entry)
            BY <1>3, <2>1, <3>2 DEF UpdateCommit, Live, IsScheduled, RowBalanced, Owed
        <3>4. Effect(snap.entry) \in [Accounts -> Int] /\ Effect(dto) \in [Accounts -> Int]
            BY EffectType DEF RequestType, Row
        <3>5. applied'[t] = Plus(Minus(Effect(snap.entry), Effect(snap.entry)), Effect(dto))
            BY <1>3, <2>1, <3>2, <3>3 DEF UpdateCommit
        <3>6. txn'[u] = NewRow(dto, txn[u].plan, "POSTED")
            BY <1>3, <2>1 DEF UpdateCommit
        <3>7. Owed(u)' = Effect(dto)
            BY <3>6 DEF Owed, NewRow
        <3>8. applied'[u] = Effect(dto)
            BY <2>1, <3>4, <3>5, BalanceAlgebra
        <3>. QED BY <3>7, <3>8 DEF RowBalanced
    <2>2. CASE u # t
        BY <1>3, <2>2 DEF UpdateCommit, RowBalanced, Owed
    <2>. QED BY <2>1, <2>2
<1>4. ASSUME NEW r \in Requests, RemoveCommit(r)
      PROVE  RowBalanced(u)'
    <2>1. req'[r].pc = "done"
        BY <1>4 DEF RemoveCommit, Finish, IdleRequest
    <2>2. u = req[r].tx => req[r].snap = txn[req[r].tx]
        BY <1>4, <2>1 DEF LedgerDriftCause, StaleRequest, RemoveCommit
    <2>3. req[r].snap \in Row
        BY DEF RequestType
    <2>. QED BY <1>4, <2>2, <2>3, DeleteWithinBalanced DEF RemoveCommit
<1>5. ASSUME NEW r \in Requests, RemovePlanCommit(r)
      PROVE  RowBalanced(u)'
    <2>1. req'[r].pc = "done"
        BY <1>5 DEF RemovePlanCommit, Finish, IdleRequest
    <2>2. CASE u \in req[r].ids
        <3>1. IsScheduled(txn[u])
            BY <1>5, <2>1, <2>2 DEF LedgerDriftCause, StaleRequest, RemovePlanCommit
        <3>. QED BY <1>5, <2>2, <3>1
                 DEF RemovePlanCommit, RowBalanced, Owed, EmptyRow, IsScheduled, Live
    <2>3. CASE u \notin req[r].ids
        BY <1>5, <2>3 DEF RemovePlanCommit, RowBalanced, Owed, Row
    <2>. QED BY <2>2, <2>3
<1>6. ASSUME NEW j \in Jobs, PostCommit(j)
      PROVE  RowBalanced(u)'
    <2>. DEFINE t == job[j].tx
    <2>1. CASE u = t
        <3>1. job'[j] = IdleJob
            BY <1>6 DEF PostCommit
        <3>2. job[j].snap = txn[t]
            BY <2>1, <3>1 DEF LedgerDriftCause, StalePosting
        <3>3. IsScheduled(txn[u])
            BY <1>6, <2>1, <3>2 DEF WorkersHoldScheduled, PostCommit
        <3>4. applied[u] = Zero /\ Effect(txn[u].entry) \in [Accounts -> Int]
            BY <3>3, EffectType DEF PendingUntouched, IsScheduled, Row
        <3>5. applied'[u] = Effect(txn[u].entry)
            BY <1>6, <2>1, <3>2, <3>4, BalanceAlgebra DEF PostCommit
        <3>6. Owed(u)' = Effect(txn[u].entry)
            BY <1>6, <2>1 DEF PostCommit, Owed, Row
        <3>. QED BY <3>5, <3>6 DEF RowBalanced
    <2>2. CASE u # t
        BY <1>6, <2>2 DEF PostCommit, RowBalanced, Owed
    <2>. QED BY <2>1, <2>2
<1>7. ASSUME UNCHANGED <<txn, applied>>
      PROVE  RowBalanced(u)'
    BY <1>7 DEF RowBalanced, Owed
<1>8. ASSUME NEW r \in Requests, ReadOnlyRequestStep(r)
      PROVE  UNCHANGED <<txn, applied>>
    BY <1>8, ReadOnlySteps
<1>9. ASSUME NEW j \in Jobs, (\E t \in Transactions : PostRead(j, t)) \/ PostFails(j)
      PROVE  UNCHANGED <<txn, applied>>
    BY <1>9 DEF PostRead, PostFails
<1>10. ASSUME NextDay \/ LedgerIdle
       PROVE  UNCHANGED <<txn, applied>>
    BY <1>10 DEF NextDay, LedgerIdle, ledgerVars
<1>. QED
    BY <1>1, <1>2, <1>3, <1>4, <1>5, <1>6, <1>7, <1>8, <1>9, <1>10
    DEF LedgerNext, CreateStep, RequestStep, PostingStep, ReadOnlyRequestStep

\* In every behaviour, whatever the number of requests and workers: a row and
\* the balance part ways only in a step that commits a write computed from a
\* stale read, or that edits a SCHEDULED row.
THEOREM NoOtherDrift == LedgerSpec => DriftOnlyByStaleWrite
<1>1. ASSUME TypeOK, PendingUntouched, WorkersHoldScheduled, [LedgerNext \/ LedgerIdle]_ledgerVars
      PROVE  [\A t \in Transactions :
                 RowBalanced(t) /\ ~RowBalanced(t)' => LedgerDriftCause(t)]_ledgerVars
    BY <1>1, NextDrift
<1>. QED
    BY <1>1, InitTypeOK, NextTypeOK, InitPendingUntouched, NextPendingUntouched,
       InitWorkers, NextWorkers, PTL DEF LedgerSpec, DriftOnlyByStaleWrite

-----------------------------------------------------------------------------
(* The bills: type correctness *)

\* A request that waits or is done is a bill request.
LEMMA IdleBillRequestType ==
    \A pc \in {"new", "done"} : IdleBillRequest(pc) \in BillRequestType
BY RowTypes DEF IdleBillRequest, BillRequestType, AccountRef

\* A finished bill request is a bill request.
LEMMA FinishBillType ==
    ASSUME BillsTypeOK, NEW q \in BillRequests, FinishBill(q)
    PROVE  breq' \in [BillRequests -> BillRequestType]
BY IdleBillRequestType DEF FinishBill, BillsTypeOK

\* A bill that gets paid stays a bill.
LEMMA SettledType ==
    ASSUME BillsTypeOK, NEW b, NEW t \in Transactions \cup {NoTransaction},
           NEW how \in {"GENERATED", "LINKED"}
    PROVE  Settled(b, t, how) \in [Bills -> BillType]
<1>1. \A c \in Bills :
          [bill[c] EXCEPT !.status = "PAID", !.transactionId = t, !.settlement = how] \in BillType
    BY DEF BillsTypeOK, TypeOK, BillType
<1>. QED BY <1>1 DEF Settled, BillsTypeOK, TypeOK

\* An empty database is well typed.
LEMMA InitBillsTypeOK == BillsInit => BillsTypeOK
BY InitTypeOK, IdleBillRequestType DEF BillsInit, BillsTypeOK

\* The writes of the handlers that check first keep the row a bill.
LEMMA WriteBillType ==
    ASSUME BillsTypeOK, NEW q \in BillRequests,
           CancelWrite(q) \/ ReopenWrite(q) \/ RemoveBillWrite(q) \/ EditWrite(q)
    PROVE  bill' \in [Bills -> BillType]
<1>. DEFINE b == breq[q].bill
<1>1. \A c \in Bills :
          /\ [bill[c] EXCEPT !.status = "CANCELED"] \in BillType
          /\ [bill[c] EXCEPT !.status = "PENDING"] \in BillType
          /\ [bill[c] EXCEPT !.targetAccountId = breq[q].targetAccountId] \in BillType
    <2>1. breq[q].targetAccountId \in AccountRef
        BY DEF BillsTypeOK, BillRequestType
    <2>2. \A row \in BillType :
              /\ [row EXCEPT !.status = "CANCELED"] \in BillType
              /\ [row EXCEPT !.status = "PENDING"] \in BillType
        BY DEF BillType
    <2>3. \A row \in BillType : [row EXCEPT !.targetAccountId = breq[q].targetAccountId] \in BillType
        BY <2>1 DEF BillType
    <2>. QED BY <2>2, <2>3 DEF BillsTypeOK, TypeOK
<1>2. \A row \in BillType : [bill EXCEPT ![b] = row] \in [Bills -> BillType]
    BY DEF BillsTypeOK, TypeOK
<1>3. CASE b \in Bills
    BY <1>1, <1>2, <1>3, BillTypes DEF CancelWrite, ReopenWrite, RemoveBillWrite, EditWrite, WriteBill
<1>4. CASE b \notin Bills
    BY <1>4 DEF CancelWrite, ReopenWrite, RemoveBillWrite, EditWrite, WriteBill, BillsTypeOK, TypeOK
<1>. QED BY <1>3, <1>4

\* Every step of the composition keeps every variable in its type: the ledger
\* handlers by NextTypeOK, then one step per bill handler.
LEMMA NextBillsTypeOK ==
    ASSUME BillsTypeOK, [BillsNext \/ BillsIdle]_billVars
    PROVE  BillsTypeOK'
<1>. USE DEF BillsTypeOK
<1>1. ASSUME LedgerUnderLocks \/ BillsIdle \/ UNCHANGED billVars
      PROVE  BillsTypeOK'
    BY <1>1, NextTypeOK DEF LedgerUnderLocks, BillsIdle, billVars
<1>2. ASSUME NEW b \in Bills, NEW d \in BillDrafts, CreateBill(b, d)
      PROVE  BillsTypeOK'
    <2>1. [bill[b] EXCEPT !.status = "PENDING", !.targetAccountId = d.targetAccountId,
                          !.recurring = d.recurring] \in BillType
        BY BillDraftAssumption DEF TypeOK, BillType
    <2>. QED BY <1>2, <2>1 DEF CreateBill, TypeOK
<1>3. ASSUME NEW b \in Bills, NEW t \in Transactions, NEW e \in Entries, Pay(b, t, e)
      PROVE  BillsTypeOK'
    <2>1. txn' \in [Transactions -> Row] /\ applied' \in [Transactions -> [Accounts -> Int]]
        BY <1>3, InputAssumption, InsertPostedType DEF Pay
    <2>2. bill' \in [Bills -> BillType]
        BY <1>3, SettledType DEF Pay
    <2>. QED BY <1>3, <2>1, <2>2 DEF Pay, TypeOK
<1>4. ASSUME NEW b \in Bills, UnpayLinked(b)
      PROVE  BillsTypeOK'
    BY <1>4, BillTypes DEF UnpayLinked, Unlink, TypeOK
<1>5. ASSUME NEW q \in BillRequests, NEW b \in Bills, UnpayRead(q, b)
      PROVE  BillsTypeOK'
    <2>. DEFINE t == bill[b].transactionId
    <2>1. t \in Transactions
        BY <1>5 DEF UnpayRead, CanUnpay, TypeOK, BillType
    <2>2. [breq[q] EXCEPT !.pc = "unpay", !.bill = b, !.tx = t, !.snap = txn[t]] \in BillRequestType
        BY <2>1 DEF BillRequestType, TypeOK
    <2>. QED BY <1>5, <2>2 DEF UnpayRead, ledgerVars, TypeOK
<1>6. ASSUME NEW q \in BillRequests, UnpayCommit(q)
      PROVE  BillsTypeOK'
    <2>1. breq[q].snap \in Row
        BY DEF BillRequestType
    <2>. QED BY <1>6, <2>1, DeleteWithinType, FinishBillType DEF UnpayCommit, TypeOK
<1>7. ASSUME NEW q \in BillRequests, NEW b \in Bills, NEW pc \in {"cancel", "reopen", "remove", "edit"},
             NEW a \in AccountRef, CheckBill(q, b, pc, a)
      PROVE  BillsTypeOK'
    <2>1. [breq[q] EXCEPT !.pc = pc, !.bill = b, !.targetAccountId = a,
                          !.recurring = bill[b].recurring] \in BillRequestType
        BY DEF BillRequestType, TypeOK, BillType
    <2>. QED BY <1>7, <2>1 DEF CheckBill, ledgerVars, TypeOK
<1>8. ASSUME NEW q \in BillRequests, NEW b \in Bills, NEW t \in Transactions, LinkRead(q, b, t)
      PROVE  BillsTypeOK'
    <2>1. [breq[q] EXCEPT !.pc = "link", !.bill = b, !.tx = t, !.snap = txn[t],
                          !.targetAccountId = bill[b].targetAccountId] \in BillRequestType
        BY DEF BillRequestType, TypeOK, BillType
    <2>. QED BY <1>8, <2>1 DEF LinkRead, ledgerVars, TypeOK
<1>9. ASSUME NEW q \in BillRequests,
             CancelWrite(q) \/ ReopenWrite(q) \/ RemoveBillWrite(q) \/ EditWrite(q)
      PROVE  BillsTypeOK'
    <2>1. FinishBill(q) /\ UNCHANGED <<txn, applied, plan, req, job, today>>
        BY <1>9 DEF CancelWrite, ReopenWrite, RemoveBillWrite, EditWrite, WriteBill
    <2>. QED BY <1>9, <2>1, WriteBillType, FinishBillType DEF TypeOK
<1>10. ASSUME NEW q \in BillRequests, LinkCommit(q)
       PROVE  BillsTypeOK'
    <2>1. breq[q].tx \in Transactions \cup {NoTransaction}
        BY DEF BillRequestType
    <2>2. bill' \in [Bills -> BillType]
        BY <1>10, <2>1, SettledType DEF LinkCommit
    <2>. QED BY <1>10, <2>2, FinishBillType DEF LinkCommit, TypeOK
<1>11. ASSUME NEW q \in BillRequests, BillWriteFails(q)
       PROVE  BillsTypeOK'
    BY <1>11, FinishBillType DEF BillWriteFails, ledgerVars, TypeOK
<1>12. AccountRef # {} /\ NoAccount \in AccountRef
    BY DEF AccountRef
<1>. QED
    BY <1>1, <1>2, <1>3, <1>4, <1>5, <1>6, <1>7, <1>8, <1>9, <1>10, <1>11, <1>12
    DEF BillsNext, SettleStep, BillStep

\* Every variable of the composition keeps its type in every behaviour.
THEOREM BillsTypeCorrect == BillsSpec => []BillsTypeOK
<1>. QED BY InitBillsTypeOK, NextBillsTypeOK, PTL DEF BillsSpec

-----------------------------------------------------------------------------
(* A transaction settles at most one bill *)

\* The link of a bill is a foreign key, and a link or unpay request knows which
\* row it is about.
LinksLive ==
    \A b \in Bills : bill[b].transactionId # NoTransaction => Live(bill[b].transactionId)

RequestsKnowTheirRows ==
    \A q \in BillRequests : breq[q].pc \in {"link", "unpay"} => breq[q].tx \in Transactions

SettlementInv == BillsTypeOK /\ LinksLive /\ RequestsKnowTheirRows /\ NoSharedSettlement

\* bill.findFirst finds the bill of a row if there is one.
LEMMA BillOfFinds ==
    ASSUME NEW t \in Transactions
    PROVE  /\ BillOf(t) = NoBill => \A b \in Bills : bill[b].transactionId # t
           /\ NoSharedSettlement => \A b \in Bills : bill[b].transactionId = t => BillOf(t) = b
<1>1. ASSUME NEW b \in Bills, bill[b].transactionId = t
      PROVE  BillOf(t) \in Bills /\ bill[BillOf(t)].transactionId = t
    BY <1>1 DEF BillOf
<1>. QED BY <1>1, NullAssumption DEF NoSharedSettlement

\* No handler but pay and link gives a bill a transaction, and a row that goes
\* takes its link with it.
OnlyUnlinks ==
    \A b \in Bills : \/ bill'[b].transactionId = bill[b].transactionId
                     \/ bill'[b].transactionId = NoTransaction

KeepsLinkedRows ==
    \A b \in Bills : LET t == bill'[b].transactionId
                     IN  t # NoTransaction /\ Live(t)
                             => txn'[t].postingStatus \in {"SCHEDULED", "POSTED"}

\* A step that only takes links away, and no row that stays linked, keeps the
\* links exclusive and their rows alive.
LEMMA UnlinkingKeeps ==
    ASSUME LinksLive, NoSharedSettlement, OnlyUnlinks, KeepsLinkedRows
    PROVE  LinksLive' /\ NoSharedSettlement'
<1>1. LinksLive'
    BY DEF LinksLive, OnlyUnlinks, KeepsLinkedRows, Live
<1>2. NoSharedSettlement'
    BY DEF NoSharedSettlement, OnlyUnlinks
<1>. QED BY <1>1, <1>2

\* deleteWithin is such a step: the row it deletes loses its link.
LEMMA DeleteWithinUnlinks ==
    ASSUME BillsTypeOK, NEW t, NEW snap, NEW linked, DeleteWithin(t, snap, linked)
    PROVE  OnlyUnlinks /\ KeepsLinkedRows
<1>1. OnlyUnlinks
    BY DEF DeleteWithin, BillsWithout, Reopened, SetNull, OnlyUnlinks, BillsTypeOK, TypeOK, BillType
<1>2. \A b \in Bills : bill'[b].transactionId # NoTransaction => bill'[b].transactionId # t
    BY DEF DeleteWithin, BillsWithout, Reopened, SetNull, BillsTypeOK, TypeOK, BillType
<1>3. \A u \in Transactions : u # t => txn'[u] = txn[u]
    BY DEF DeleteWithin, BillsTypeOK, TypeOK
<1>4. \A b \in Bills : bill'[b].transactionId # NoTransaction => bill'[b].transactionId \in Transactions
    BY <1>1 DEF OnlyUnlinks, BillsTypeOK, TypeOK, BillType
<1>. QED BY <1>1, <1>2, <1>3, <1>4 DEF KeepsLinkedRows, Live

\* The ledger handlers never link a bill, and delete no row that stays linked.
LEMMA LedgerUnlinks ==
    ASSUME BillsTypeOK, [LedgerNext \/ LedgerIdle]_ledgerVars
    PROVE  OnlyUnlinks /\ KeepsLinkedRows
<1>. USE DEF BillsTypeOK, TypeOK
<1>1. ASSUME NEW t \in Transactions, NEW e \in Entries, Create(t, e)
      PROVE  OnlyUnlinks /\ KeepsLinkedRows
    BY <1>1 DEF Create, InsertPosted, NewRow, OnlyUnlinks, KeepsLinkedRows, Live, BillType
<1>2. ASSUME NEW pl \in Plans, NEW p \in Purchases,
             NEW number \in [Transactions -> 0..p.installmentsCount], CreatePlan(pl, p, number)
      PROVE  OnlyUnlinks /\ KeepsLinkedRows
    BY <1>2 DEF CreatePlan, NewRow, DueStatus, OnlyUnlinks, KeepsLinkedRows, Live, BillType
<1>3. ASSUME NEW r \in Requests, UpdateCommit(r)
      PROVE  OnlyUnlinks /\ KeepsLinkedRows
    BY <1>3 DEF UpdateCommit, NewRow, OnlyUnlinks, KeepsLinkedRows, Live, BillType
<1>4. ASSUME NEW r \in Requests, RemoveCommit(r)
      PROVE  OnlyUnlinks /\ KeepsLinkedRows
    BY <1>4, DeleteWithinUnlinks DEF RemoveCommit
<1>5. ASSUME NEW r \in Requests, RemovePlanCommit(r)
      PROVE  OnlyUnlinks /\ KeepsLinkedRows
    <2>1. OnlyUnlinks
        BY <1>5 DEF RemovePlanCommit, SetNull, OnlyUnlinks, BillType
    <2>2. \A b \in Bills : LET t == bill'[b].transactionId
                            IN  t # NoTransaction => t \in Transactions
        BY <2>1 DEF OnlyUnlinks, BillType
    <2>3. \A b \in Bills : LET t == bill'[b].transactionId
                            IN  t # NoTransaction /\ Live(t) => t \notin req[r].ids
        BY <1>5 DEF RemovePlanCommit, SetNull, BillType
    <2>4. \A t \in Transactions : t \notin req[r].ids =>
              txn'[t].postingStatus = txn[t].postingStatus
        BY <1>5 DEF RemovePlanCommit, Row
    <2>. QED BY <2>1, <2>2, <2>3, <2>4 DEF KeepsLinkedRows, Live
<1>6. ASSUME NEW j \in Jobs, PostCommit(j)
      PROVE  OnlyUnlinks /\ KeepsLinkedRows
    BY <1>6 DEF PostCommit, OnlyUnlinks, KeepsLinkedRows, Live, BillType, Row
<1>7. ASSUME UNCHANGED <<txn, bill>>
      PROVE  OnlyUnlinks /\ KeepsLinkedRows
    BY <1>7 DEF OnlyUnlinks, KeepsLinkedRows, Live
<1>8. ASSUME NEW r \in Requests, ReadOnlyRequestStep(r)
      PROVE  UNCHANGED <<txn, bill>>
    BY <1>8, ReadOnlySteps
<1>9. ASSUME NEW j \in Jobs, (\E t \in Transactions : PostRead(j, t)) \/ PostFails(j)
      PROVE  UNCHANGED <<txn, bill>>
    BY <1>9 DEF PostRead, PostFails
<1>10. ASSUME NextDay \/ LedgerIdle \/ UNCHANGED ledgerVars
       PROVE  UNCHANGED <<txn, bill>>
    BY <1>10 DEF NextDay, LedgerIdle, ledgerVars
<1>. QED
    BY <1>1, <1>2, <1>3, <1>4, <1>5, <1>6, <1>7, <1>8, <1>9, <1>10
    DEF LedgerNext, CreateStep, RequestStep, PostingStep, ReadOnlyRequestStep

\* Linking a bill to a live row that no bill has keeps the links exclusive.
LEMMA LinkingKeeps ==
    ASSUME BillsTypeOK, LinksLive, NoSharedSettlement,
           NEW b, NEW t \in Transactions, NEW how, bill' = Settled(b, t, how),
           \A c \in Bills : c # b => bill[c].transactionId # t,
           \A u \in Transactions : Live(u) => txn'[u].postingStatus \in {"SCHEDULED", "POSTED"},
           txn'[t].postingStatus \in {"SCHEDULED", "POSTED"}
    PROVE  LinksLive' /\ NoSharedSettlement'
<1>1. \A c \in Bills : bill'[c].transactionId = IF c = b THEN t ELSE bill[c].transactionId
    BY DEF Settled, BillsTypeOK, TypeOK, BillType
<1>2. LinksLive'
    BY <1>1 DEF LinksLive, Live, BillsTypeOK, TypeOK, BillType
<1>3. NoSharedSettlement'
    BY <1>1 DEF NoSharedSettlement
<1>. QED BY <1>2, <1>3

\* No bill of an empty database is linked.
LEMMA InitSettlementInv == BillsInit => SettlementInv
<1>. SUFFICES ASSUME BillsInit PROVE SettlementInv
    OBVIOUS
<1>1. LinksLive /\ NoSharedSettlement
    BY DEF BillsInit, LedgerInit, NoBillRow, LinksLive, NoSharedSettlement
<1>2. RequestsKnowTheirRows
    BY DEF BillsInit, IdleBillRequest, RequestsKnowTheirRows
<1>. QED BY <1>1, <1>2, InitBillsTypeOK DEF SettlementInv

\* A link or unpay request takes its row when it starts and keeps it.
LEMMA NextRequestsKnow ==
    ASSUME BillsTypeOK, RequestsKnowTheirRows, [BillsNext \/ BillsIdle]_billVars
    PROVE  RequestsKnowTheirRows'
<1>. USE DEF BillsTypeOK, RequestsKnowTheirRows
<1>1. ASSUME UNCHANGED breq
      PROVE  RequestsKnowTheirRows'
    BY <1>1
<1>2. ASSUME LedgerUnderLocks \/ SettleStep \/ BillsIdle \/ UNCHANGED billVars
      PROVE  UNCHANGED breq
    BY <1>2 DEF LedgerUnderLocks, SettleStep, CreateBill, Pay, UnpayLinked, Unlink, BillsIdle, billVars
<1>3. ASSUME NEW q \in BillRequests, FinishBill(q)
      PROVE  RequestsKnowTheirRows'
    BY <1>3 DEF FinishBill, IdleBillRequest
<1>4. ASSUME NEW q \in BillRequests,
             \/ UnpayCommit(q) \/ CancelWrite(q) \/ ReopenWrite(q) \/ RemoveBillWrite(q)
             \/ EditWrite(q) \/ LinkCommit(q) \/ BillWriteFails(q)
      PROVE  FinishBill(q)
    BY <1>4 DEF UnpayCommit, CancelWrite, ReopenWrite, RemoveBillWrite, EditWrite, WriteBill,
                LinkCommit, BillWriteFails
<1>5. ASSUME NEW q \in BillRequests, NEW b \in Bills, UnpayRead(q, b)
      PROVE  RequestsKnowTheirRows'
    BY <1>5 DEF UnpayRead, CanUnpay, TypeOK, BillType, BillRequestType
<1>6. ASSUME NEW q \in BillRequests, NEW b \in Bills, NEW pc \in {"cancel", "reopen", "remove", "edit"},
             NEW a \in AccountRef, CheckBill(q, b, pc, a)
      PROVE  RequestsKnowTheirRows'
    BY <1>6 DEF CheckBill, BillRequestType
<1>7. ASSUME NEW q \in BillRequests, NEW b \in Bills, NEW t \in Transactions, LinkRead(q, b, t)
      PROVE  RequestsKnowTheirRows'
    BY <1>7 DEF LinkRead, BillRequestType
<1>8. NoAccount \in AccountRef
    BY DEF AccountRef
<1>. QED BY <1>1, <1>2, <1>3, <1>4, <1>5, <1>6, <1>7, <1>8 DEF BillsNext, BillStep

\* SettlementInv is inductive: every step only unlinks, except pay, whose row is
\* new and so in no bill, and link, which looked for a bill of the row.
LEMMA NextSettlementInv ==
    ASSUME SettlementInv, [BillsNext \/ BillsIdle]_billVars
    PROVE  SettlementInv'
<1>. USE DEF SettlementInv
<1>. SUFFICES LinksLive' /\ NoSharedSettlement'
    BY NextBillsTypeOK, NextRequestsKnow
<1>1. ASSUME LedgerUnderLocks \/ BillsIdle \/ UNCHANGED billVars
      PROVE  LinksLive' /\ NoSharedSettlement'
    <2>1. [LedgerNext \/ LedgerIdle]_ledgerVars
        BY <1>1 DEF LedgerUnderLocks, BillsIdle, billVars
    <2>. QED BY <2>1, LedgerUnlinks, UnlinkingKeeps
<1>2. ASSUME OnlyUnlinks, txn' = txn
      PROVE  LinksLive' /\ NoSharedSettlement'
    BY <1>2, UnlinkingKeeps DEF KeepsLinkedRows, Live
<1>3. ASSUME NEW b \in Bills, NEW d \in BillDrafts, CreateBill(b, d)
      PROVE  OnlyUnlinks /\ txn' = txn
    BY <1>3 DEF CreateBill, OnlyUnlinks, BillsTypeOK, TypeOK, BillType
<1>4. ASSUME NEW b \in Bills, NEW t \in Transactions, NEW e \in Entries, Pay(b, t, e)
      PROVE  LinksLive' /\ NoSharedSettlement'
    <2>1. txn[t].postingStatus = "UNUSED"
        BY <1>4 DEF Pay, InsertPosted
    <2>2. \A c \in Bills : bill[c].transactionId # t
        BY <2>1, NullAssumption DEF LinksLive, Live
    <2>3. \A u \in Transactions : Live(u) => txn'[u].postingStatus \in {"SCHEDULED", "POSTED"}
        BY <1>4 DEF Pay, InsertPosted, NewRow, Live, BillsTypeOK, TypeOK
    <2>4. txn'[t].postingStatus = "POSTED"
        BY <1>4 DEF Pay, InsertPosted, NewRow, BillsTypeOK, TypeOK
    <2>5. bill' = Settled(b, t, "GENERATED")
        BY <1>4 DEF Pay
    <2>. QED BY <2>2, <2>3, <2>4, <2>5, LinkingKeeps
<1>5. ASSUME NEW b \in Bills, UnpayLinked(b)
      PROVE  OnlyUnlinks /\ txn' = txn
    BY <1>5 DEF UnpayLinked, Unlink, Reopened, OnlyUnlinks, BillsTypeOK, TypeOK, BillType
<1>6. ASSUME NEW q \in BillRequests, UnpayCommit(q)
      PROVE  LinksLive' /\ NoSharedSettlement'
    BY <1>6, DeleteWithinUnlinks, UnlinkingKeeps DEF UnpayCommit
<1>7. ASSUME NEW q \in BillRequests,
             CancelWrite(q) \/ ReopenWrite(q) \/ RemoveBillWrite(q) \/ EditWrite(q)
      PROVE  OnlyUnlinks /\ txn' = txn
    BY <1>7 DEF CancelWrite, ReopenWrite, RemoveBillWrite, EditWrite, WriteBill, NoBillRow,
                OnlyUnlinks, BillsTypeOK, TypeOK, BillType
<1>8. ASSUME NEW q \in BillRequests, LinkCommit(q)
      PROVE  LinksLive' /\ NoSharedSettlement'
    <2>. DEFINE b == breq[q].bill
                t == breq[q].tx
    <2>1. t \in Transactions
        BY <1>8 DEF LinkCommit, RequestsKnowTheirRows
    <2>2. \A c \in Bills : bill[c].transactionId # t
        BY <1>8, <2>1, BillOfFinds DEF LinkCommit, CanLink
    <2>3. Live(t) /\ txn' = txn /\ bill' = Settled(b, t, "LINKED")
        BY <1>8 DEF LinkCommit, CanLink
    <2>. QED BY <2>1, <2>2, <2>3, LinkingKeeps DEF Live
<1>9. ASSUME NEW q \in BillRequests,
             \/ \E b \in Bills : UnpayRead(q, b)
             \/ \E b \in Bills, pc \in {"cancel", "reopen", "remove"} : CheckBill(q, b, pc, NoAccount)
             \/ \E b \in Bills, a \in AccountRef : CheckBill(q, b, "edit", a)
             \/ \E b \in Bills, t \in Transactions : LinkRead(q, b, t)
             \/ BillWriteFails(q)
      PROVE  OnlyUnlinks /\ txn' = txn
    BY <1>9 DEF UnpayRead, CheckBill, LinkRead, BillWriteFails, ledgerVars, OnlyUnlinks
<1>. QED
    BY <1>1, <1>2, <1>3, <1>4, <1>5, <1>6, <1>7, <1>8, <1>9 DEF BillsNext, SettleStep, BillStep

\* A transaction settles at most one bill, for any number of bills, rows and
\* concurrent requests, and without a unique index on Bill.transactionId.
THEOREM SettlementsNotShared == BillsSpec => []NoSharedSettlement
<1>1. SettlementInv => NoSharedSettlement
    BY DEF SettlementInv
<1>. QED BY <1>1, InitSettlementInv, NextSettlementInv, PTL DEF BillsSpec

-----------------------------------------------------------------------------
(* The action properties: which steps can break the tie between a bill and its *)
(* payment. Each proof assumes that the step is none of the stale writes the   *)
(* property excuses and goes through the other handlers. First the steps that  *)
(* leave the bills alone, and what a deletion does to them.                    *)

\* The handlers of the ledger that never write a bill.
BillFreeLedgerStep ==
    \/ CreateStep
    \/ \E r \in Requests : ReadOnlyRequestStep(r) \/ UpdateCommit(r)
    \/ \E j \in Jobs : PostingStep(j)
    \/ NextDay
    \/ LedgerIdle

\* They are all the handlers but the two that delete rows.
LEMMA LedgerSteps ==
    ASSUME LedgerNext \/ LedgerIdle
    PROVE  \/ BillFreeLedgerStep
           \/ \E r \in Requests : RemoveCommit(r)
           \/ \E r \in Requests : RemovePlanCommit(r)
BY DEF LedgerNext, BillFreeLedgerStep, RequestStep, ReadOnlyRequestStep

\* None of these handlers writes a bill.
LEMMA BillFreeLedgerSteps ==
    ASSUME BillFreeLedgerStep
    PROVE  bill' = bill
<1>1. ASSUME CreateStep \/ NextDay \/ LedgerIdle
      PROVE  bill' = bill
    BY <1>1 DEF CreateStep, Create, CreatePlan, NextDay, LedgerIdle, ledgerVars
<1>2. ASSUME NEW r \in Requests, ReadOnlyRequestStep(r) \/ UpdateCommit(r)
      PROVE  bill' = bill
    BY <1>2, ReadOnlySteps DEF UpdateCommit
<1>3. ASSUME NEW j \in Jobs, PostingStep(j)
      PROVE  bill' = bill
    BY <1>3 DEF PostingStep, PostRead, PostCommit, PostFails
<1>. QED BY <1>1, <1>2, <1>3 DEF BillFreeLedgerStep

\* The steps of a bill request that only read, or that are rolled back.
ReadOnlyBillStep(q) ==
    \/ \E b \in Bills : UnpayRead(q, b)
    \/ \E b \in Bills, pc \in {"cancel", "reopen", "remove"} : CheckBill(q, b, pc, NoAccount)
    \/ \E b \in Bills, a \in AccountRef : CheckBill(q, b, "edit", a)
    \/ \E b \in Bills, t \in Transactions : LinkRead(q, b, t)
    \/ BillWriteFails(q)

\* They change nothing but the request itself.
LEMMA ReadOnlyBillSteps ==
    ASSUME NEW q, ReadOnlyBillStep(q)
    PROVE  UNCHANGED ledgerVars
BY DEF ReadOnlyBillStep, UnpayRead, CheckBill, LinkRead, BillWriteFails

\* The cases of a step of the composition.
LEMMA BillsSteps ==
    ASSUME [BillsNext \/ BillsIdle]_billVars
    PROVE  \/ BillFreeLedgerStep
           \/ \E r \in Requests : RemoveCommit(r)
           \/ \E r \in Requests : RemovePlanCommit(r)
           \/ UNCHANGED ledgerVars
           \/ \E b \in Bills, d \in BillDrafts : CreateBill(b, d)
           \/ \E b \in Bills, t \in Transactions, e \in Entries : Pay(b, t, e)
           \/ \E b \in Bills : UnpayLinked(b)
           \/ \E q \in BillRequests : UnpayCommit(q)
           \/ \E q \in BillRequests : CancelWrite(q)
           \/ \E q \in BillRequests : ReopenWrite(q)
           \/ \E q \in BillRequests : RemoveBillWrite(q)
           \/ \E q \in BillRequests : EditWrite(q)
           \/ \E q \in BillRequests : LinkCommit(q)
<1>1. CASE LedgerUnderLocks
    BY <1>1, LedgerSteps DEF LedgerUnderLocks
<1>2. CASE SettleStep
    BY <1>2 DEF SettleStep
<1>3. ASSUME NEW q \in BillRequests, BillStep(q), ~ReadOnlyBillStep(q)
      PROVE  \/ UnpayCommit(q) \/ CancelWrite(q) \/ ReopenWrite(q)
             \/ RemoveBillWrite(q) \/ EditWrite(q) \/ LinkCommit(q)
    BY <1>3 DEF BillStep, ReadOnlyBillStep
<1>4. CASE BillsIdle \/ UNCHANGED billVars
    BY <1>4 DEF BillsIdle, billVars
<1>. QED BY <1>1, <1>2, <1>3, <1>4, ReadOnlyBillSteps DEF BillsNext

-----------------------------------------------------------------------------
(* What a step may do to a bill *)

\* A DELETE /transactions request takes its row when it starts and keeps it.
RemovalsKnowTheirRows ==
    \A r \in Requests : req[r].pc \in {"remove", "delete"} => req[r].tx \in Transactions

\* No request is under way at the start.
LEMMA InitRemovals == BillsInit => RemovalsKnowTheirRows
BY DEF BillsInit, LedgerInit, IdleRequest, RemovalsKnowTheirRows

\* RemovalsKnowTheirRows is inductive.
LEMMA NextRemovals ==
    ASSUME BillsTypeOK, RemovalsKnowTheirRows, [BillsNext \/ BillsIdle]_billVars
    PROVE  RemovalsKnowTheirRows'
<1>. USE DEF BillsTypeOK, TypeOK, RemovalsKnowTheirRows
<1>1. ASSUME UNCHANGED req
      PROVE  RemovalsKnowTheirRows'
    BY <1>1
<1>2. ASSUME SettleStep \/ BillsIdle \/ UNCHANGED billVars
      PROVE  UNCHANGED req
    BY <1>2 DEF SettleStep, CreateBill, Pay, UnpayLinked, Unlink, BillsIdle, billVars, ledgerVars
<1>3. ASSUME NEW q \in BillRequests, BillStep(q)
      PROVE  UNCHANGED req
    BY <1>3, ReadOnlyBillSteps
    DEF BillStep, ReadOnlyBillStep, UnpayCommit, CancelWrite, ReopenWrite, RemoveBillWrite,
        EditWrite, WriteBill, LinkCommit, ledgerVars
<1>4. ASSUME CreateStep \/ NextDay
      PROVE  UNCHANGED req
    BY <1>4 DEF CreateStep, Create, CreatePlan, NextDay
<1>5. ASSUME NEW j \in Jobs, PostingStep(j)
      PROVE  UNCHANGED req
    BY <1>5 DEF PostingStep, PostRead, PostCommit, PostFails
<1>6. ASSUME NEW r \in Requests, Finish(r)
      PROVE  RemovalsKnowTheirRows'
    BY <1>6 DEF Finish, IdleRequest
<1>7. ASSUME NEW r \in Requests,
             UpdateCommit(r) \/ RemoveCommit(r) \/ RemovePlanCommit(r) \/ WriteFails(r)
      PROVE  Finish(r)
    BY <1>7 DEF UpdateCommit, RemoveCommit, RemovePlanCommit, WriteFails
<1>8. ASSUME NEW r \in Requests, NEW t \in Transactions, NEW e \in Entries, UpdateRead(r, t, e)
      PROVE  RemovalsKnowTheirRows'
    BY <1>8 DEF UpdateRead, StartUpdate, RequestType
<1>9. ASSUME NEW r \in Requests, NEW t \in Transactions, RemoveRead(r, t)
      PROVE  RemovalsKnowTheirRows'
    BY <1>9 DEF RemoveRead, RequestType
<1>10. ASSUME NEW r \in Requests, NEW pl \in Plans, RemovePlanRead(r, pl)
       PROVE  RemovalsKnowTheirRows'
    BY <1>10 DEF RemovePlanRead, RequestType
<1>11. ASSUME NEW r \in Requests, RemoveLookup(r)
       PROVE  RemovalsKnowTheirRows'
    BY <1>11 DEF RemoveLookup, RequestType
<1>. QED
    BY <1>1, <1>2, <1>3, <1>4, <1>5, <1>6, <1>7, <1>8, <1>9, <1>10, <1>11
    DEF BillsNext, LedgerUnderLocks, LedgerNext, RequestStep

\* deleteWithin with an up-to-date lookup reopens the bill of the row it deletes
\* and leaves the others alone.
LEMMA DeleteWithinBills ==
    ASSUME SettlementInv, NEW t \in Transactions, NEW snap,
           DeleteWithin(t, snap, BillOf(t)), NEW b \in Bills
    PROVE  /\ txn'[t].postingStatus = "DELETED"
           /\ \/ bill[b].transactionId = t /\ bill'[b] = Reopened(bill[b])
              \/ bill[b].transactionId # t /\ bill'[b] = bill[b]
<1>1. BillOf(t) = b <=> bill[b].transactionId = t
    BY BillOfFinds, NullAssumption DEF SettlementInv, BillOf
<1>2. bill'[b] = IF b = BillOf(t) THEN Reopened(bill[b]) ELSE SetNull(bill[b], {t})
    BY DEF DeleteWithin, BillsWithout
<1>3. txn'[t].postingStatus = "DELETED"
    BY DEF DeleteWithin, EmptyRow, SettlementInv, BillsTypeOK, TypeOK
<1>. QED BY <1>1, <1>2, <1>3 DEF SetNull

\* The bill's link is not touched, or the bill is not paid and stays unpaid.
KeepsLink(b) ==
    /\ bill'[b].status = "PAID" <=> bill[b].status = "PAID"
    /\ bill'[b].transactionId = bill[b].transactionId
    /\ bill'[b].settlement = bill[b].settlement

\* The link goes, together with the payment the bill generated.
LosesPayment(b) ==
    /\ bill'[b] = Reopened(bill[b])
    /\ \/ bill[b].settlement = "LINKED"
       \/ txn'[bill[b].transactionId].postingStatus = "DELETED"

GetsPaid(b) ==
    /\ bill[b].status = "PENDING"
    /\ bill'[b].status = "PAID"
    /\ bill'[b].transactionId # NoTransaction
    /\ bill'[b].settlement # "NONE"

IsRemoved(b) == bill[b].status # "PAID" /\ bill'[b] = NoBillRow("DELETED")

\* Without a stale write a step does one of these four things to a bill.
LEMMA BillTransitions ==
    ASSUME SettlementInv, RemovalsKnowTheirRows, [BillsNext \/ BillsIdle]_billVars,
           NEW b \in Bills, ~SettlementBreakCause(b)
    PROVE  KeepsLink(b) \/ LosesPayment(b) \/ GetsPaid(b) \/ IsRemoved(b)
<1>. DEFINE Fine == KeepsLink(b) \/ LosesPayment(b) \/ GetsPaid(b) \/ IsRemoved(b)
<1>a. bill \in [Bills -> BillType] /\ breq \in [BillRequests -> BillRequestType]
      /\ req \in [Requests -> RequestType]
    BY DEF SettlementInv, BillsTypeOK, TypeOK
<1>1. ASSUME bill'[b] = bill[b]
      PROVE  Fine
    BY <1>1 DEF KeepsLink
<1>2. CASE BillFreeLedgerStep \/ UNCHANGED ledgerVars
    BY <1>1, <1>2, BillFreeLedgerSteps DEF ledgerVars
<1>3. ASSUME NEW t \in Transactions, NEW snap, DeleteWithin(t, snap, BillOf(t))
      PROVE  Fine
    <2>1. CASE bill[b].transactionId = t
        BY <1>3, <2>1, DeleteWithinBills DEF LosesPayment
    <2>2. CASE bill[b].transactionId # t
        BY <1>1, <1>3, <2>2, DeleteWithinBills
    <2>. QED BY <2>1, <2>2
<1>4. ASSUME NEW r \in Requests, RemoveCommit(r)
      PROVE  Fine
    <2>1. req'[r].pc = "done" /\ req[r].pc = "delete"
        BY <1>4, <1>a DEF RemoveCommit, Finish, IdleRequest
    <2>2. req[r].linked = BillOf(req[r].tx)
        BY <2>1 DEF SettlementBreakCause, StaleLookup
    <2>3. req[r].tx \in Transactions
        BY <2>1 DEF RemovalsKnowTheirRows
    <2>. QED BY <1>3, <1>4, <2>2, <2>3 DEF RemoveCommit
<1>5. ASSUME NEW r \in Requests, RemovePlanCommit(r)
      PROVE  Fine
    <2>1. req'[r].pc = "done" /\ req[r].pc = "removePlan"
        BY <1>5, <1>a DEF RemovePlanCommit, Finish, IdleRequest
    <2>2. bill[b].transactionId \notin req[r].ids
        BY <2>1 DEF SettlementBreakCause, StaleLookup
    <2>3. bill'[b] = bill[b]
        BY <1>5, <2>2 DEF RemovePlanCommit, SetNull
    <2>. QED BY <1>1, <2>3
<1>6. ASSUME NEW c \in Bills, NEW d \in BillDrafts, CreateBill(c, d)
      PROVE  Fine
    BY <1>6, <1>a DEF CreateBill, KeepsLink, BillType
<1>7. ASSUME NEW c \in Bills, NEW t \in Transactions, NEW how \in {"GENERATED", "LINKED"},
             bill[c].status = "PENDING", bill' = Settled(c, t, how)
      PROVE  Fine
    <2>1. CASE c = b
        BY <1>7, <1>a, <2>1, NullAssumption DEF Settled, GetsPaid, BillType
    <2>2. CASE c # b
        BY <1>1, <1>7, <1>a, <2>2 DEF Settled
    <2>. QED BY <2>1, <2>2
<1>8. ASSUME NEW c \in Bills, UnpayLinked(c)
      PROVE  Fine
    BY <1>1, <1>8, <1>a DEF UnpayLinked, Unlink, LosesPayment
<1>9. ASSUME NEW q \in BillRequests, UnpayCommit(q)
      PROVE  Fine
    <2>1. breq[q].tx \in Transactions
        BY <1>9 DEF UnpayCommit, SettlementInv, RequestsKnowTheirRows
    <2>. QED BY <1>3, <1>9, <2>1 DEF UnpayCommit
<1>10. ASSUME NEW q \in BillRequests, CancelWrite(q) \/ ReopenWrite(q) \/ RemoveBillWrite(q)
       PROVE  Fine
    <2>1. breq'[q].pc = "done" /\ breq[q].pc \in {"cancel", "reopen", "remove"}
        BY <1>10, <1>a
        DEF CancelWrite, ReopenWrite, RemoveBillWrite, WriteBill, FinishBill, IdleBillRequest
    <2>2. breq[q].bill = b => bill[b].status \in {"PENDING", "CANCELED"}
        BY <2>1 DEF SettlementBreakCause, StaleBillWrite, StatusRead
    <2>3. CASE breq[q].bill # b
        BY <1>1, <1>10, <1>a, <2>3
        DEF CancelWrite, ReopenWrite, RemoveBillWrite, WriteBill
    <2>4. CASE breq[q].bill = b /\ (CancelWrite(q) \/ ReopenWrite(q))
        BY <1>a, <2>2, <2>4 DEF CancelWrite, ReopenWrite, WriteBill, KeepsLink, BillType
    <2>5. CASE breq[q].bill = b /\ RemoveBillWrite(q)
        BY <1>a, <2>2, <2>5 DEF RemoveBillWrite, WriteBill, KeepsLink, IsRemoved, BillType
    <2>. QED BY <1>10, <2>3, <2>4, <2>5
<1>11. ASSUME NEW q \in BillRequests, EditWrite(q)
       PROVE  Fine
    BY <1>1, <1>11, <1>a DEF EditWrite, WriteBill, KeepsLink, BillType
<1>12. ASSUME NEW q \in BillRequests, LinkCommit(q)
       PROVE  Fine
    <2>1. breq[q].tx \in Transactions /\ bill' = Settled(breq[q].bill, breq[q].tx, "LINKED")
        BY <1>12 DEF LinkCommit, SettlementInv, RequestsKnowTheirRows
    <2>2. CASE breq[q].bill \in Bills
        BY <1>7, <1>12, <2>1, <2>2 DEF LinkCommit, CanLink
    <2>3. CASE breq[q].bill \notin Bills
        BY <1>1, <1>a, <2>1, <2>3 DEF Settled
    <2>. QED BY <2>2, <2>3
<1>13. ASSUME NEW c \in Bills, NEW t \in Transactions, NEW e \in Entries, Pay(c, t, e)
       PROVE  Fine
    BY <1>7, <1>13 DEF Pay
<1>. QED
    BY <1>2, <1>4, <1>5, <1>6, <1>8, <1>9, <1>10, <1>11, <1>12, <1>13, BillsSteps

-----------------------------------------------------------------------------
(* The two properties that follow *)

\* "PAID <=> transactionId e settlement preenchidos" is only ever broken by the
\* commit of a write whose check or lookup is stale: pay, unpay and link never
\* break it, in any interleaving of any number of requests.
THEOREM BillInvariantBreaks == BillsSpec => InvariantBrokenOnlyByStaleWrite
<1>1. ASSUME SettlementInv, RemovalsKnowTheirRows, [BillsNext \/ BillsIdle]_billVars
      PROVE  [\A b \in Bills :
                 PaidIffSettled(b) /\ ~PaidIffSettled(b)' => SettlementBreakCause(b)]_billVars
    <2>1. ASSUME NEW b \in Bills, PaidIffSettled(b), ~SettlementBreakCause(b)
          PROVE  PaidIffSettled(b)'
        <3>1. bill[b] \in BillType
            BY <1>1 DEF SettlementInv, BillsTypeOK, TypeOK
        <3>2. KeepsLink(b) \/ LosesPayment(b) \/ GetsPaid(b) \/ IsRemoved(b)
            BY <1>1, <2>1, BillTransitions
        <3>3. CASE KeepsLink(b)
            BY <2>1, <3>3 DEF KeepsLink, PaidIffSettled
        <3>4. CASE LosesPayment(b)
            BY <3>1, <3>4 DEF LosesPayment, Reopened, BillType, PaidIffSettled
        <3>5. CASE GetsPaid(b)
            BY <3>5 DEF GetsPaid, PaidIffSettled
        <3>6. CASE IsRemoved(b)
            BY <3>6 DEF IsRemoved, NoBillRow, PaidIffSettled
        <3>. QED BY <3>2, <3>3, <3>4, <3>5, <3>6
    <2>. QED BY <2>1
<1>2. SettlementInv => BillsTypeOK
    BY DEF SettlementInv
<1>. QED
    BY <1>1, <1>2, InitSettlementInv, NextSettlementInv, InitRemovals, NextRemovals, PTL
    DEF BillsSpec, InvariantBrokenOnlyByStaleWrite

\* A payment that a bill generated leaves the bill only by being deleted, except
\* in a stale write.
THEOREM PaymentsNotOrphaned == BillsSpec => GeneratedPaymentNotOrphaned
<1>1. ASSUME SettlementInv, RemovalsKnowTheirRows, [BillsNext \/ BillsIdle]_billVars
      PROVE  [\A b \in Bills :
                 GeneratedPayment(b) /\ bill'[b].transactionId # bill[b].transactionId
                 => \/ txn'[bill[b].transactionId].postingStatus = "DELETED"
                    \/ SettlementBreakCause(b)]_billVars
    BY <1>1, BillTransitions DEF GeneratedPayment, KeepsLink, LosesPayment, GetsPaid, IsRemoved
<1>2. SettlementInv => BillsTypeOK
    BY DEF SettlementInv
<1>. QED
    BY <1>1, <1>2, InitSettlementInv, NextSettlementInv, InitRemovals, NextRemovals, PTL
    DEF BillsSpec, GeneratedPaymentNotOrphaned

-----------------------------------------------------------------------------
(* The balance under the composition *)

\* What the first part needs of the ledger part of a state.
DriftInv == SettlementInv /\ PendingUntouched /\ WorkersHoldScheduled

\* No row has touched a balance and no worker holds a row at the start.
LEMMA InitDriftInv == BillsInit => DriftInv
BY InitSettlementInv, InitPendingUntouched, InitWorkers DEF BillsInit, DriftInv

\* A bill handler that writes the ledger inserts a POSTED row or deletes one;
\* every other one leaves rows, balances and workers alone.
LEMMA BillHandlersOnLedger ==
    ASSUME BillsTypeOK, SettleStep \/ \E q \in BillRequests : BillStep(q)
    PROVE  \/ UNCHANGED <<txn, applied, job>>
           \/ \E t \in Transactions, e \in EntryType : InsertPosted(t, e) /\ UNCHANGED job
           \/ \E q \in BillRequests : UnpayCommit(q)
<1>1. ASSUME NEW b \in Bills, NEW t \in Transactions, NEW e \in Entries, Pay(b, t, e)
      PROVE  e \in EntryType /\ InsertPosted(t, e) /\ UNCHANGED job
    BY <1>1, InputAssumption DEF Pay
<1>2. ASSUME NEW b \in Bills, (\E d \in BillDrafts : CreateBill(b, d)) \/ UnpayLinked(b)
      PROVE  UNCHANGED <<txn, applied, job>>
    BY <1>2 DEF CreateBill, UnpayLinked, Unlink
<1>3. ASSUME NEW q \in BillRequests, BillStep(q), ~UnpayCommit(q)
      PROVE  UNCHANGED <<txn, applied, job>>
    BY <1>3, ReadOnlyBillSteps
    DEF BillStep, ReadOnlyBillStep, CancelWrite, ReopenWrite, RemoveBillWrite, EditWrite,
        WriteBill, LinkCommit, ledgerVars
<1>. QED BY <1>1, <1>2, <1>3 DEF SettleStep

\* DriftInv is inductive: the handlers of bills apply nothing for a row that is
\* not POSTED, and leave the workers alone.
LEMMA NextDriftInv ==
    ASSUME DriftInv, [BillsNext \/ BillsIdle]_billVars
    PROVE  DriftInv'
<1>. USE DEF DriftInv
<1>. SUFFICES PendingUntouched' /\ WorkersHoldScheduled'
    BY NextSettlementInv
<1>1. TypeOK /\ BillsTypeOK
    BY DEF SettlementInv, BillsTypeOK
<1>2. ASSUME LedgerUnderLocks \/ BillsIdle \/ UNCHANGED billVars
      PROVE  PendingUntouched' /\ WorkersHoldScheduled'
    <2>1. [LedgerNext \/ LedgerIdle]_ledgerVars
        BY <1>2 DEF LedgerUnderLocks, BillsIdle, billVars
    <2>. QED BY <1>1, <2>1, NextPendingUntouched, NextWorkers
<1>3. ASSUME UNCHANGED <<txn, applied, job>>
      PROVE  PendingUntouched' /\ WorkersHoldScheduled'
    BY <1>3 DEF PendingUntouched, WorkersHoldScheduled
<1>4. ASSUME NEW t \in Transactions, NEW e \in EntryType, InsertPosted(t, e), UNCHANGED job
      PROVE  PendingUntouched' /\ WorkersHoldScheduled'
    BY <1>1, <1>4 DEF InsertPosted, NewRow, TypeOK, PendingUntouched, WorkersHoldScheduled
<1>5. ASSUME NEW q \in BillRequests, UnpayCommit(q)
      PROVE  PendingUntouched' /\ WorkersHoldScheduled'
    BY <1>1, <1>5
    DEF UnpayCommit, DeleteWithin, Reverted, EmptyRow, TypeOK, Row, PendingUntouched,
        WorkersHoldScheduled
<1>. QED BY <1>1, <1>2, <1>3, <1>4, <1>5, BillHandlersOnLedger DEF BillsNext

\* Of the bill handlers only unpay can make the balance drift, and only if the
\* transaction changed after it was read; of the ledger handlers only those that
\* DriftOnlyByStaleWrite names, in any interleaving of both.
THEOREM NoOtherBillDrift == BillsSpec => BillsDriftOnlyByStaleWrite
<1>1. ASSUME DriftInv, BillsNext \/ BillsIdle, NEW t \in Transactions, RowBalanced(t),
             ~LedgerDriftCause(t), \A q \in BillRequests : ~StaleUnpay(q, t)
      PROVE  RowBalanced(t)'
    <2>1. TypeOK /\ BillsTypeOK
        BY <1>1 DEF DriftInv, SettlementInv, BillsTypeOK
    <2>2. CASE LedgerUnderLocks
        BY <1>1, <2>1, <2>2, NextDrift DEF LedgerUnderLocks, DriftInv
    <2>3. CASE UNCHANGED <<txn, applied>>
        BY <1>1, <2>3 DEF RowBalanced, Owed
    <2>4. ASSUME NEW u \in Transactions, NEW e \in EntryType, InsertPosted(u, e)
          PROVE  RowBalanced(t)'
        BY <1>1, <2>1, <2>4, InsertPostedBalanced
    <2>5. ASSUME NEW q \in BillRequests, UnpayCommit(q)
          PROVE  RowBalanced(t)'
        <3>1. breq[q].pc = "unpay" /\ breq'[q].pc = "done"
            BY <2>1, <2>5 DEF UnpayCommit, FinishBill, IdleBillRequest, BillsTypeOK
        <3>2. t = breq[q].tx => breq[q].snap = txn[breq[q].tx]
            BY <1>1, <3>1 DEF StaleUnpay
        <3>3. breq[q].snap \in Row
            BY <2>1 DEF BillsTypeOK, BillRequestType
        <3>. QED BY <1>1, <2>1, <2>5, <3>2, <3>3, DeleteWithinBalanced DEF UnpayCommit
    <2>6. BillsIdle => UNCHANGED <<txn, applied>>
        BY DEF BillsIdle, billVars, ledgerVars
    <2>. QED
        BY <1>1, <2>1, <2>2, <2>3, <2>4, <2>5, <2>6, BillHandlersOnLedger DEF BillsNext
<1>2. ASSUME DriftInv, [BillsNext \/ BillsIdle]_billVars
      PROVE  [\A t \in Transactions :
                 RowBalanced(t) /\ ~RowBalanced(t)' =>
                     LedgerDriftCause(t) \/ \E q \in BillRequests : StaleUnpay(q, t)]_billVars
    BY <1>1, <1>2
<1>. QED
    BY <1>2, InitDriftInv, NextDriftInv, PTL DEF BillsSpec, BillsDriftOnlyByStaleWrite

-----------------------------------------------------------------------------
(* The type of a payment *)

\* The type a payment of a bill with this target has.
PaymentType(target) == IF target # NoAccount THEN "TRANSFER" ELSE "EXPENSE"

\* An update of a row that paid a bill when it was read keeps the row's type, and
\* a link was asked for a row that paid the bill as both were then.
ChecksWereMade ==
    /\ \A r \in Requests :
           req[r].pc = "update" /\ req[r].linked # NoBill
               => req[r].dto.type = req[r].snap.entry.type
    /\ \A q \in BillRequests :
           breq[q].pc = "link"
               => breq[q].snap.entry.type = PaymentType(breq[q].targetAccountId)

\* No request has checked anything at the start.
LEMMA InitChecks == BillsInit => ChecksWereMade
BY DEF BillsInit, LedgerInit, IdleRequest, IdleBillRequest, ChecksWereMade

\* ChecksWereMade is inductive: a request keeps what it read until it is done.
LEMMA NextChecks ==
    ASSUME BillsTypeOK, ChecksWereMade, [BillsNext \/ BillsIdle]_billVars
    PROVE  ChecksWereMade'
<1>. USE DEF BillsTypeOK, TypeOK, ChecksWereMade
<1>1. ASSUME UNCHANGED <<req, breq>>
      PROVE  ChecksWereMade'
    BY <1>1
<1>2. ASSUME SettleStep \/ BillsIdle \/ UNCHANGED billVars
      PROVE  UNCHANGED <<req, breq>>
    BY <1>2 DEF SettleStep, CreateBill, Pay, UnpayLinked, Unlink, BillsIdle, billVars, ledgerVars
<1>3. ASSUME NEW r \in Requests, Finish(r), UNCHANGED breq
      PROVE  ChecksWereMade'
    BY <1>3 DEF Finish, IdleRequest
<1>4. ASSUME NEW r \in Requests, NEW t \in Transactions, NEW e \in Entries, UpdateRead(r, t, e),
             UNCHANGED breq
      PROVE  ChecksWereMade'
    BY <1>4 DEF UpdateRead, StartUpdate, RequestType
<1>5. ASSUME NEW r \in Requests, UNCHANGED breq,
             \/ \E t \in Transactions : RemoveRead(r, t)
             \/ \E pl \in Plans : RemovePlanRead(r, pl)
             \/ RemoveLookup(r)
      PROVE  ChecksWereMade'
    <2>1. \A s \in Requests : req'[s].pc = "update" => req'[s] = req[s]
        <3>1. ASSUME NEW t \in Transactions, RemoveRead(r, t)
              PROVE  \A s \in Requests : req'[s].pc = "update" => req'[s] = req[s]
            BY <3>1 DEF RemoveRead, RequestType
        <3>2. ASSUME NEW pl \in Plans, RemovePlanRead(r, pl)
              PROVE  \A s \in Requests : req'[s].pc = "update" => req'[s] = req[s]
            BY <3>2 DEF RemovePlanRead, RequestType
        <3>3. ASSUME RemoveLookup(r)
              PROVE  \A s \in Requests : req'[s].pc = "update" => req'[s] = req[s]
            BY <3>3 DEF RemoveLookup, RequestType
        <3>. QED BY <1>5, <3>1, <3>2, <3>3
    <2>. QED BY <1>5, <2>1
<1>6. ASSUME LedgerUnderLocks
      PROVE  ChecksWereMade'
    <2>1. ASSUME CreateStep \/ NextDay \/ \E j \in Jobs : PostingStep(j)
          PROVE  UNCHANGED req
        BY <2>1 DEF CreateStep, Create, CreatePlan, NextDay, PostingStep, PostRead, PostCommit, PostFails
    <2>2. ASSUME NEW r \in Requests,
                 UpdateCommit(r) \/ RemoveCommit(r) \/ RemovePlanCommit(r) \/ WriteFails(r)
          PROVE  Finish(r)
        BY <2>2 DEF UpdateCommit, RemoveCommit, RemovePlanCommit, WriteFails
    <2>. QED BY <1>1, <1>3, <1>4, <1>5, <1>6, <2>1, <2>2 DEF LedgerUnderLocks, LedgerNext, RequestStep
<1>7. ASSUME NEW q \in BillRequests, FinishBill(q), UNCHANGED req
      PROVE  ChecksWereMade'
    BY <1>7 DEF FinishBill, IdleBillRequest
<1>8. ASSUME NEW q \in BillRequests, UNCHANGED req,
             \/ \E b \in Bills : UnpayRead(q, b)
             \/ \E b \in Bills, pc \in {"cancel", "reopen", "remove"} : CheckBill(q, b, pc, NoAccount)
             \/ \E b \in Bills, a \in AccountRef : CheckBill(q, b, "edit", a)
      PROVE  ChecksWereMade'
    <2>1. ASSUME NEW b \in Bills, UnpayRead(q, b)
          PROVE  ChecksWereMade'
        BY <1>8, <2>1 DEF UnpayRead, BillRequestType
    <2>2. ASSUME NEW b, NEW pc \in {"cancel", "reopen", "remove", "edit"}, NEW a,
                 CheckBill(q, b, pc, a)
          PROVE  ChecksWereMade'
        BY <1>8, <2>2 DEF CheckBill, BillRequestType
    <2>. QED BY <1>8, <2>1, <2>2
<1>9. ASSUME NEW q \in BillRequests, NEW b \in Bills, NEW t \in Transactions, LinkRead(q, b, t)
      PROVE  ChecksWereMade'
    BY <1>9 DEF LinkRead, PaysFor, PaymentType, BillRequestType, ledgerVars
<1>10. ASSUME NEW q \in BillRequests,
              \/ UnpayCommit(q) \/ CancelWrite(q) \/ ReopenWrite(q) \/ RemoveBillWrite(q)
              \/ EditWrite(q) \/ LinkCommit(q) \/ BillWriteFails(q)
       PROVE  FinishBill(q)
    BY <1>10 DEF UnpayCommit, CancelWrite, ReopenWrite, RemoveBillWrite, EditWrite, WriteBill,
                 LinkCommit, BillWriteFails
<1>11. ASSUME NEW q \in BillRequests, BillStep(q)
       PROVE  UNCHANGED req
    BY <1>11, ReadOnlyBillSteps
    DEF BillStep, ReadOnlyBillStep, UnpayCommit, CancelWrite, ReopenWrite, RemoveBillWrite,
        EditWrite, WriteBill, LinkCommit, ledgerVars
<1>. QED
    BY <1>1, <1>2, <1>6, <1>7, <1>8, <1>9, <1>10, <1>11 DEF BillsNext, BillStep

\* Why a bill may lose the type of its payment.
TypeBreakCause(b) ==
    \/ \E q \in BillRequests :
          /\ breq[q].bill = b
          /\ breq'[q].pc = "done"
          /\ \/ breq[q].pc = "edit" /\ bill[b].status # "PENDING"
             \/ /\ breq[q].pc = "link"
                /\ \/ breq[q].snap # txn[breq[q].tx]
                   \/ breq[q].targetAccountId # bill[b].targetAccountId
    \/ \E r \in Requests :
          /\ req[r].pc = "update"
          /\ req'[r].pc = "done"
          /\ req[r].tx = bill[b].transactionId
          /\ \/ req[r].linked # b
             \/ req[r].snap # txn[req[r].tx]

\* The row that pays a bill keeps its type, or is not there any more.
KeepsType(t) == t # NoTransaction => txn'[t].entry.type = txn[t].entry.type

\* A ledger handler takes the link away from a bill or keeps the type of its row.
LEMMA LedgerKeepsType ==
    ASSUME SettlementInv, ChecksWereMade, LedgerNext \/ LedgerIdle,
           NEW b \in Bills, ~TypeBreakCause(b)
    PROVE  /\ bill'[b].targetAccountId = bill[b].targetAccountId
           /\ \/ bill'[b].transactionId = NoTransaction
              \/ bill'[b] = bill[b] /\ KeepsType(bill[b].transactionId)
<1>. DEFINE t == bill[b].transactionId
            Fine == \/ bill'[b].transactionId = NoTransaction
                    \/ bill'[b] = bill[b] /\ KeepsType(t)
            SameTarget == bill'[b].targetAccountId = bill[b].targetAccountId
<1>a. TypeOK /\ bill[b] \in BillType
    BY DEF SettlementInv, BillsTypeOK, TypeOK
<1>b. t # NoTransaction => t \in Transactions /\ Live(t)
    BY <1>a DEF SettlementInv, LinksLive, BillType
<1>1. ASSUME CreateStep
      PROVE  SameTarget /\ Fine
    <2>1. t # NoTransaction => txn'[t] = txn[t]
        BY <1>1, <1>a, <1>b DEF CreateStep, Create, InsertPosted, CreatePlan, TypeOK, Live
    <2>. QED BY <1>1, <2>1 DEF CreateStep, Create, CreatePlan, KeepsType
<1>2. ASSUME NEW r \in Requests, UpdateCommit(r)
      PROVE  SameTarget /\ Fine
    <2>1. CASE req[r].tx = t /\ t # NoTransaction
        <3>1. req[r].pc = "update" /\ req'[r].pc = "done"
            BY <1>2, <1>a DEF UpdateCommit, Finish, IdleRequest, TypeOK
        <3>2. req[r].linked = b /\ req[r].snap = txn[t]
            BY <2>1, <3>1 DEF TypeBreakCause
        <3>3. req[r].dto.type = txn[t].entry.type
            BY <3>1, <3>2, NullAssumption DEF ChecksWereMade
        <3>4. txn'[t].entry = req[r].dto
            BY <1>2, <1>a, <1>b, <2>1 DEF UpdateCommit, NewRow, TypeOK
        <3>. QED BY <1>2, <3>3, <3>4 DEF UpdateCommit, KeepsType
    <2>2. CASE req[r].tx # t \/ t = NoTransaction
        BY <1>2, <1>a, <1>b, <2>2 DEF UpdateCommit, KeepsType, TypeOK
    <2>. QED BY <2>1, <2>2
<1>3. ASSUME NEW r \in Requests, RemoveCommit(r)
      PROVE  SameTarget /\ Fine
    <2>. DEFINE u == req[r].tx
    <2>1. bill'[b] = IF b = req[r].linked THEN Reopened(bill[b]) ELSE SetNull(bill[b], {u})
        BY <1>3 DEF RemoveCommit, DeleteWithin, BillsWithout
    <2>2. SameTarget
        BY <1>a, <2>1 DEF Reopened, SetNull, BillType
    <2>3. CASE b = req[r].linked \/ t = u
        BY <1>a, <2>1, <2>3 DEF Reopened, SetNull, BillType
    <2>4. CASE b # req[r].linked /\ t # u
        BY <1>3, <1>a, <1>b, <2>1, <2>4
        DEF SetNull, RemoveCommit, DeleteWithin, KeepsType, TypeOK
    <2>. QED BY <2>2, <2>3, <2>4
<1>4. ASSUME NEW r \in Requests, RemovePlanCommit(r)
      PROVE  SameTarget /\ Fine
    <2>1. bill'[b] = SetNull(bill[b], {u \in req[r].ids : Live(u)})
        BY <1>4 DEF RemovePlanCommit
    <2>2. CASE t \in req[r].ids /\ Live(t)
        BY <1>a, <2>1, <2>2 DEF SetNull, BillType
    <2>3. CASE ~(t \in req[r].ids /\ Live(t))
        <3>1. t # NoTransaction => txn'[t].entry = txn[t].entry
            BY <1>4, <1>a, <1>b, <2>3 DEF RemovePlanCommit, TypeOK, Row
        <3>. QED BY <2>1, <2>3, <3>1 DEF SetNull, KeepsType
    <2>. QED BY <2>2, <2>3
<1>5. ASSUME NEW j \in Jobs, PostingStep(j)
      PROVE  SameTarget /\ Fine
    <2>1. t # NoTransaction => txn'[t].entry = txn[t].entry
        BY <1>5, <1>a, <1>b DEF PostingStep, PostRead, PostCommit, PostFails, TypeOK, Row
    <2>. QED BY <1>5, <2>1 DEF PostingStep, PostRead, PostCommit, PostFails, KeepsType
<1>6. ASSUME UNCHANGED <<txn, bill>>
      PROVE  SameTarget /\ Fine
    BY <1>6 DEF KeepsType
<1>7. ASSUME NEW r \in Requests, ReadOnlyRequestStep(r)
      PROVE  UNCHANGED <<txn, bill>>
    BY <1>7, ReadOnlySteps
<1>8. NextDay \/ LedgerIdle => UNCHANGED <<txn, bill>>
    BY DEF NextDay, LedgerIdle, ledgerVars
<1>. QED
    BY <1>1, <1>2, <1>3, <1>4, <1>5, <1>6, <1>7, <1>8
    DEF LedgerNext, RequestStep, ReadOnlyRequestStep

\* A bill that is paid by a row of the right type stays so in a step that leaves
\* its target alone and takes the link away or keeps the row's type.
LEMMA KeptTypeFits ==
    ASSUME NEW b, PaymentTypeFits(b), bill'[b].targetAccountId = bill[b].targetAccountId,
           \/ bill'[b].transactionId = NoTransaction
           \/ bill'[b].status # "PAID"
           \/ /\ bill'[b].status = bill[b].status
              /\ bill'[b].transactionId = bill[b].transactionId
              /\ KeepsType(bill[b].transactionId)
    PROVE  PaymentTypeFits(b)'
BY DEF PaymentTypeFits, PaysFor, KeepsType

\* No handler of bills loses the type of a payment either, unless it was checked
\* too early.
LEMMA BillHandlersKeepType ==
    ASSUME SettlementInv, ChecksWereMade, SettleStep \/ \E q \in BillRequests : BillStep(q),
           NEW b \in Bills, PaymentTypeFits(b), ~TypeBreakCause(b)
    PROVE  PaymentTypeFits(b)'
<1>a. /\ bill \in [Bills -> BillType] /\ breq \in [BillRequests -> BillRequestType] /\ TypeOK
      /\ RequestsKnowTheirRows
    BY DEF SettlementInv, BillsTypeOK, TypeOK
<1>b. bill[b].transactionId # NoTransaction =>
          bill[b].transactionId \in Transactions /\ Live(bill[b].transactionId)
    BY <1>a DEF SettlementInv, LinksLive, BillType
<1>1. ASSUME txn' = txn, bill'[b] = bill[b]
      PROVE  PaymentTypeFits(b)'
    BY <1>1 DEF PaymentTypeFits, PaysFor
<1>2. ASSUME NEW c \in Bills, NEW d \in BillDrafts, CreateBill(c, d)
      PROVE  PaymentTypeFits(b)'
    BY <1>1, <1>2, <1>a DEF CreateBill, PaymentTypeFits, BillType
<1>3. ASSUME NEW c \in Bills, NEW t \in Transactions, NEW e \in Entries, Pay(c, t, e)
      PROVE  PaymentTypeFits(b)'
    <2>1. txn' = [txn EXCEPT ![t] = NewRow(e, NoPlan, "POSTED")] /\ ~Live(t)
        BY <1>3 DEF Pay, InsertPosted, Live
    <2>2. CASE c = b
        <3>1. /\ bill'[b].targetAccountId = bill[b].targetAccountId
              /\ bill'[b].transactionId = t
            BY <1>3, <1>a, <2>2 DEF Pay, Settled, BillType
        <3>2. txn'[t].entry = e
            BY <1>a, <2>1 DEF NewRow, TypeOK
        <3>. QED BY <1>3, <2>2, <3>1, <3>2 DEF Pay, PaymentTypeFits, PaysFor
    <2>3. CASE c # b
        <3>1. bill'[b] = bill[b]
            BY <1>3, <1>a, <2>3 DEF Pay, Settled
        <3>2. KeepsType(bill[b].transactionId)
            BY <1>a, <1>b, <2>1 DEF KeepsType, TypeOK
        <3>. QED BY <3>1, <3>2, KeptTypeFits
    <2>. QED BY <2>2, <2>3
<1>4. ASSUME NEW c \in Bills, UnpayLinked(c)
      PROVE  PaymentTypeFits(b)'
    BY <1>1, <1>4, <1>a DEF UnpayLinked, Unlink, Reopened, PaymentTypeFits, BillType
<1>5. ASSUME NEW q \in BillRequests, UnpayCommit(q)
      PROVE  PaymentTypeFits(b)'
    <2>. DEFINE t == breq[q].tx
    <2>1. t \in Transactions /\ DeleteWithin(t, breq[q].snap, BillOf(t))
        BY <1>5, <1>a DEF UnpayCommit, RequestsKnowTheirRows
    <2>2. \/ bill'[b] = Reopened(bill[b])
          \/ bill[b].transactionId # t /\ bill'[b] = bill[b]
        BY <2>1, DeleteWithinBills
    <2>3. CASE bill'[b] = Reopened(bill[b])
        BY <1>a, <2>3 DEF Reopened, PaymentTypeFits, BillType
    <2>4. CASE bill[b].transactionId # t /\ bill'[b] = bill[b]
        <3>1. KeepsType(bill[b].transactionId)
            BY <1>a, <1>b, <2>1, <2>4 DEF DeleteWithin, KeepsType, TypeOK
        <3>. QED BY <2>4, <3>1, KeptTypeFits
    <2>. QED BY <2>2, <2>3, <2>4
<1>6. ASSUME NEW q \in BillRequests, CancelWrite(q) \/ ReopenWrite(q) \/ RemoveBillWrite(q)
      PROVE  PaymentTypeFits(b)'
    <2>1. CASE breq[q].bill # b
        BY <1>1, <1>6, <1>a, <2>1 DEF CancelWrite, ReopenWrite, RemoveBillWrite, WriteBill
    <2>2. CASE breq[q].bill = b
        <3>1. bill'[b].status # "PAID"
            BY <1>6, <1>a, <2>2
            DEF CancelWrite, ReopenWrite, RemoveBillWrite, WriteBill, NoBillRow, BillType
        <3>. QED BY <3>1 DEF PaymentTypeFits
    <2>. QED BY <2>1, <2>2
<1>7. ASSUME NEW q \in BillRequests, EditWrite(q)
      PROVE  PaymentTypeFits(b)'
    <2>1. CASE breq[q].bill # b
        BY <1>1, <1>7, <1>a, <2>1 DEF EditWrite, WriteBill
    <2>2. CASE breq[q].bill = b
        <3>1. breq[q].pc = "edit" /\ breq'[q].pc = "done"
            BY <1>7, <1>a DEF EditWrite, WriteBill, FinishBill, IdleBillRequest
        <3>2. bill[b].status = "PENDING"
            BY <2>2, <3>1 DEF TypeBreakCause
        <3>3. bill'[b].status # "PAID"
            BY <1>7, <1>a, <2>2, <3>2 DEF EditWrite, WriteBill, BillType
        <3>. QED BY <3>3 DEF PaymentTypeFits
    <2>. QED BY <2>1, <2>2
<1>8. ASSUME NEW q \in BillRequests, LinkCommit(q)
      PROVE  PaymentTypeFits(b)'
    <2>. DEFINE t == breq[q].tx
    <2>1. CASE breq[q].bill # b
        BY <1>1, <1>8, <1>a, <2>1 DEF LinkCommit, Settled
    <2>2. CASE breq[q].bill = b
        <3>1. breq[q].pc = "link" /\ breq'[q].pc = "done"
            BY <1>8, <1>a DEF LinkCommit, FinishBill, IdleBillRequest
        <3>2. breq[q].snap = txn[t] /\ breq[q].targetAccountId = bill[b].targetAccountId
            BY <2>2, <3>1 DEF TypeBreakCause
        <3>3. txn[t].entry.type = PaymentType(bill[b].targetAccountId)
            BY <3>1, <3>2 DEF ChecksWereMade
        <3>4. /\ bill'[b].transactionId = t
              /\ bill'[b].targetAccountId = bill[b].targetAccountId
              /\ txn' = txn
            BY <1>8, <1>a, <2>2 DEF LinkCommit, Settled, BillType
        <3>. QED BY <3>3, <3>4 DEF PaymentTypeFits, PaysFor, PaymentType
    <2>. QED BY <2>1, <2>2
<1>9. ASSUME NEW q \in BillRequests, ReadOnlyBillStep(q)
      PROVE  PaymentTypeFits(b)'
    BY <1>1, <1>9, ReadOnlyBillSteps DEF ledgerVars
<1>. QED
    BY <1>2, <1>3, <1>4, <1>5, <1>6, <1>7, <1>8, <1>9
    DEF SettleStep, BillStep, ReadOnlyBillStep

\* The row that pays a bill loses the type the bill needs only by a write that
\* was checked too early, whatever the number of bills, rows and requests.
THEOREM PaymentTypeBreaks == BillsSpec => PaymentTypeLostOnlyByStaleWrite
<1>1. ASSUME SettlementInv, ChecksWereMade, BillsNext \/ BillsIdle, NEW b \in Bills,
             PaymentTypeFits(b), ~TypeBreakCause(b)
      PROVE  PaymentTypeFits(b)'
    <2>1. CASE LedgerUnderLocks \/ BillsIdle
        <3>1. LedgerNext \/ LedgerIdle
            BY <2>1 DEF LedgerUnderLocks, BillsIdle, LedgerIdle, billVars
        <3>. QED BY <1>1, <3>1, LedgerKeepsType, KeptTypeFits
    <2>2. CASE SettleStep \/ \E q \in BillRequests : BillStep(q)
        BY <1>1, <2>2, BillHandlersKeepType
    <2>. QED BY <1>1, <2>1, <2>2 DEF BillsNext
<1>2. ASSUME SettlementInv, ChecksWereMade, [BillsNext \/ BillsIdle]_billVars
      PROVE  [\A b \in Bills :
                 PaymentTypeFits(b) /\ ~PaymentTypeFits(b)' => TypeBreakCause(b)]_billVars
    BY <1>1, <1>2
<1>3. SettlementInv => BillsTypeOK
    BY DEF SettlementInv
<1>. QED
    BY <1>2, <1>3, InitSettlementInv, NextSettlementInv, InitChecks, NextChecks, PTL
    DEF BillsSpec, PaymentTypeLostOnlyByStaleWrite, TypeBreakCause
=============================================================================
