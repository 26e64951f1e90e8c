# Orcadom: TLA+ models, model checks and proofs

Orcadom is a household budgeting application: a NestJS API over PostgreSQL
(Prisma), cron jobs in the same process, a Next.js front end with a service worker.
This directory models the parts of it that change state, in the API
(`src/apps/api/src`), in the database package and in the browser (`src/apps/web`),
checks them with TLC on small instances and proves most of the results with TLAPS for
every instance.

```
tlc -workers 2 -config MCLedger.cfg MCLedger     # a run
tlapm BillsProofs.tla                            # the proofs
```

## 1. The system

Paths are relative to `src/apps/api/src/modules/` unless they start with `src/`,
and to the repository's `docs/` when they start with a number.

| Component | State it keeps | Operations | Talks to | What is hard | What makes it correct |
|---|---|---|---|---|---|
| Transactions and balances (`transactions/`, `common/balance.ts`) | `transactions` rows, `Account.balance` | create, update, remove; `createWithin`, `deleteWithin` inside the transactions of others | bills (unlink on delete), budgets, goals | rows are read before the write transaction | the balance column equals the statement |
| Installment plans (`installment-plans/`) | `installment_plans`, its rows | create, remove | balances | removal races posting; months of different length | scheduled rows touched no balance; the split adds up |
| Posting job (`posting.service.ts`, `posting.ts`) | `postingStatus` | daily cron | balances | overlapping runs, deletions under way | each row is applied once; due rows do get posted |
| Bills to pay (`bills/`) | `bills` | create, update, pay, unpay, cancel, reopen, remove, link | transactions | half of the handlers lock the bill, half do not | PAID iff settled; one bill per payment; the right type of payment |
| Imports (`imports/`), e-mail automation (`automation/`), mappings | `import_batches`, in-memory preview cache, `email_import_logs` | upload, preview, confirm, discard, ingest | transactions, bills | two confirmations, confirm against discard, stale previews, redelivery, restart | a statement line enters once; a closed batch stays closed |
| Recurring transactions (`recurring-transactions/`) | `recurring_transactions`, occurrences, generated bills | create, update, pause, resume, remove, daily generation | transactions, bills | the cursor is the latest row; loops of inserts outside a transaction | a date is generated once, and none is skipped |
| Sessions (`auth/`, `src/apps/web/src/lib/api.ts`, `proxy.ts`, `sw.js`) | `refresh_tokens`, cookies, caches | login, refresh, logout | browser | parallel refreshes, lost and late answers, reuse detection | one live token per login; nobody sees another user's answers |
| Households (`households/`), accounts (`accounts/`, `account-access.ts`) | members, invites, accounts, access rows | invite, accept, revoke, leave, remove; create, restrict, delete | everything | every handler checks first and writes later, without locks | an owner remains; who was removed stays out; access is respected |
| Categories (`categories/`) | the tree | create, move, delete | budgets, reports | the place is judged on a tree read before | no cycle, three levels |
| Budgets (`budgets/`) | versions with the months they are in force | replace, end; snapshots before and after an expense | notifications | snapshots outside the transaction | a crossing is announced once |
| Savings goals (`savings-goals/`) | goals | create, edit, abandon, delete, complete | transfers, notifications | read, add up, then write by id | completed once, and only when reached |
| Notifications (`notifications/`) | notifications, push subscriptions | persist, mail, push | all events | partial delivery; nothing of a delivery is stored | everyone concerned is told |
| Open Finance (`open-finance/`) | credentials, connections, external keys | save, sync, webhook, daily sync, register, revoke | provider, transactions | overlapping syncs, provider errors, dates that move | a movement enters once, none is left behind |
| Reports (`reports/`) | report rows and files | request, generate, resume, expire | notifications, storage | two generations of one report, restart | a report that can be downloaded is whole |
| Audit log (`src/packages/database/src/audit.ts`) | log entries | capture of every write | every service | entries go through another connection than the write | the log can be replayed |
| Web application (`src/apps/web`) | the query cache, the active household, history entries, pickers | pages, mutations, switch, sheets, gestures | API, browser | answers, popstate events and renderings arrive later than the user acts | the page shows what it says it shows |
| Statement parsers, dashboard, onboarding and settings, infrastructure | – | – | – | – | not modelled, see section 7 |

The services call each other inside one `$transaction` (a payment inserts a row, an import pays
a bill), through domain events after the commit (budgets, goals and reports tell the
notification listener), or through shared rows (the posting job and every handler of
`/transactions`). The browser reads what they left through a cache and a service worker. The
hazards of each meeting point, with the lines where they bite, are listed in `PROJECT.json`.

## 2. Modules

| Module | What it models | Composed by |
|---|---|---|
| `Ledger` | transactions, balances, installment plans, posting job | `MCLedger` |
| `Bills` (`EXTENDS Ledger`) | bills to pay, on the same rows | `MCBills` |
| `BillsProofs`, `ImportsProofs`, `SessionsProofs`, `HouseholdsProofs`, `PlanningProofs`, `OpenFinanceProofs`, `ScreensProofs` | the theorems of section 5, each about the module it is named after; `BillsProofs` also about `Ledger`, `HouseholdsProofs` about `Recurrences` and `Calendar`, `OpenFinanceProofs` about `Connections`, `ScreensProofs` about `SheetHistory`, `DayPicker` and `MonthPicker` | – |
| `MatchingProofs` | the theorem about `ImportMatching`, and the lemmas the two modules that use it need | `ImportsProofs`, `OpenFinanceProofs` |
| `ImportMatching` | `match-import-rows.ts`: which rows and bills a statement line may already be; pure operators | `Imports`, `OpenFinance` |
| `Imports` | batches, preview store, confirm, discard, e-mail deliveries, mappings, restart | `MCImports` |
| `SessionTokens` | what a refresh token promises (abstract) | `Sessions` |
| `People` | the users, of whom both of the next speak | `Sessions`, `Households` |
| `Sessions` | refresh tokens, cookies, tabs, caches, network | `MCMembers` |
| `Households` | members, invites, accounts, access rows | `MCMembers` |
| `Recurrences` | one recurrence, its entries and bills, the daily job | `MCRecurrences` |
| `Calendar` | the arithmetic of dates and installments | `MCScreens` |
| `OpenFinance` | the MeuPluggy sync | `MCOpenFinance` |
| `Connections` | connections through any other provider | `MCOpenFinance` |
| `Categories`, `Notifications`, `Budgets`, `SavingsGoals`, `Reports`, `Audit` | one service each | `Planning`, `MCPlanning` |
| `Pages` | per page of the web application: the query keys it shows, and what each mutation changes and refreshes | `Screens` |
| `Screens` | one tab between the page, the query cache, the service worker and the API | `MCScreens` |
| `SheetHistory` | the history entries of sheets | `MCScreens` |
| `DayPicker`, `MonthPicker` | the pickers of a day and of a month | `Pickers` |
| `Pickers` | both, for what they promise together | `MCScreens` |

`MC…` modules give the instances TLC checks; the `.cfg` files choose constants and
properties.

### Steps, in all modules

PostgreSQL runs at READ COMMITTED. The writes of one `$transaction` become visible together
and are one action. A handler is split where it reads something it later writes from, because
another handler may commit in between; so the names come in pairs (`UpdateRead`,
`UpdateCommit`). Two reads that follow each other with no decision and no write between them are
one step: a row that changes between them is stale at the write as well. A request between its
read and its write is a record in a variable (`req`, `breq`, `page`, `sync`, `run`,
`spending`, ...) that holds what it has read. Rows have ids that are never given
twice (the code uses random UUIDs). A write whose row is gone (P2025) fails and is rolled back as
a whole; the error paths are actions (`WriteFails`, `ConfirmFails`, `SyncFails`, ...). A
restart empties what lives in the process only and drops every request in flight.

Variables marked *history* in a module are read by properties only.

### Ledger, Bills

`txn`, `plan`, `bill` are the tables, `job` the cron workers, `today` the date.
`Account.balance` is changed only by `increment` (`applyBalance`), so concurrent changes add up
and none is lost. The model keeps the column as a sum of what was applied on behalf of each row:
`applied[t][a]`. `Owed(t)` is what the row as it stands should have applied; this decomposition
lets a property name the row for which the balance drifted.

| Code | Actions |
|---|---|
| `TransactionsService.create`, `update`, `remove` / `deleteWithin` | `Create`; `UpdateRead`, `UpdateCommit`; `RemoveRead`, `RemoveLookup` (the `findFirst` of the linked bill), `RemoveCommit` |
| plan `create`, `remove` | `CreatePlan`; `RemovePlanRead`, `RemovePlanCommit` |
| posting job | `PostRead`, `PostCommit`, `PostFails` |
| bill `create`, `pay` | `CreateBill`, `Pay` |
| `unpay` | `UnpayLinked`, or `UnpayRead` and `UnpayCommit` (the payment is read without a lock) |
| `cancel`, `reopen`, `remove`, `update` of a bill | `CheckBill`, then `CancelWrite`, `ReopenWrite`, `RemoveBillWrite`, `EditWrite` |
| `linkTransaction` | `LinkRead`, `LinkCommit` |

`pay` locks the bill (`FOR UPDATE`), reads it again and writes: one step, and so are `UnpayLinked`
and `LinkCommit`. A section that keeps the lock over two steps (`unpay`) blocks the writers of that
bill (`Locked`, `Writable`). The foreign key of `Bill.transactionId` (`onDelete: SetNull`) is
`SetNull`, part of every deletion. The unique index on `Bill.transactionId` is deliberately absent:
the result then does not lean on it. Amounts are whole numbers, dates whole days, installments fall a
day apart (months are the subject of `Calendar`); descriptions, categories and account visibility are
left out.

### Imports

`cache` is `ImportPreviewStore`, `page` what a browser page shows with its request, `log` and
`delivery` the e-mail ingestion. `confirm` is three steps: `ConfirmRead` (status and stored
flags, no lock), `ConfirmLock` (row locks of the chosen bills and rows, reconciled anew),
`ConfirmCommit`, with the locks held between the last two. `discard` is `DiscardRead`,
`DiscardWrite`. `Lookup`, `EmailBatch`, `WriteLog` are a delivery. `LedgerStep` is what
members do to rows and bills meanwhile in one step (an entry by hand, an edit, `pay`, `linkTransaction`,
`unpay`), `RequestStep` what they do in two: `DeleteFind` and `DeleteCommit` (the `findFirst` of the bill,
then the deletion), `CancelRead`, `ReopenRead` and the status written by id (`CancelWrite`, which is also
`remove`, and `ReopenWrite`). `overtaken` notes the bills such a write hit after they had changed. The matching itself (`ImportMatching`) is the code's
algorithm: candidates in the order of the statement, ranked by distance, ties by id, windows of 3,
5/15 and 10/45 days and 15 per cent; the bills it is given are those of the query (`BillCandidates`), whose window is not
that of the matching (section 6). Lines are numbers; two statements overlap so that importing
something again is the normal case. Balances are the `Ledger`'s.

Facts a reader may not expect, all in the model: the mapping upsert commits before confirm's
transaction; batches without an account (e-mail) never get duplicate flags; flags are stored once and
recomputed only in memory, so a restart brings the old ones back; copies (`#uuid`), edited rows
and merged transfers are not recognised when the statement comes again.

### SessionTokens, Sessions

`SessionTokens` is the promise: a token is unissued, open or closed; opening, renewing (one out, one
in), abandoning and closing. `Sessions` refines it (`Promise`, an INSTANCE whose WITH is the
refinement mapping). Its actors are tabs
(`tab`), one browser (`device`: cookies, caches), the server (`token`) and the network: requests
leave with the cookies of that moment, answers may be lost (`AnswerLost`), come after a time-out
(`TimeOut`, `LateArrives`) or in another order. Refresh is `RefreshRead` (the token and its
reuse check), then `Issue`/`RefreshWrite` (the `updateMany` whose count nobody reads); logout is
`UserLogout`, `LogoutServed`, `LogoutArrives`/`LogoutLost`, `ClearCaches`, `Navigate`.
Parallel requests of one page are tabs.

### Households

Members carry the id of their membership, accounts the access rows of memberships. `InviteRead`,
`InviteRevoke`, `InviteCreate`, `AcceptRead`, `AcceptMark`, `Join`, `RemoveRead`, `RemoveWrite`,
`RestrictRead`, ..., `DeleteWrite` follow the handlers, none of which locks anything. What refers to an account is
of a kind: counted before a deletion (`CountedKinds`: entries, transfers, goals and what points a bill at a card) or not,
and held by the foreign key (`RestrictingKinds`: goals, plans, recurrences) or not. A deletion sets the others to null:
the entries that came after the count, the account that is to pay a bill, the account of an import; mappings go with it
(`Orphaned`).

### Recurrences, Calendar

`rec` is the recurrence, `occ` what it generated, `gen` the loops of generation under way (the
job, a resume, a creation). A loop reads the cursor (`GenerateRead`), inserts one row at a time
(`GenerateOne`, or `GenerateFails`: the error is caught and the loop goes on), without a
transaction. Removal is two statements of one transaction (`RemoveRows`, `RemoveCommit`): at READ
COMMITTED an insert may commit between them. Dates are days and the next one is counted from the latest row by
the rule (`NextAfter`: a week, or the rule's day in the next month or year), wherever that row stands by now: `MoveBill` takes a
bill to any other day, `Update` writes mode, rule and end, `SettleBill` pays, reopens and cancels. Entries are recorded for an
owner of the household (`Recorder`); without one nothing is generated. Weeks and months have a fixed length; the real ones are
the subject of `Calendar`: `AddUtcMonths`, `RuleDay`, `CalculateNextOccurrenceDate` (`recurrence.ts`),
`Part`, `Divide` (`generate-installments.ts`) and `PageDays` (`date-fields.tsx`), on the Gregorian
calendar.

### OpenFinance, Connections

`cred` is the credential with `last` (its `lastSyncAt`), `mapped` the linked accounts,
`appeared` what the provider shows by now, `key` the external keys. A sync is `SyncStart`,
`ReadAccounts`, per account `Fetch` (with the back-off of `withProviderBackoff`, `FetchFails`),
`Decide` and `Write` per movement, `Finish`. `Decide` uses `ImportMatching`, and notes in the history `seen` which
movements fitted several transfers (`Torn`). `Connections`: `Find`,
`MarkUpdating`, `AskOpen` or `AskRefused`, `Look`, `Tie`, `Read`, `Import`, then `Store`, or `Fails` and
`PutBack`; `Crash` at any point. The two never share a row: `MCOpenFinance` checks them as alternatives.

### Planning and its parts

`Planning` composes the tree (`CategoryCreateRead`, ..., `CategoryWrite`), budgets (`Snapshot`,
`SpendCommit`, `SpendEmit` around every expense; `ReplaceRead`, `ReplaceWrite`; `EndRead`, `EndWrite`),
goals (`CheckRead`, `CheckProgress`, `CheckWrite`), reports (`Claim`, `StartFile`, `EndFile`, `Ready`, `EmitReady`;
`ResumeList`, `ResumeRow`; `CleanList`, `CleanFile`, `CleanRow`), notifications (`Persist`, `SendEmail`, `SendPush` per
member and endpoint) and the audit trail (`LoadBefore`, `Write`, `WriteLog`, `Commit`, `Rollback`, `Expire`, with a pool of
connections). A write names one row and may change more (`also`): those whose foreign keys the database sets to null or
cascades over, and those it creates nested in itself; of these the trail sees nothing (`Unseen`). They share the tree, the events and the process that may restart.
Left out: names and types of categories, the category memory, the content of a report, reading and
marking notifications, the filters of the audit listing.

### Pages, Screens

`Pages` says for every page which query keys it shows and for every mutation which keys it changes on
the server and which it refreshes in `onSuccess`, copied from the pages' own lists (`audit-logs` is two keys, the feed of
all that happened and the history of the row that is open). `Screens` follows one
key through one tab. The cache is TanStack Query, a library: it is modelled from the options
`providers.tsx` gives it (stale at once, no retries, no refetch on focus, `offlineFirst`, mutations
always). `storage` is `localStorage`, shared by the tabs; `selected` the state of
`HouseholdProvider`; `copy` what the service worker keeps. The page may be left, the household switched
here or in another tab (`OtherTab`), taken away (`Removed`) or joined (`AcceptInvite`) at any point.

### SheetHistory, DayPicker, MonthPicker

`SheetHistory`: a sheet pushes a history entry when it opens and takes it back with `history.back()` when
it closes; `Traverse` and `Land` are the browser's asynchronous traversal and its popstate event. A
link inside a sheet waits for that event (`navigateAfterBottomSheet`). Pushes of links while a
traversal is pending are left out. `DayPicker`: pointers, capture, the drag and its slide, which ends
by a transition or a timer (`FinishPending`), arrows, picks and closings in between. `MonthPicker`: the draft of
the picker, what the last rendering drew, and the wheels, which answer scrolling with an update.

## 3. Properties

Most of them have the same form: *a promise is broken only by* the events named after it. A promise alone
would often be false, for the code has races; a list of exceptions says exactly which ones it has, and
that it has no other. Every exception is needed: without it TLC finds a counterexample. Type
invariants are checked in each run, in `Households`, `Imports`, `Recurrences`, `Sessions` and
`Screens` as part of another property.

| Property | In words |
|---|---|
| `ScheduledRowsUntouched` | a SCHEDULED row has not touched any balance |
| `DriftOnlyByStaleWrite`, `BillsDriftOnlyByStaleWrite` | row and balance part ways only in the commit of a write computed from a stale read, or in an edit of a SCHEDULED row |
| `DueRowsGetPosted` | a due row does not stay SCHEDULED |
| `NoSharedSettlement` | a transaction settles at most one bill |
| `InvariantBrokenOnlyByStaleWrite` | PAID iff settled is broken only by `cancel`, `reopen` or `remove` with an outdated check, or by a deletion whose lookup of the bill is outdated; never by `pay`, `unpay`, `link` |
| `GeneratedPaymentNotOrphaned` | a generated payment leaves its bill only by deletion |
| `PaymentTypeLostOnlyByStaleWrite` | a card bill is paid by a transfer, any other by an expense, but for writes checked too early |
| `SuggestionsSound` | two lines of a statement are never matched to the same row or bill, and a preview accepted as it stands can be confirmed |
| `BillsPaidSoundly` | the rows made to pay a bill are the one it is settled with, and it is PAID iff it is settled with a row, one that exists, unless a deletion, cancellation or reopening wrote to it after it had changed |
| `LineImportedTwiceOnlyIf` | a line gets a second row only if the flags were outdated, the first row no longer carries the line's id, or a row of the other account stands for the id and becomes a transfer |
| `BatchFateMixedOnlyByStaleCheck` | a discarded batch has rows only if a request wrote over a closed batch |
| `TokensKeepTheirPromise` | `Sessions` implements `SessionTokens` |
| `SessionsSound` | one live token per login, none after it was revoked, but for checks that were outdated at the write |
| `ForeignDataOnlyBySlip` | a browser holds answers of the signed-in user only, but for sessions ended without their page, late answers and other tabs |
| `OwnerlessOnlyByStaleRemoval` | the last owner goes only by a removal whose count is outdated |
| `RemovedStaysOut` | who was removed comes back by a later invite only, but for overlapping invitations |
| `SightLostOnlyByOthers` | a member loses sight of an account only by somebody else's restriction; no access row outlives its member |
| `RowsLoseAccountOnlyByStaleCount` | a row loses its account only with the account; an entry only if it came after the count, a goal, plan or recurrence never; what is not counted (a bill to be paid, an import) always |
| `GeneratedAgainOnlyIfTouched` | a date is generated twice only if its row was edited, deleted or moved |
| `SkippedOnlyByFailure` | the next date is the start or one step, by the rule, from a date that was made, whose insert failed or that a bill was moved to |
| `NothingScheduledLeft` | a removed recurrence leaves no scheduled row, but one inserted between the two deletions |
| `DatesGetGenerated` | a date that is due does not stay so, while the recurrence is active, has not ended and has somebody to record it for |
| `RecordedTwiceOnlyIfDeleted`, `LeftBehindOnlyIfSkipped` | a bank movement enters once unless its row was deleted, and is out of reach of later syncs only if late, older than a first load's year, deleted or on an account a sync passed over |
| `HalvesOnlyByOverlap` | the halves of a transfer are merged, unless edited, written by an overlapped sync, or one of them fitted several transfers when it was decided upon |
| `ConnectionKeepsItsWord` | status and hour of a connection are true, UPDATING stays only after a crash or an overlap |
| `ExceededAnnouncedOnce` | a budget that is exceeded was announced once |
| `TreeSoundUnlessOverlapped` | no cycle, three levels, unless moves overlapped |
| `GoalsCompletedWhenReached` | a goal is completed when and only when it is reached, but for overtaken checks |
| `EveryoneToldUnlessBroken` | everyone concerned is told, unless a subscription vanished under the delivery |
| `ReportsKeepTheirWord` | a report that can be downloaded is whole, and an announced one is announced once and READY, unless resumed while its run lived |
| `LogCanBeReplayed` | the last entry tells the row and entries chain, but for rollbacks, lost entries, entries in the other order, and writes nothing captures: upserts, many rows, nested rows, foreign keys |
| `PageOfOtherHouseholdExcused` | a page at rest shows the household it names |
| `OwnWritesShown` | a page at rest shows what its user last wrote |
| `SheetsKeepHistory` | a sheet has one history entry while open and none afterwards; no popstate is swallowed that is the user's |
| `PickersFollowTheHand` | swipes and arrows add up, wheels show the month that is confirmed, the month stays in its window |
| `DatesAddUp` | the n-th occurrence is the one counted from the start, installments are the purchase, a page of the calendar is its month |

## 4. Runs

| Run | Instance | Shows |
|---|---|---|
| `ledger` | 3 rows, 2 accounts, 1 plan of 2 installments, 2 requests, 2 workers, 2 days | `Ledger` |
| `bills` | 2 bills (one of a card and a recurrence), 2 rows, 2 requests to `/transactions`, 2 to `/bills`; or 1 bill, 3 rows, 1 plan of 2 installments, 2 requests, 1 worker, 1 request to `/bills` | `Bills`, without and with plans |
| `imports` | 1 line of 1 statement and 3 lines of another; 2 pages, 1 delivery, 2 batches, 2 rows, 1 bill, 1 request, 1 outside event; or 1 page, 1 batch, 2 bills, one of the other account, 3 rows, 2 requests, 4 outside events | `Imports`: the batches, and what becomes of bills |
| `members` | 2 users (one remembered), 2 tabs of a browser, 3 tokens, 1 slip of the network or the browser; or 2 users, 2 invites, 3 memberships, 1 account, 1 row, 2 requests at a time, 5 in all | `Sessions`, `Households` |
| `recurrences` | 2 generations at a time, 3 days, a weekly and a monthly rule (weeks of 2 days, months of 3), an end and none, horizons of 1 and 2 days, 2 outside events | `Recurrences` |
| `open_finance` | 2 syncs, 3 accounts: two with the halves of a transfer, a third with an expense that fits as well, 8 days; or 2 syncs of a connection | `OpenFinance`, `Connections` |
| `planning` | 11 mixes of requests over 4 categories, 2 members, 2 goals, 2 months, 1 report, 2 writers | `Planning` |
| `screens` | 3 acts of the user, 2 events around; or 6 taps; or 4 gestures; or a month field; or dates of four years | `Screens`, `SheetHistory`, pickers, `Calendar` |
| `edit_of_scheduled`, `cancel_races_posting`, `cancel_races_pay`, `late_bills` | 1 request, 1 worker, `pay`, 1 bill and 1 line | counterexamples (section 6) |

*Bounds.* Every hazard of the API is between one reader-then-writer and one or two other actors, so two
requests of a kind show it, and the handlers of one step are always available as a third actor.
Outside events (edits by people, failures, lost messages, restarts) are counted by `MaxMoves`, `MaxSlips`,
`quota`; where two of them are needed (a resume after a pause, a bill moved before a failure), two
are allowed. `MaxAsked`, `MaxStarts`, `MaxActs`, `MaxTaps`, `MaxGestures`, `MaxJoins`, `LastDay`, `Horizon`,
`MaxClock` and `MaxWrites` bound the length of a behaviour. Each excuse named in a property was seen to
be needed within these bounds, so the cases do happen, but for two that proofs found and that only larger instances
reach (section 5). In particular:

- `imports`: importing a line twice takes two batches or two confirmations of one; the second statement is
  matched in every ledger and never imported. A bill that is overtaken takes a read and a payment before the write, and
  one that is settled twice a reopening and a second payment: four outside events hold both, so the second alternative
  has them and gives up the second page and the e-mail.
- `bills`: the second installment is due the next day, so that it is scheduled when the plan is removed and
  posted before the removal writes.
- `recurrences`: with weeks of two days and months of three a date of one rule is mostly none of the other's, and a bill
  may be moved to days between the dates, before and after the horizon.
- `members`: a login and two renewals are three tokens; splitting a login takes two tabs. In the household, who
  is removed and comes back has a second membership, and the third is left for another; five requests hold two
  invitations, two acceptances and a removal.
- `open_finance`: the day moves by 8, just over the week of overlap (`Overlap`), so a late movement and a
  skipped account differ from those still in range. The third account's expense makes a movement fit two transfers at once; the
  credential shows the second account, then the first as well (`Logins`).
- `planning`: the mixes put one part under load each; the parts meet where the code lets them (categories
  with budgets, expenses with deliveries, goals with restarts).
- `screens`: the three keys are refreshed in different ways (listed by many pages, overwritten by an answer,
  polled and personal); all pages are there.
- dates: 2024 to January 2028 hold a leap February, ordinary ones and year ends, starting from the days that
  months cut short; years of `MonthPicker` have four months, which only makes ends more frequent.

*Exclusive alternatives.* `MCMembers`, `MCOpenFinance` and `MCScreens` check components that share nothing in one run:
a variable (`concern`, `provider`, `part`) chosen at the start says which of them moves. No step of one can disturb
another, so the run is the same as one run for each. `MCBills` and `MCImports` have a variable `load` of the same kind,
which chooses between two instances of one component.

*Deadlock* is checked in every run. A model may idle (`LedgerIdle`, `BillsIdle`, `ImportsIdle`, `AllRest`, `NoneWaits`, `Quiet`,
`TabRests`, `HistoryIdle`, ...) only when nothing is in flight, so a request that can neither commit nor fail
is reported. `MonthPicker` has no such step, for its user can always do something.

*Fairness.* `PostingFairness` is weak fairness of each posting worker: the cron runs every day and goes
through the due rows, catching errors row by row. `RecurrencesFairness` is weak fairness of the daily job
and of the steps of a loop that has begun; failures and restarts stay possible. No fairness is assumed of
people, of the network or of the clock. The other promises of the form "eventually" are stated as
invariants that name the actor who still has to act (`ReachedGoalsGetCompleted`, `ExceededAnnouncedOnce`,
`EveryoneToldUnlessBroken`), for there the code gives no fairness: a restart loses the actor.

*Symmetry* is used over ids that no property orders, and never in a run with a liveness property:
`bills`, `imports` (pages), `members` (tabs, requests), `open_finance` (syncs), `planning`
(requests of a kind and places of rows).

## 5. Proofs

`BillsProofs`, about the ledger by itself, from the assumptions `NullAssumption` and `InputAssumption`:

- `TypeCorrect`: the types.
- `ScheduledUntouched`: `[]ScheduledRowsUntouched`. Not inductive by itself, since a new
  row is scheduled on an unused id; `PendingUntouched` adds the unused ids.
- `NoOtherDrift`: `DriftOnlyByStaleWrite`. It needs `PendingUntouched` (a row being posted
  has applied nothing) and `WorkersHoldScheduled` (a worker holds a row that was
  SCHEDULED when it read it). `NextDrift` has one step per action and uses the algebra
  of effects (`BalanceAlgebra`).

and about the bills on it, with `BillDraftAssumption` in addition:

- `BillsTypeCorrect`: the types of the composition.
- `SettlementsNotShared`: `[]NoSharedSettlement`. The inductive invariant is `SettlementInv`:
  a linked row is alive (`LinksLive`, so a fresh row is in no bill), a request that
  will link knows an existing id (`RequestsKnowTheirRows`), and no two bills share a
  row. All steps but two only take links away (`OnlyUnlinks`); `pay` links a fresh
  row and `link` has just looked for a bill of the row (`BillOfFinds`).

and the action properties:

- `BillInvariantBreaks` and `PaymentsNotOrphaned`: `InvariantBrokenOnlyByStaleWrite` and
  `GeneratedPaymentNotOrphaned`. Both follow from `BillTransitions`: under `SettlementInv`
  (and `RemovalsKnowTheirRows`, a removal knows an existing row) a step that is no stale
  write keeps a bill's link, takes it away together with the payment, pays a pending bill
  or removes an unpaid one. `NoSharedSettlement` is what makes the lookup of
  `deleteWithin` find *the* bill of the row.
- `NoOtherBillDrift`: `BillsDriftOnlyByStaleWrite`. The bill handlers write the ledger only
  by inserting a POSTED row or by deleting one (`BillHandlersOnLedger`), so the lemmas about
  the ledger cover them (`DriftInv`).
- `PaymentTypeBreaks`: `PaymentTypeLostOnlyByStaleWrite`. `ChecksWereMade` records what
  `update` and `link` checked before they write.

`HouseholdsProofs`: `HouseholdsTypesHold` and the four action properties of the run (`OwnerStays`,
`RemovedComeBackByInvite`, `RowsKeepTheirAccount`, `SightKept`). A property about the step that writes needs
what the step that read has seen, so `HouseholdsInv` says it of every request in flight: a removal has counted
the owners (`RemovalsCounted`), a restriction names the membership it was asked with (`RestrictorsNamed`), a
deletion has found no row of a counted kind on its account, or it came later (`DeletionsCounted`). Who was removed comes back by a later invite
because invites are made in order (`CreatedInOrder`) and, but for the overlaps the property names, at most one is
open and no member has one (`InvitesInStep`).

`SessionsProofs`: `SessionsStaySound`, `CachesOfTheSignedIn`, and `RotationKeepsPromise`, the refinement of
`SessionTokens`. `SessionsInv` adds to the two invariants that every token stems from a login of its own
user (`TokensStem`) and that tabs and cookies carry only tokens that were given out (`CookiesIssued`). For the
refinement the state is reduced to the four things `SessionTokens` sees (`LiveNow`, `GoneNow`, `OwnerNow`, `GrantNow`);
each action is then a step of the abstract specification or changes none of them.

The same module on `Recurrences`: `DatesGeneratedOnce`, `GapsAreFailures`, `RemovalLeavesNothingScheduled`. The cursor is the
greatest date of the linked rows, so `Max` of a set must be known to exist: `MaxFound` and `MinFound` derive it
from the well-foundedness of the naturals. `RecurrencesInv` is the unique index (`LinkedApart`), that every row
stands on the date it was made for or on one a bill was moved to (`RowsStand`), so that the latest of them is a date that was
reached, that a loop goes on by steps from such a date (`LoopsStepped`),
and that a removal still holds the scheduled rows (`RemovalSound`).

And on `Calendar`, from `CalendarAssumption`: `CalendarAddsUp`, that is `DatesAddUp`. `CalendarInv` says of the latest occurrence what
the property says (`OccurrencesCounted`; a day carried over a month is a day further, `CarriedAlong`), and of the installments so far that
each is what it should be (`PurchaseDivided`); that they add up to the total is `PartsSum`. Days before a month, and sums, are
recursive functions: that they exist and are numbers is `SumsExist` and `SumsFound`.

`MatchingProofs`: `MatchedOnce`. Of any statement (finitely many lines, numbered and dated) and any books, what
`MatchImportRows` ties to two lines is never the same row or bill, and what it ties to one fits it in amount, side and day
(`MatchedSoundly`). The matching takes the lines by date, each from what earlier ones left; as a function on lines it is recursive, and
`MatchingRuns` shows that there is such a function by taking the line of least rank that would have no value. `ClosestFound` is
the other half: `PickClosest` always finds one, since the order it compares by is total and well-founded. When a movement
must be taken for the other half of a transfer is `HalfClaimed`.

`ImportsProofs`, from `ImportAssumption` (accounts and previews are not the marks for none, bill ids are not 0, what is entered
is numbered and dated, statements are finite, and a row entered by hand has two sides only if it is a transfer): `PaidByOneRow`, `FateOfBatch`,
`LineStandsTwice`, `SuggestionsStandUp`. In
`ImportsInv` a bill is settled with a row that exists and settles no other and, unless it was overtaken, with the row that pays
it (`BillsFit`), a request has found what it is going to write (`RequestsFit`), only a closed batch has rows
(`FilledOnce`), and a page that was sent transfers to an account other than its own (`PagesFit`). The
proof of the third found that its list of excuses lacked one: a row of the *other* account under the same id that
becomes a transfer. The run's instance is too small for it; the property names it now. `SuggestionsStandUp` (`SuggestionsSound`) is
`MatchedOnce` with the rows of the books (`RowsFit`): that a suggested bill is open and a suggested row is free is how
candidates are read.

`PlanningProofs`, one invariant for each part, since the parts write different variables (the `...Meet` lemmas reduce a
step of `Planning` to one of the part or to none):

- `LogReplayed`: `LogCanBeReplayed`. `AuditInv` follows a record from its write to its entry: an entry that
  is still to come describes what is stored (`WaitsForStored`), what an open transaction wrote is in its last
  entry or will be (`CarriedIsTold`, `LoggedIsCarried`), otherwise the last entry is true (`RestIsTold`). It
  rests on the row locks (`OneCarrier`) and on `LoadsCurrent`: a row loaded and not overtaken is as it was
  loaded. The rows a write changes besides its own are locked and outdated with it, and spoiled, which is what the
  property says of them. `AuditAssumption`: a handler writes something.
- `EveryoneTold`: `EveryoneToldUnlessBroken`, for any members, endpoints and events and through restarts.
- `ReportsHonest`: `ReportsKeepTheirWord`. Outside `overlapped` one generator at most works on a report
  (`OneActive`), and it does so before anything was announced (`ActiveFirst`); `TermSound` ties status, file and
  announcement.
- `AnnouncedOnce`: `ExceededAnnouncedOnce`. A snapshot no write has disturbed is accurate (`SnapshotsHold`), so what
  it owes was not over its limit before (`OwedWasCalm`); one such spender at most is announcing
  (`OneAnnouncer`) and nobody has announced what it owes (`OwedUnannounced`); a snapshot survives every step that
  changes nothing because rows and budgets hang from live categories (`RowsHang`, the foreign keys).
  `WorldsAssumption` says the same of the first state; `SumOfNone` that nothing spent sums up to zero.
- `TreeStaysSound`: `TreeSoundUnlessOverlapped`. `TreeInv`: unless tangled, the live categories lie on three levels
  (`Orderly`, assumed of the first trees in `WorldsAssumption`), and a place that was judged and not overtaken
  still suits the tree (`PlaceFits`), since every change of the tree makes the other judgments stale. Ancestors
  and subtrees are recursive functions in the model; that they exist, and what they are on three levels, is
  `ClimbEnds`, `AboveOnLevels` and `SpanCounts`.
- `GoalsCompleted`: `GoalsCompletedWhenReached`. `GoalsInv`: a check that nobody overtook holds active goals as they are and
  completes one that is reached (`SaverFits`), and to every reached goal a check is coming that knows its
  target (`AwaitedChecked`). What is saved is a sum over a set of rows: `SetsAddUp` finds it, `SumsCompared` says that it does not
  grow when no row does. `WorldsAssumption` gives active goals a target. A goal's id is the database's to choose, so
  `GoalCreate` takes one no request holds: without that an edit of a goal that is gone could hit a new one.

`OpenFinanceProofs`, about both parts of Open Finance:

- `WordOfTheConnection`: `ConnectionKeepsItsWord`. Status and hour are written by the last sync that ends, so the
  invariant `ConnInv` says what each sync still holds: with neither crash nor overlap there is one at most and it has not
  read UPDATING (`NeverStuck`), while nothing went wrong it carries the provider's last word (`WordKept`), and
  what the books lack it has found and will write, or it was shown too late (`ReadOn`).
- `NothingLeftBehind`: `LeftBehindOnlyIfSkipped`, from `OpenFinanceAssumption` (the books at the start are numbered and
  hold no external key). The property speaks of the date stored at the end of a sync; `Ahead` follows each sync towards
  it: what lies before its first day is excused, and so is what it is through with; of the account at hand
  it has found the rest, then has a deed for it. `RowsKeyed` (a row's own external id is a key of that row) shows that a write
  that is refused was known already, and that only a deletion loses a key. It holds for any number of overlapping syncs,
  since none stores a date later than the day it ends. The proof found an excuse missing: a first load goes back a year, and a
  movement older than that by its end is read by no sync. TLC shows it once the days reach beyond a year, which
  the run's do not; the property names it now.
- `RecordedOnce`: `RecordedTwiceOnlyIfDeleted`. What was recorded has a key until it is deleted (`OnceKnown`), and each deed
  finds its movement without one: an insertion and a tie look, a conversion looks only whether the key is that of the entry it
  replaces. It never is, since that entry is of another account (`DeedsFit`, which is `MatchedOnce` and lasts because ids are
  not used again) and a key names an entry of the movement's own account or a transfer (`KeysFit`).
- `HalvesMerged`: `HalvesOnlyByOverlap`. Of two halves that both stand for themselves, one was written when the other was in
  the books already. `Planned` says of every movement a sync will write as a row of its own that no other half
  is there which an earlier conversion of the same list does not claim (`HalfClaimed`, of the matching: if a movement fits the entries of one
  other account only and no transfer mirrors it, it is tied to one of them, or an earlier line claimed them);
  a list read before others wrote is outdated and promises nothing (`OthersOutdated`), which is the excuse of the
  overlap. The proof found the other excuse: a movement that fits entries of two other accounts is tied to
  neither, and its real half stays apart. The run has a third account since, and TLC meets the case.

`ScreensProofs`, about the browser:

- `SheetsLeaveNoTrace`: `SheetsKeepHistory`. `HistoryInv`: unless the user was faster than a traversal or a push
  (`ReopenedByHaste`), the history is at rest, travelling or pushing (`Patient`), and each says where the sheet's entry is and
  whether a popstate is still to be swallowed; marked entries lie apart and on the page they were opened on
  (`Layered`), and going back finds them there (`ComesBack`).
- `PageShowsItsHousehold` and `PageShowsOwnWrites`: `PageOfOtherHouseholdExcused` and `OwnWritesShown`, for all query
  keys. `ScreenInv` follows an answer from the API to the cache: versions are counted (`Counted`), what is cached or on
  its way is of the household shown unless overtaken (`OfTheShown`), and no older than what the user wrote unless
  a refresh is due (`Renewed`). That every mutation refreshes every page that shows what it
  writes is `PagesRefresh`, by cases over the pages (`Pages`).
- `PickersFollow`: `PickersFollowTheHand`, for any number of months in a year. `DayInv`: only a calendar at rest is
  dragged, and a slide leads away from the month in the state, which is the base an arrow counts from
  (`SwipesAddUp`). `MonthInv`: the wheels lag behind the draft by turns not drawn yet and marked as made by hand, or
  two came together (`WheelsFollow`); a field that was in the window stays in it with its draft (`KeptInside`), since
  the window is made of whole years (`WindowOfYears`, `MonthsAreTrue`).

Every inductive invariant was checked by TLC on the run's instance before it was proved. The models are written for the
provers where it costs nothing: constants carry named assumptions, records are built field by field, and maps are
built as functions and not by `@@` or a fold, which the provers cannot expand.

Only model-checked, and why:

- liveness (`DueRowsGetPosted`, `DatesGetGenerated`) and the absence of deadlock: temporal reasoning under fairness and
  ENABLED are beyond the prover. The counterexamples of section 6 are TLC's by nature.

## 6. Disagreements with the docs

Shown by a run of their own:

1. `edit_of_scheduled`: editing a future installment posts it without moving the balance
   (`transactions.service.ts:164-173`, `:354`), against `docs/02-modelagem-dados.md:53-57`.
   No concurrency is needed.
2. `cancel_races_posting`: removing a plan deletes rows by an id list read before the
   transaction (`installment-plans.service.ts:118-132`); a row posted in between goes without
   being reverted, against `docs/11-parcelamento.md:192`.
3. `cancel_races_pay`: `cancel` and `remove` write a bill without the lock `pay` takes
   (`bills.service.ts:235-266`): a CANCELED bill with a payment, against
   `docs/35-contas-a-pagar.md:257-258`.

4. `late_bills`: the query for the bills a statement may pay turns its window round
   (`imports.service.ts:717-718`): due from 10 days before the first line to 45 after the last,
   where the matching accepts 45 before and 10 after (`match-import-rows.ts:327`) and
   `docs/36-importacao-conciliacao-contas-a-pagar.md:97-99` asks for them. A bill paid late by more than ten days is
   compared with its line only if an earlier line of the statement takes it into the window.

Met while modelling, and shown by the excuse of a passing property that TLC needs:

- Two owners who remove each other leave a household without one, against "O último OWNER não pode sair
  nem ser removido" (`docs/25:71`, `docs/13:175`): `OwnerlessOnlyByStaleRemoval`.
- A parallel refresh raises the reuse alarm, or splits a login into two live tokens; a logout with a token
  already replaced revokes nothing live (`docs/21:82-99`): `SessionsSound`.
- After a 409 the import page keeps the old preview, though `docs/36:276` says it reloads it; a discarded
  batch may keep rows: `LineImportedTwiceOnlyIf`, `BatchFateMixedOnlyByStaleCheck`.
- A recurrence whose end passes while the server is down is never finished, though `docs/12:251-257` has
  the job recover; a bill that is moved takes the rest of its series along, so that dates are passed over without a failure;
  a household left without an owner generates no entry: `DatesGetGenerated`, `SkippedOnlyByFailure`.
- `lastSyncAt` belongs to the credential, so an account linked later reads seven days and not the 365 of
  `docs/40:37-38`; `guard()` wraps provider errors, so the back-off never retries them; a generic connection
  starts at the provider's own hour and not 90 days back (`docs/39:27`): `LeftBehindOnlyIfSkipped`,
  `ConnectionKeepsItsWord`.
- Two moves at once make a cycle or a fourth level (`docs/33:77`); two replacements leave two open
  budgets, an installment plan announces its first month only (`docs/09` 8 and 11); an abandoned goal may come
  back completed; a report resumed after ten minutes may run twice (`docs/23` 4): `TreeSoundUnlessOverlapped`,
  `ExceededAnnouncedOnce`, `GoalsCompletedWhenReached`, `ReportsKeepTheirWord`.
- An audit entry stays when its transaction is rolled back (`docs/14:34`, `:93-95`), and what the database changes by its
  foreign keys has none: the bills of an account or a category that is deleted, the rows of a plan: `LogCanBeReplayed`.
- An account that is deleted is taken off the bills it was to pay and off its imports, which nothing counts:
  `RowsLoseAccountOnlyByStaleCount`.
- A page may keep the answer of another household after a switch during a first load (`docs/03:11-18`,
  `docs/22:101-104`): `PageOfOtherHouseholdExcused`.
- Back pressed right after a sheet is closed leaves the page, a reload on a sheet's entry leaves a Back without
  effect (`docs/34:172-177`, `:549`); two wheels turned before a rendering disagree with the month that is
  confirmed (`docs/34` 5.3): `SheetsKeepHistory`, `PickersFollowTheHand`.

## 7. Plan and limits

None of the modules declares a RECURSIVE operator, for the sake of the proofs: what is recursive is a function, and a proof about it takes
the least element for which it fails (`Least`, `LeastFound`). What is left to prove is named at the end of section 5.

Not modelled:

- Statement parsers (OFX, CSV), formatting, wording, layout, forms and their validation: text and rendering,
  without state of their own.
- Dashboard and the content of reports: sums over rows that are read once.
- Onboarding, settings, the category memory, reading notifications: upserts and updates of single rows by
  their key. The effect of onboarding on the query cache is in `Pages`.
- The deadlock of row locks (`transactions.service.ts:214`: accounts and bills locked in different orders).
  PostgreSQL aborts one of the transactions, which the code reports as an error; the abort adds no state, and
  since the models take a transaction as one step they cannot show the wait.
- Infrastructure, backup scripts, seeds and migrations, passwords, mail templates, web push encryption.
- In the browser: more than one mutation in flight, the upload of a statement, the audit list inside closing
  dialogs, pushes of links while a history traversal is pending.
- Errors of the listener's own queries, which `safe()` catches and drops: a notification is persisted and sent, or breaks
  in between (`Notifications`). Occurrences that a job inserts without an event count as a step that announces nothing
  (`ExceededAnnouncedOnce`).
- Several API processes: the preview cache, events and cron are those of one process, as deployed.
