----------------------------- MODULE OpenFinance -----------------------------
(***************************************************************************)
(* The Meu Pluggy synchronisation (meupluggy.service.ts): what the person's *)
(* banks report is brought into the household's books by the button, the    *)
(* webhook and the daily job, any of them at the same time. A movement of   *)
(* the provider becomes an entry, is tied to an entry that is there, or     *)
(* turns the other half of a transfer into one (ImportMatching). The key    *)
(* table keeps the movements that are known. Only a sync that ends well     *)
(* moves the date from which the next one reads.                            *)
(*                                                                          *)
(* One household, one credential, one account per item.                     *)
(***************************************************************************)
EXTENDS ImportMatching, FiniteSetsExt

CONSTANTS
    Syncs,          \* runs of importStored
    Accounts,       \* numbers, in the order in which links are synced
    Remote,         \* the provider's movements: number -> [account, out, day]
    Logins,         \* sets of items a credential may show
    Mappings,       \* sets of accounts a person may link at once
    Seeds,          \* what the books may hold before: sets of entries
    LastDay, Step,  \* bound on the clock, and how far it moves at a time
    Attempts,       \* of withProviderBackoff
    MaxMoves        \* bound on what people do and on failures

Exts == DOMAIN Remote
Overlap == 7
FirstLoad == 365
Never == -1
None == 0

\* ext is the row's own externalId. edited and stale are history: changed by a
\* person; written from a list of entries that was no longer true.
Entry == [id : Nat, type : {"INCOME", "EXPENSE", "TRANSFER"}, accountId : Accounts \cup {None},
          fromAccountId : Accounts \cup {None}, toAccountId : Accounts \cup {None},
          amount : {1, 2}, day : Nat, ext : Exts \cup {None}, by : {"seed", "sync"},
          edited : BOOLEAN, stale : BOOLEAN]

ASSUME OpenFinanceAssumption ==
    /\ Mappings \subseteq SUBSET Accounts /\ Logins \subseteq SUBSET Accounts /\ None \notin Syncs
    /\ Accounts \subseteq Nat \ {None} /\ Exts \subseteq Nat \ {None}
    /\ \A e \in Exts : Remote[e] \in [account : Accounts, out : BOOLEAN, day : Nat]
    /\ IsFiniteSet(Exts)
    /\ \A seed \in Seeds : /\ seed \subseteq Entry /\ IsFiniteSet(seed)
                           /\ \A r \in seed : r.id \in 1..Cardinality(seed) /\ r.ext = None /\ r.by = "seed"
                           /\ \A r, t \in seed : r.id = t.id => r = t
    /\ LastDay \in Nat /\ Step \in Nat \ {0} /\ Attempts \in Nat \ {0} /\ MaxMoves \in Nat

VARIABLES
    today,
    cred,       \* the credential
    mapped,     \* accounts of the provider that are linked to one of ours
    refused,    \* items whose consent or login has expired
    appeared,   \* movements the provider shows by now
    rows,       \* the entries
    key,        \* open_finance_external_keys: movement -> entry, or None
    sync,
    seen        \* history and counters

ofVars == <<today, cred, mapped, refused, appeared, rows, key, sync, seen>>

-----------------------------------------------------------------------------
IdleSync == [pc |-> "idle", attempt |-> 1, id |-> 0, last |-> Never, items |-> {},
             links |-> {}, did |-> {}, found |-> {}, todo |-> {}, fresh |-> TRUE]

RowOf(id) == {r \in rows : r.id = id}
Outside == seen.moves < MaxMoves /\ seen' = [seen EXCEPT !.moves = @ + 1]

OpenFinanceInit ==
    /\ today = 0
    /\ cred = [saved |-> FALSE, id |-> 0, items |-> {}, last |-> Never]
    /\ mapped = {} /\ refused = {} /\ appeared = {}
    /\ rows \in Seeds
    /\ key = [e \in Exts |-> None]
    /\ sync = [s \in Syncs |-> IdleSync]
    /\ seen = [moves |-> 0, rows |-> Cardinality(rows), recorded |-> [e \in Exts |-> 0],
               forgotten |-> {}, late |-> {}, passed |-> {}, torn |-> {}]

-----------------------------------------------------------------------------
\* save: a credential that is there keeps its lastSyncAt, whatever its items.
Save(items) ==
    /\ items # {} /\ (cred.saved => Outside) /\ (~cred.saved => UNCHANGED seen)
    /\ cred' = IF cred.saved THEN [cred EXCEPT !.items = items]
               ELSE [saved |-> TRUE, id |-> cred.id + 1, items |-> items, last |-> Never]
    /\ UNCHANGED <<today, mapped, refused, appeared, rows, key, sync>>

\* remove: the entries, the keys and the links of the accounts stay.
RemoveCredential ==
    /\ cred.saved /\ Outside
    /\ cred' = [cred EXCEPT !.saved = FALSE]
    /\ UNCHANGED <<today, mapped, refused, appeared, rows, key, sync>>

\* sync, acceptWebhook and dailySync read the credential; the first one links
\* accounts before it goes on (applyMappings).
SyncStart(s, maps) ==
    /\ sync[s].pc = "idle" /\ cred.saved /\ maps \subseteq cred.items
    /\ mapped' = mapped \cup maps
    /\ sync' = [sync EXCEPT ![s] = [IdleSync EXCEPT !.pc = "reading", !.id = cred.id,
                                                   !.last = cred.last, !.items = cred.items]]
    /\ UNCHANGED <<today, cred, refused, appeared, rows, key, seen>>

\* importStored: an item that is refused is passed over, and so is an account
\* that is not linked.
ReadAccounts(s) ==
    LET links == (sync[s].items \ refused) \cap mapped IN
    /\ sync[s].pc = "reading"
    /\ sync' = [sync EXCEPT ![s].pc = "fetch", ![s].links = links, ![s].did = links]
    /\ UNCHANGED <<today, cred, mapped, refused, appeared, rows, key, seen>>

\* Fault: nothing is read twice.
FromLast(last) == IF last = Never THEN today - FirstLoad ELSE last + 1

\* meupluggySyncRange
RangeFrom(last) == IF last = Never THEN today - FirstLoad ELSE last - Overlap

\* hasExternal
Known(e) == key[e] # None \/ \E r \in rows : r.ext = e

\* The account at hand.
Link(s) == Min(sync[s].links)

NextLink(r) == [r EXCEPT !.pc = "fetch", !.links = @ \ {Min(@)}, !.found = {}, !.todo = {}]

\* collectAccountTransactions, all its pages, and which of them are not known.
\* What the provider shows meanwhile might as well be shown afterwards.
Fetch(s) ==
    LET unknown == {e \in appeared : /\ Remote[e].account = Link(s) /\ ~Known(e)
                                     /\ Remote[e].day >= RangeFrom(sync[s].last)} IN
    /\ sync[s].pc = "fetch" /\ sync[s].links # {}
    /\ sync' = [sync EXCEPT ![s] = IF unknown = {} THEN NextLink(@)
                                   ELSE [@ EXCEPT !.pc = "decide", !.found = unknown]]
    /\ UNCHANGED <<today, cred, mapped, refused, appeared, rows, key, seen>>

\* The provider fails while the movements are read: importStored starts again,
\* from the credential it was given, up to the last attempt.
FetchFails(s) ==
    /\ sync[s].pc = "fetch" /\ sync[s].links # {} /\ Outside
    /\ sync' = [sync EXCEPT ![s] =
          IF @.attempt < Attempts THEN [@ EXCEPT !.pc = "reading", !.attempt = sync[s].attempt + 1]
          ELSE IdleSync]
    /\ UNCHANGED <<today, cred, mapped, refused, appeared, rows, key>>

\* Any other failure ends it: guard has already turned what the provider said
\* of the items into an answer that is not tried again.
SyncFails(s) ==
    /\ sync[s].pc # "idle" /\ Outside
    /\ sync' = [sync EXCEPT ![s] = IdleSync]
    /\ UNCHANGED <<today, cred, mapped, refused, appeared, rows, key>>

-----------------------------------------------------------------------------
Line(e) == [id |-> e, day |-> Remote[e].day, amount |-> 1, out |-> Remote[e].out, text |-> "same"]

Bound(r) == r.ext # None \/ \E e \in Exts : key[e] = r.id

Candidate(r) == [id |-> r.id, type |-> r.type, accountId |-> r.accountId,
                 fromAccountId |-> r.fromAccountId, toAccountId |-> r.toAccountId,
                 amount |-> r.amount, day |-> r.day, text |-> "same",
                 ofBill |-> FALSE, linked |-> r.type = "TRANSFER"]

Unbound == {r \in rows : ~Bound(r)}

\* Fault: an entry the provider has made is no counterpart either.
UnboundCounterparts == {r \in Unbound : r.type # "TRANSFER"}

\* toCounterparty: income and expense, the provider's own included.
Counterparts == {r \in rows : r.type # "TRANSFER"}

\* listForMatch keeps to the days around the movements.
Near(r, found) == /\ r.day >= Min({Remote[e].day : e \in found}) - ReconcileTxDays
                  /\ r.day <= Max({Remote[e].day : e \in found}) + ReconcileTxDays

Decisions(s) ==
    LET found == sync[s].found
        near(set) == {Candidate(r) : r \in {t \in set : Near(t, found)}}
    IN  MatchImportRows({Line(e) : e \in found}, near(Unbound), {}, near(Counterparts),
                                 Link(s), None, "link-existing")

\* What importProviderTransactions does with a decision.
Deed(e, decision) ==
    LET kinds == {m.kind : m \in decision.matches}
        act == IF decision.suggestedAction = "RECORD_TRANSFER" THEN "convert"
               ELSE IF \/ decision.suggestedAction = "SKIP"
                       \/ decision.suggestedAction = "LINK_TRANSACTION" /\ kinds = {"TRANSACTION"}
               THEN "remember" ELSE "add"
    IN  [ext |-> e, act |-> act,
         row |-> IF act = "add" THEN None ELSE (CHOOSE m \in decision.matches : TRUE).id]

\* History: what may be half of several transfers, as entries of several other
\* accounts fit it or a transfer does that no movement stands behind.
Fit(s, e) == {r \in Counterparts : CounterpartyFits(Line(e), Candidate(r), Link(s))}
Torn(s, e) == \/ \E r, t \in Fit(s, e) : r.accountId # t.accountId
              \/ \E r \in Unbound : MirrorFits(Line(e), Candidate(r), Link(s))

Decide(s) ==
    LET decisions == Decisions(s) IN
    /\ sync[s].pc = "decide"
    /\ sync' = [sync EXCEPT ![s].pc = "write", ![s].fresh = TRUE,
                            ![s].todo = {Deed(e, decisions[e]) : e \in sync[s].found}]
    /\ seen' = [seen EXCEPT !.torn = @ \cup {e \in sync[s].found : Torn(s, e)}]
    /\ UNCHANGED <<today, cred, mapped, refused, appeared, rows, key>>

-----------------------------------------------------------------------------
Outdated(except) == [s \in Syncs |-> IF s = except THEN sync[s] ELSE [sync[s] EXCEPT !.fresh = FALSE]]

\* The deeds are done by date.
Before(x, y) == Remote[x].day < Remote[y].day \/ (Remote[x].day = Remote[y].day /\ x < y)

Due(s) == {d \in sync[s].todo : \A o \in sync[s].todo \ {d} : Before(d.ext, o.ext)}

NewId == seen.rows + 1

\* addMovement
Added(s, d) ==
    [id |-> NewId, type |-> IF Remote[d.ext].out THEN "EXPENSE" ELSE "INCOME",
     accountId |-> Link(s), fromAccountId |-> None, toAccountId |-> None,
     amount |-> 1, day |-> Remote[d.ext].day, ext |-> d.ext, by |-> "sync",
     edited |-> FALSE, stale |-> ~sync[s].fresh]

\* Fault: the new transfer keeps the account of the entry it replaces.
ConvertedInPlace(s, d, old) ==
    [Added(s, d) EXCEPT !.type = "TRANSFER", !.accountId = old.accountId,
                        !.fromAccountId = Link(s), !.toAccountId = old.accountId]

\* convertToTransfer: the entry is deleted and a transfer made, under the
\* identity the entry had.
Converted(s, d, old) ==
    [Added(s, d) EXCEPT !.type = "TRANSFER", !.accountId = None,
        !.fromAccountId = IF Remote[d.ext].out THEN Link(s) ELSE old.accountId,
        !.toAccountId = IF Remote[d.ext].out THEN old.accountId ELSE Link(s),
        !.ext = IF old.ext # None THEN old.ext ELSE d.ext]

\* Fault: the keys of the entry go with it (ON DELETE CASCADE).
OnlyItsOwn(d, old) == {d.ext}

\* The keys the new transfer answers to.
Remembered(d, old) == {d.ext} \cup {e \in Exts : key[e] = old.id \/ e = old.ext}

\* What the unique indexes and the foreign key let through.
Allowed(d) ==
    CASE d.act = "add" -> ~Known(d.ext)
      [] d.act = "remember" -> key[d.ext] = None /\ RowOf(d.row) # {}
      [] d.act = "convert" -> \E old \in RowOf(d.row) :
             /\ \A e \in Remembered(d, old) : key[e] \in {None, old.id}
             /\ old.ext = None => \A r \in rows \ {old} : r.ext # d.ext

Write(s, d) ==
    LET rest == sync[s].todo \ {d}
        After(to) == [to EXCEPT ![s] = IF rest = {} THEN NextLink(@) ELSE [@ EXCEPT !.todo = rest]]
        Counted == [seen EXCEPT !.recorded[d.ext] = @ + 1]
    IN
    /\ sync[s].pc = "write" /\ Allowed(d)
    /\ \/ /\ d.act = "add"
          /\ rows' = rows \cup {Added(s, d)}
          /\ key' = [key EXCEPT ![d.ext] = NewId]
          /\ seen' = [Counted EXCEPT !.rows = NewId]
       \/ /\ d.act = "remember"
          /\ rows' = rows /\ key' = [key EXCEPT ![d.ext] = d.row]
          /\ seen' = Counted
       \/ \E old \in RowOf(d.row) :
          /\ d.act = "convert"
          /\ rows' = (rows \ {old}) \cup {Converted(s, d, old)}
          /\ key' = [e \in Exts |-> IF e \in Remembered(d, old) THEN NewId
                                    ELSE IF key[e] = old.id THEN None ELSE key[e]]
          /\ seen' = [Counted EXCEPT !.rows = NewId]
    /\ sync' = After(Outdated(s))
    /\ UNCHANGED <<today, cred, mapped, refused, appeared>>

\* A conflict, or an entry that is gone: the sync ends there.
WriteRefused(s, d) ==
    /\ sync[s].pc = "write" /\ ~Allowed(d)
    /\ sync' = [sync EXCEPT ![s] = IdleSync]
    /\ UNCHANGED <<today, cred, mapped, refused, appeared, rows, key, seen>>

\* What a first load does not go back to.
BeforeTheYear(s) == {e \in Exts : sync[s].last = Never /\ Remote[e].day < today - FirstLoad}

\* lastSyncAt moves, of a credential that is still the one it was given.
Finish(s) ==
    /\ sync[s].pc = "fetch" /\ sync[s].links = {}
    /\ IF cred.saved /\ cred.id = sync[s].id
       THEN /\ cred' = [cred EXCEPT !.last = today]
            /\ seen' = [seen EXCEPT !.passed = @ \cup (Accounts \ sync[s].did),
                                    !.late = @ \cup BeforeTheYear(s)]
       ELSE UNCHANGED <<cred, seen>>
    /\ sync' = [sync EXCEPT ![s] = IdleSync]
    /\ UNCHANGED <<today, mapped, refused, appeared, rows, key>>

-----------------------------------------------------------------------------
\* TransactionsService.update: another amount; the row's externalId is dropped.
EditRow(r) ==
    /\ ~r.edited /\ Outside
    /\ rows' = (rows \ {r}) \cup {[r EXCEPT !.amount = 2, !.ext = None, !.edited = TRUE]}
    /\ sync' = Outdated(None)
    /\ UNCHANGED <<today, cred, mapped, refused, appeared, key>>

\* TransactionsService.remove: the keys go too (ON DELETE CASCADE).
DeleteRow(r) ==
    /\ seen.moves < MaxMoves
    /\ rows' = rows \ {r}
    /\ key' = [e \in Exts |-> IF key[e] = r.id THEN None ELSE key[e]]
    /\ seen' = [seen EXCEPT !.moves = @ + 1,
                            !.forgotten = @ \cup {e \in Exts : key[e] = r.id \/ e = r.ext}]
    /\ sync' = Outdated(None)
    /\ UNCHANGED <<today, cred, mapped, refused, appeared>>

\* The provider shows a movement, perhaps days after it.
Appear(e) ==
    /\ e \notin appeared /\ Remote[e].day <= today
    /\ appeared' = appeared \cup {e}
    /\ seen' = [seen EXCEPT !.late = IF today > Remote[e].day + Overlap THEN @ \cup {e} ELSE @]
    /\ UNCHANGED <<today, cred, mapped, refused, rows, key, sync>>

Refuse(a) ==
    /\ a \notin refused /\ Outside /\ refused' = refused \cup {a}
    /\ UNCHANGED <<today, cred, mapped, appeared, rows, key, sync>>

Restore(a) ==
    /\ a \in refused /\ refused' = refused \ {a}
    /\ UNCHANGED <<today, cred, mapped, appeared, rows, key, sync, seen>>

\* No sync lasts from one of the model's days to the next.
NextDay ==
    /\ today + Step <= LastDay /\ \A s \in Syncs : sync[s].pc = "idle"
    /\ today' = today + Step
    /\ UNCHANGED <<cred, mapped, refused, appeared, rows, key, sync, seen>>

SyncStep(s) ==
    \/ \E maps \in Mappings : SyncStart(s, maps)
    \/ ReadAccounts(s) \/ Fetch(s) \/ FetchFails(s) \/ SyncFails(s) \/ Decide(s)
    \/ Finish(s)
    \/ \E d \in Due(s) : Write(s, d) \/ WriteRefused(s, d)

OpenFinanceNext ==
    \/ \E items \in Logins : Save(items)
    \/ RemoveCredential
    \/ \E s \in Syncs : SyncStep(s)
    \/ \E r \in rows : EditRow(r) \/ DeleteRow(r)
    \/ \E e \in Exts : Appear(e)
    \/ \E a \in UNION Logins : Refuse(a) \/ Restore(a)
    \/ NextDay

OpenFinanceSpec == OpenFinanceInit /\ [][OpenFinanceNext]_ofVars

-----------------------------------------------------------------------------
\* The types, the unique indexes of the two tables that name movements, and what
\* kind of entry carries which accounts.
OpenFinanceTypeOK ==
    /\ today \in 0..LastDay /\ cred.last \in {Never} \cup 0..LastDay
    /\ mapped \subseteq Accounts /\ refused \subseteq Accounts /\ appeared \subseteq Exts
    /\ rows \subseteq Entry
    /\ \A r, t \in rows : r # t => r.id # t.id /\ (r.ext # t.ext \/ r.ext = None)
    /\ \A r \in rows : IF r.type = "TRANSFER" THEN r.accountId = None /\ r.fromAccountId # r.toAccountId
                       ELSE r.accountId # None /\ r.fromAccountId = None /\ r.toAccountId = None
    /\ \A e \in Exts : key[e] = None \/ RowOf(key[e]) # {}

\* A movement is brought in a second time only after somebody deleted the entry
\* that stood for it, whatever syncs run at once, fail or start again, and also
\* when the entry was edited or became half of a transfer.
RecordedTwiceOnlyIfDeleted ==
    \A e \in Exts : seen.recorded[e] > 1 => e \in seen.forgotten

\* A movement that the next sync will no longer read, and that the books lack,
\* was shown by the provider more than a week late, was more than a year old when
\* a first load ended, was deleted, or its account was passed over by a sync that
\* moved the date all the same: expired consent, no link yet, an item added
\* afterwards.
LeftBehindOnlyIfSkipped ==
    \A e \in appeared :
        /\ cred.saved /\ cred.last # Never /\ ~Known(e)
        /\ Remote[e].day < RangeFrom(cred.last)
        => \/ e \in seen.late \cup seen.forgotten
           \/ Remote[e].account \in seen.passed

\* The two halves of a transfer between the person's accounts stand in the books
\* as an expense and an income only if one was edited, was written by a sync that
\* had listed the entries before somebody else wrote, or might as well have been
\* half of another transfer when it was decided upon.
HalvesOnlyByOverlap ==
    \A r, t \in rows :
        /\ r.by = "sync" /\ t.by = "sync" /\ r.type = "EXPENSE" /\ t.type = "INCOME"
        /\ r.accountId # t.accountId /\ r.day = t.day
        => r.edited \/ t.edited \/ r.stale \/ t.stale \/ {r.ext, t.ext} \cap seen.torn # {}
=============================================================================
