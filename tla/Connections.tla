------------------------------ MODULE Connections ------------------------------
(***************************************************************************)
(* A connection to a bank through any provider but Meu Pluggy                *)
(* (open-finance.service.ts): registered, synchronised by the button and by  *)
(* the webhook, perhaps at once, and revoked. Its status is UPDATING while a *)
(* sync runs; a sync that ends well stores what the provider said of the     *)
(* connection and the hour from which the next one reads; a sync that fails  *)
(* puts the status it had read back, unless the login was refused.           *)
(*                                                                          *)
(* One connection with one account at the provider.                          *)
(***************************************************************************)
EXTENDS Integers, FiniteSets

CONSTANTS
    Runs,           \* calls of syncConnection
    Movements,      \* of the account at the provider
    MaxClock,       \* bound on the hours
    MaxStarts,      \* bound on the calls
    MaxSlips        \* bound on failures, revocations and what the bank does

ASSUME ConnectionsAssumption == MaxClock \in Nat /\ MaxStarts \in Nat /\ MaxSlips \in Nat

VARIABLES
    clock,
    conn,       \* the stored connection
    bank,       \* what the provider says of it: its status, and whether it lets us in
    dated,      \* movement -> its date, once the provider shows it
    books,      \* movements that are in the ledger
    link,       \* the local account tied to the provider's: 1 was there, 2 is made by a sync
    run,
    past        \* history and counters

connVars == <<clock, conn, bank, dated, books, link, run, past>>

-----------------------------------------------------------------------------
NoHour == -1
NoAccount == 0
NoConn == [there |-> FALSE, id |-> 0, status |-> "ACTIVE", last |-> NoHour]
IdleRun == [pc |-> "idle", id |-> 0, status |-> "ACTIVE", last |-> NoHour, wants |-> NoAccount,
            said |-> "ACTIVE", saw |-> NoAccount, found |-> {}]
Running == {s \in Runs : run[s].pc # "idle"}
Shown == {e \in Movements : dated[e] # NoHour}
Slip == past.slips < MaxSlips /\ past' = [past EXCEPT !.slips = @ + 1]
Slipping(kind) == past.slips < MaxSlips /\ past' = [past EXCEPT !.slips = @ + 1, !.why = @ \cup {kind}]
Overlapping == IF Running = {} THEN {} ELSE {"overlap"}
Turn(s, pc) == run' = [run EXCEPT ![s].pc = pc]

ConnectionsInit ==
    /\ clock = 0 /\ conn = NoConn
    /\ bank = [status |-> "ACTIVE", open |-> TRUE]
    /\ dated = [e \in Movements |-> NoHour] /\ books = {} /\ link = NoAccount
    /\ run = [s \in Runs |-> IdleRun]
    /\ past = [starts |-> 0, slips |-> 0, why |-> {}, word |-> "ACTIVE", early |-> {}]

-----------------------------------------------------------------------------
\* registerConnection: the hour of the provider's own last synchronisation is
\* taken for ours.
Register(last) ==
    /\ ~conn.there /\ bank.open
    /\ conn' = [there |-> TRUE, id |-> conn.id + 1, status |-> bank.status, last |-> last]
    /\ past' = [past EXCEPT !.word = bank.status,
                            !.why = Overlapping,
                            !.early = {e \in Shown \ books : dated[e] < last}]
    /\ UNCHANGED <<clock, bank, dated, books, link, run>>

\* findOwned, by the button, perhaps with an account of ours, or by the webhook,
\* which lets a revoked connection be.
Find(s, wants) ==
    /\ run[s].pc = "idle" /\ conn.there /\ past.starts < MaxStarts
    /\ run' = [run EXCEPT ![s] = [IdleRun EXCEPT !.pc = "mark", !.id = conn.id, !.status = conn.status,
                                                 !.last = conn.last, !.wants = wants]]
    /\ past' = [past EXCEPT !.starts = @ + 1, !.why = @ \cup Overlapping]
    /\ UNCHANGED <<clock, conn, bank, dated, books, link>>

Still(s) == conn.there /\ conn.id = run[s].id
Stores(s, status) == conn' = IF Still(s) THEN [conn EXCEPT !.status = status] ELSE conn

MarkUpdating(s) ==
    /\ run[s].pc = "mark"
    /\ Stores(s, "UPDATING")
    /\ IF Still(s) THEN Turn(s, "ask") ELSE run' = [run EXCEPT ![s] = IdleRun]
    /\ UNCHANGED <<clock, bank, dated, books, link, past>>

\* getConnection and listAccounts answer.
AskOpen(s) ==
    /\ run[s].pc = "ask" /\ bank.open
    /\ run' = [run EXCEPT ![s].pc = "look", ![s].said = bank.status]
    /\ past' = [past EXCEPT !.word = bank.status]
    /\ UNCHANGED <<clock, conn, bank, dated, books, link>>

\* Fault: the status that was read comes back after a refusal too.
WordRestored(s) == run[s].status

\* guard marks the connection of a refused login.
WordOfRefusal(s) == "LOGIN_ERROR"

AskRefused(s) ==
    /\ run[s].pc = "ask" /\ ~bank.open
    /\ Stores(s, WordOfRefusal(s))
    /\ run' = [run EXCEPT ![s] = IdleRun]
    /\ past' = [past EXCEPT !.word = "LOGIN_ERROR"]
    /\ UNCHANGED <<clock, bank, dated, books, link>>

\* resolveAccounts looks for the account that is tied ...
Look(s) ==
    /\ run[s].pc = "look"
    /\ run' = [run EXCEPT ![s].pc = "tie", ![s].saw = link]
    /\ UNCHANGED <<clock, conn, bank, dated, books, link, past>>

\* ... and ties the one asked for, or makes one. The unique index lets one be.
Tied(s) == IF run[s].wants # NoAccount THEN run[s].wants
           ELSE IF run[s].saw # NoAccount THEN run[s].saw ELSE 2
Ties(s) == IF run[s].wants # NoAccount THEN run[s].saw \in {NoAccount, run[s].wants} /\ link \in {NoAccount, run[s].wants}
           ELSE run[s].saw # NoAccount \/ link = NoAccount

Tie(s) ==
    /\ run[s].pc = "tie" /\ Ties(s)
    /\ link' = Tied(s)
    /\ Turn(s, "read")
    /\ UNCHANGED <<clock, conn, bank, dated, books, past>>

TieRefused(s) ==
    /\ run[s].pc = "tie" /\ ~Ties(s)
    /\ Turn(s, "failed")
    /\ UNCHANGED <<clock, conn, bank, dated, books, link, past>>

\* syncRange: from lastSyncAt, or 90 days, which no movement is older than.
RangeStart(last) == last

\* listTransactions, all its pages. What is known is passed over.
Read(s) ==
    /\ run[s].pc = "read"
    /\ run' = [run EXCEPT ![s].pc = "write",
                          ![s].found = {e \in Shown \ books : dated[e] >= RangeStart(run[s].last)}]
    /\ UNCHANGED <<clock, conn, bank, dated, books, link, past>>

\* importProviderTransactions; a key that another sync wrote meanwhile ends it.
Import(s) ==
    /\ run[s].pc = "write"
    /\ IF run[s].found \cap books = {} THEN books' = books \cup run[s].found /\ Turn(s, "store")
       ELSE books' = books /\ Turn(s, "failed")
    /\ UNCHANGED <<clock, conn, bank, dated, link, past>>

\* The provider fails, or the ledger does. Nothing is tried again.
Fails(s) ==
    /\ run[s].pc \in {"ask", "look", "tie", "read", "write", "store"} /\ Slip
    /\ Turn(s, "failed")
    /\ UNCHANGED <<clock, conn, bank, dated, books, link>>

\* The catch puts the status back that the sync had read.
PutBack(s) ==
    /\ run[s].pc = "failed"
    /\ Stores(s, run[s].status)
    /\ run' = [run EXCEPT ![s] = IdleRun]
    /\ past' = [past EXCEPT !.why = @ \cup {"failed"}]
    /\ UNCHANGED <<clock, bank, dated, books, link>>

\* The hour stored is that of the end, not the one until which was read.
Store(s) ==
    /\ run[s].pc = "store"
    /\ conn' = IF Still(s) THEN [conn EXCEPT !.status = run[s].said, !.last = clock] ELSE conn
    /\ run' = [run EXCEPT ![s] = IdleRun]
    /\ UNCHANGED <<clock, bank, dated, books, link, past>>

\* revokeConnection; the syncs that run go on without it.
Revoke ==
    /\ conn.there /\ past.slips < MaxSlips
    /\ IF bank.open THEN /\ conn' = [conn EXCEPT !.there = FALSE]
                         /\ bank' = [bank EXCEPT !.status = "REVOKED"]
       ELSE conn' = [conn EXCEPT !.status = "LOGIN_ERROR"] /\ UNCHANGED bank
    /\ past' = [past EXCEPT !.slips = @ + 1, !.why = @ \cup Overlapping,
                            !.word = IF bank.open THEN "REVOKED" ELSE "LOGIN_ERROR"]
    /\ UNCHANGED <<clock, dated, books, link, run>>

Crash ==
    /\ Running # {} /\ Slipping("crash")
    /\ run' = [s \in Runs |-> IdleRun]
    /\ UNCHANGED <<clock, conn, bank, dated, books, link>>

-----------------------------------------------------------------------------
\* The provider shows a movement of this hour or of an earlier one. early: a
\* sync has read past its date, or the connection starts after it.
Show(e, hour) ==
    /\ dated[e] = NoHour
    /\ dated' = [dated EXCEPT ![e] = hour]
    /\ past' = [past EXCEPT !.early = IF \/ hour < conn.last
                                         \/ \E s \in Runs : run[s].pc \in {"write", "store"}
                                      THEN @ \cup {e} ELSE @]
    /\ UNCHANGED <<clock, conn, bank, books, link, run>>

\* The bank asks for a new login, or has had it; a consent expires.
BankTurns ==
    /\ Slip
    /\ \/ bank' = [bank EXCEPT !.open = ~@]
       \/ bank.status = "ACTIVE" /\ bank' = [bank EXCEPT !.status = "EXPIRED"]
       \/ bank.status = "EXPIRED" /\ bank' = [bank EXCEPT !.status = "ACTIVE"]
    /\ UNCHANGED <<clock, conn, dated, books, link, run>>

Hour ==
    /\ clock < MaxClock /\ clock' = clock + 1
    /\ UNCHANGED <<conn, bank, dated, books, link, run, past>>

RunStep(s) ==
    \/ \E wants \in {NoAccount, 1} : Find(s, wants)
    \/ MarkUpdating(s) \/ AskOpen(s) \/ AskRefused(s) \/ Look(s) \/ Tie(s) \/ TieRefused(s)
    \/ Read(s) \/ Import(s) \/ Fails(s) \/ PutBack(s) \/ Store(s)

ConnectionsNext ==
    \/ \E last \in {NoHour} \cup 0..clock : Register(last)
    \/ \E s \in Runs : RunStep(s)
    \/ Revoke \/ Crash \/ BankTurns \/ Hour
    \/ \E e \in Movements, hour \in 0..clock : Show(e, hour)

\* Nobody has to call.
ConnectionsIdle == Running = {} /\ UNCHANGED connVars

ConnectionsSpec == ConnectionsInit /\ [][ConnectionsNext \/ ConnectionsIdle]_connVars

-----------------------------------------------------------------------------
\* When no sync runs, the connection shows what the provider last said of it, and
\* not UPDATING, unless a sync failed or crashed or two of them overlapped
\* (open-finance.service.ts:108, 127, 135).
StatusToldTruly ==
    conn.there /\ Running = {} =>
        \/ conn.status = past.word
        \/ past.why # {}

\* UPDATING itself stays only after a crash or an overlap.
UpdatingStaysOnlyByOverlap ==
    conn.there /\ Running = {} /\ conn.status = "UPDATING" => past.why \cap {"crash", "overlap"} # {}

\* A movement that the next sync will not read and that the books lack was shown
\* after its date had been read past, or lies before the connection's first hour.
NothingLeftBetween ==
    \A e \in Shown \ books : conn.there /\ dated[e] < conn.last => e \in past.early

\* What a connection promises: the three together.
ConnectionKeepsItsWord == StatusToldTruly /\ UpdatingStaysOnlyByOverlap /\ NothingLeftBetween
=============================================================================
