------------------------------- MODULE Screens -------------------------------
(***************************************************************************)
(* One tab of the web application between a page, the cache of queries and   *)
(* the API (lib/api.ts, components/household-provider.tsx, providers.tsx,    *)
(* scripts/write-sw.mjs, the pages).                                         *)
(*                                                                          *)
(* Keys do not influence each other, so a behaviour follows one of them,     *)
(* chosen at the start. A request reads the active household from            *)
(* localStorage, which all tabs of the browser share, when it is sent; the   *)
(* household the page names is state of HouseholdProvider. The cache itself  *)
(* (TanStack Query) is a library: it is modelled from the options that       *)
(* providers.tsx gives it (no retries, stale at once, no refetch on focus).  *)
(***************************************************************************)
EXTENDS Naturals, FiniteSets, Pages

CONSTANTS
    Keys,       \* the query keys that may be followed
    MaxActs,    \* bound on what the user does: pages opened, writes, switches
    MaxMoves    \* bound on what the user does not do

ASSUME ScreensAssumption == Keys \subseteq AllKeys /\ MaxActs \in Nat /\ MaxMoves \in Nat

VARIABLES
    key,
    mine,       \* the households the server lists for the user
    known,      \* the list as the tab has it
    selected,   \* HouseholdProvider's selectedId
    storage,    \* localStorage orcadom.householdId
    page,
    cache,      \* the entry of key; flaws is history
    flight,     \* the fetch of key in flight; flaws is history
    listing,    \* a fetch of the households is in flight
    server,     \* how often the answer changed, per household
    copy,       \* the service worker's last answers, per URL and household
    write,      \* the mutation in flight
    owed,       \* history: the version that the user's own last write made
    acts, moves

place == <<mine, known, selected, storage, page, listing>>
data == <<cache, flight>>
bounds == <<acts, moves>>
screenVars == <<key, place, data, server, copy, write, owed, bounds>>

-----------------------------------------------------------------------------
\* The user's own household (which nobody leaves) and another.
Households == {1, 2}
Anyone == 0
Scopes == IF key \in Personal THEN {Anyone} ELSE Households
None == 99
Versions == 0..(MaxActs + MaxMoves)

\* Why an answer may rightly be out of date. foreign: the household in storage
\* was not the one shown. copy: the worker answered from its cache. failed: a
\* fetch or a mutation failed. overtaken: the fetch was read before a write or a
\* switch and nothing asked again. left: a write that does not name the key was
\* committed after the user left its page. fellback: the household shown was taken
\* away.
Flaws == {"foreign", "copy", "failed", "overtaken", "left", "fellback"}
NoEntry == [home |-> None, ver |-> 0, flaws |-> {}]
NoFlight == [pc |-> "none", home |-> None, ver |-> 0, flaws |-> {}]
NoWrite == [pc |-> "none", home |-> None, touches |-> FALSE, refreshes |-> FALSE, sets |-> FALSE,
            lists |-> FALSE, left |-> FALSE, ver |-> 0]

Shown == IF selected \in known THEN selected ELSE CHOOSE h \in known : \A g \in known : h <= g
Scope(h) == IF key \in Personal THEN Anyone ELSE h
\* Pages that have nothing to do with the key are alike: one stands for them.
Concerns == {kp \in AllKeys \X DOMAIN PageOf :
    LET its == PageOf[kp[2]] IN
    \/ kp[1] \in its.shows
    \/ \E m \in its.mutations : kp[1] \in m.touches \cup m.refreshes \cup m.sets}
Visited == {p \in DOMAIN PageOf : <<key, p>> \in Concerns} \cup {"household", "dashboard"}
MountedOn(p) == key \in PageOf[p].shows \/ key \in Layout.shows
Mounted == MountedOn(page)

\* api() puts the household of the moment into the header.
Ask(stored, shown) == [pc |-> "asked", home |-> Scope(stored), ver |-> 0,
                       flaws |-> IF Scope(stored) = Scope(shown) THEN {} ELSE {"foreign"}]
Asked == Ask(storage, Shown)

\* A component mounts: the entry is stale at once, so it is fetched, unless a
\* fetch is in flight, which then serves.
Joined(fresh) == IF flight.pc = "none" THEN fresh ELSE flight

\* Fault: a switch or a write only marks the entry.
MarkedOnly(fresh, old) == old

\* invalidateQueries: a fetch in flight is replaced when there is something to
\* show meanwhile, else it serves. Without an observer the entry is only marked.
Replaced(fresh, old) == IF Mounted /\ (flight.pc = "none" \/ cache # NoEntry) THEN fresh ELSE old

Overtaken == [flight EXCEPT !.flaws = @ \cup {"overtaken"}]

Act == acts < MaxActs /\ acts' = acts + 1 /\ moves' = moves
Move == moves < MaxMoves /\ moves' = moves + 1 /\ acts' = acts

ScreensInit ==
    /\ key \in Keys
    /\ mine \in {{1}, {1, 2}} /\ known = mine /\ selected \in mine /\ storage = selected
    /\ page \in {p \in Visited : key \notin PageOf[p].shows}
    /\ cache = NoEntry /\ flight = NoFlight /\ listing = FALSE
    /\ server = [h \in Scopes |-> 0] /\ copy = [h \in Scopes |-> None]
    /\ write = NoWrite /\ owed = [h \in Scopes |-> 0]
    /\ acts = 0 /\ moves = 0

-----------------------------------------------------------------------------
(* Pages and their fetches. *)

Left == IF write.pc = "none" THEN write ELSE [write EXCEPT !.left = TRUE]

Open(p) ==
    /\ p # page /\ Act
    /\ page' = p /\ write' = Left
    /\ flight' = IF key \in PageOf[p].shows THEN Joined(Asked) ELSE flight
    /\ UNCHANGED <<key, mine, known, selected, storage, listing, cache, server, copy, owed>>

\* The bell asks again every 30 seconds, and so does any page once it is back online.
Refetch ==
    /\ Mounted /\ flight.pc = "none" /\ Move
    /\ flight' = Asked
    /\ listing' = (listing \/ key # "notifications")
    /\ UNCHANGED <<key, mine, known, selected, storage, page, cache, server, copy, write, owed>>

Member(h) == h = Anyone \/ h \in mine

\* The API answers a member; the worker keeps the answer on its way.
Read ==
    /\ flight.pc = "asked" /\ Member(flight.home)
    /\ flight' = [flight EXCEPT !.pc = "read", !.ver = server[flight.home]]
    /\ copy' = [copy EXCEPT ![flight.home] = server[flight.home]]
    /\ UNCHANGED <<key, place, cache, server, write, owed, bounds>>

\* No answer in four seconds: NetworkFirst serves what it has for this URL and household.
ReadCopy ==
    /\ flight.pc = "asked" /\ copy[flight.home] # None /\ Move
    /\ flight' = [flight EXCEPT !.pc = "read", !.ver = copy[flight.home], !.flaws = @ \cup {"copy"}]
    /\ UNCHANGED <<key, place, cache, server, copy, write, owed>>

Arrive ==
    /\ flight.pc = "read"
    /\ cache' = [home |-> flight.home, ver |-> flight.ver, flaws |-> flight.flaws]
    /\ flight' = NoFlight
    /\ UNCHANGED <<key, place, server, copy, write, owed, bounds>>

\* Refused (not a member any more) or lost, without a retry: what was shown stays.
Fail ==
    /\ \/ flight.pc # "none" /\ Move
       \/ flight.pc = "asked" /\ ~Member(flight.home) /\ UNCHANGED bounds
    /\ flight' = NoFlight
    /\ cache' = IF cache = NoEntry THEN cache ELSE [cache EXCEPT !.flaws = @ \cup {"failed"}]
    /\ UNCHANGED <<key, place, server, copy, write, owed>>

-----------------------------------------------------------------------------
(* Mutations. *)

Mutations == PageOf[page].mutations \cup Layout.mutations

Send(m) ==
    /\ write.pc = "none" /\ Act
    /\ write' = [pc |-> "sent", home |-> Scope(storage), touches |-> key \in m.touches,
                 refreshes |-> key \in m.refreshes, sets |-> key \in m.sets,
                 lists |-> "households" \in m.refreshes, left |-> FALSE, ver |-> 0]
    /\ UNCHANGED <<key, place, data, server, copy, owed>>

Touched(h) == IF write.touches THEN [server EXCEPT ![h] = @ + 1] ELSE server

Commit ==
    /\ write.pc = "sent" /\ Member(write.home)
    /\ server' = Touched(write.home)
    /\ owed' = IF write.touches THEN [owed EXCEPT ![write.home] = server'[write.home]] ELSE owed
    /\ write' = [write EXCEPT !.pc = "done", !.ver = server'[write.home]]
    /\ flight' = IF write.touches /\ flight.pc = "read" THEN Overtaken ELSE flight
    /\ cache' = IF cache # NoEntry /\ write.touches /\ write.left /\ ~write.refreshes
                THEN [cache EXCEPT !.flaws = @ \cup {"left"}] ELSE cache
    /\ UNCHANGED <<key, place, copy, bounds>>

\* onSuccess: the keys before this one are refreshed first, each awaited.
\* setQueryData stops no fetch.
Answer ==
    /\ write.pc = "done"
    /\ write' = IF write.refreshes \/ write.lists THEN [write EXCEPT !.pc = "answered"] ELSE NoWrite
    /\ cache' = IF write.sets THEN [home |-> write.home, ver |-> write.ver,
                                    flaws |-> IF write.home = Scope(Shown) THEN {} ELSE {"foreign"}]
                ELSE cache
    /\ UNCHANGED <<key, place, flight, server, copy, owed, bounds>>

Refresh ==
    /\ write.pc = "answered"
    /\ flight' = IF write.refreshes THEN Replaced(Asked, flight) ELSE flight
    /\ listing' = (listing \/ write.lists)
    /\ write' = NoWrite
    /\ UNCHANGED <<key, mine, known, selected, storage, page, cache, server, copy, owed, bounds>>

\* A refused or lost mutation says so and refreshes nothing, even if it was committed.
WriteFails ==
    /\ \/ write.pc \in {"sent", "done"} /\ Move
       \/ write.pc = "sent" /\ ~Member(write.home) /\ UNCHANGED bounds
    /\ write' = NoWrite
    /\ cache' = IF cache = NoEntry THEN cache ELSE [cache EXCEPT !.flaws = @ \cup {"failed"}]
    /\ UNCHANGED <<key, place, flight, server, copy, owed>>

-----------------------------------------------------------------------------
(* Households. *)

\* setHouseholdId: every query but the list is invalidated.
Switch(h) ==
    /\ h \in known \ {Shown} /\ Act
    /\ selected' = h /\ storage' = h
    /\ flight' = Replaced(Ask(h, h), IF flight.home \in {None, Scope(h)} THEN flight ELSE Overtaken)
    /\ UNCHANGED <<key, mine, known, page, listing, cache, server, copy, write, owed>>

\* HouseholdProvider renders: it writes the household it shows back.
Render ==
    /\ storage # Shown
    /\ storage' = Shown /\ selected' = Shown
    /\ UNCHANGED <<key, mine, known, page, listing, data, server, copy, write, owed, bounds>>

\* The list arrives: when the household shown is gone the first one takes its
\* place, and no query is invalidated.
ListArrives ==
    /\ listing
    /\ listing' = FALSE /\ known' = mine
    /\ IF mine = known THEN UNCHANGED <<selected, storage, data>>
       ELSE LET shown == IF Shown \in mine THEN Shown ELSE 1
                Fell(x) == IF shown = Shown \/ key \in Personal THEN x
                           ELSE [x EXCEPT !.flaws = @ \cup {"fellback"}] IN
            /\ selected' = shown /\ storage' = shown
            /\ cache' = IF cache = NoEntry THEN cache ELSE Fell(cache)
            /\ flight' = IF flight.pc = "none" THEN flight ELSE Fell(flight)
    /\ UNCHANGED <<key, mine, page, server, copy, write, owed, bounds>>

\* The page is loaded anew: nothing of the tab is left but localStorage.
Reload ==
    /\ write.pc = "none" /\ Act
    /\ known' = mine /\ listing' = FALSE
    /\ LET shown == IF storage \in mine THEN storage ELSE 1 IN
        /\ selected' = shown /\ storage' = shown
        /\ flight' = IF Mounted THEN Ask(shown, shown) ELSE NoFlight
    /\ cache' = NoEntry
    /\ UNCHANGED <<key, mine, page, server, copy, write, owed>>

-----------------------------------------------------------------------------
(* Others: members, owners, another tab, an invitation. *)

OthersWrite ==
    /\ Move
    /\ \E h \in Scopes : server' = [server EXCEPT ![h] = @ + 1]
    /\ UNCHANGED <<key, place, data, copy, write, owed>>

OtherTab ==
    /\ Move /\ storage' \in mine \ {storage}
    /\ UNCHANGED <<key, mine, known, selected, page, listing, data, server, copy, write, owed>>

Removed ==
    /\ Move /\ mine = Households /\ mine' = {1}
    /\ UNCHANGED <<key, known, selected, storage, page, listing, data, server, copy, write, owed>>

\* The invitation page stores the new household and opens the dashboard; the
\* list is not refreshed.
AcceptInvite ==
    /\ Move /\ mine = {1} /\ mine' = Households
    /\ storage' = 2 /\ page' = "dashboard"
    /\ write' = Left
    /\ flight' = IF key \in Dashboard.shows THEN Joined(Ask(2, Shown)) ELSE flight
    /\ UNCHANGED <<key, known, selected, listing, cache, server, copy, owed>>

-----------------------------------------------------------------------------
Fetches == Read \/ ReadCopy \/ Arrive \/ Fail \/ Refetch
Writes == (\E m \in Mutations : Send(m)) \/ Commit \/ Answer \/ Refresh \/ WriteFails
Moving == (\E p \in Visited : Open(p)) \/ (\E h \in Households : Switch(h)) \/ Reload
Around == Render \/ ListArrives \/ OthersWrite \/ OtherTab \/ Removed \/ AcceptInvite

\* Nothing is in flight and the bounds are reached.
TabRests ==
    /\ acts = MaxActs /\ flight.pc = "none" /\ write.pc = "none" /\ ~listing /\ storage = Shown
    /\ UNCHANGED screenVars

ScreensNext == Fetches \/ Writes \/ Moving \/ Around \/ TabRests
ScreensSpec == ScreensInit /\ [][ScreensNext]_screenVars

-----------------------------------------------------------------------------
ScreensTypeOK ==
    /\ key \in Keys /\ mine \in {{1}, Households} /\ known \in {{1}, Households}
    /\ selected \in Households /\ storage \in Households
    /\ page \in DOMAIN PageOf /\ listing \in BOOLEAN
    /\ cache \in [home : Scopes \cup {None}, ver : Versions, flaws : SUBSET Flaws]
    /\ flight \in [pc : {"none", "asked", "read"}, home : Scopes \cup {None}, ver : Versions,
                   flaws : SUBSET Flaws]
    /\ server \in [Scopes -> Versions] /\ copy \in [Scopes -> Versions \cup {None}]
    /\ owed \in [Scopes -> Versions]

AtRest == Mounted /\ flight.pc = "none" /\ write.pc = "none" /\ cache # NoEntry /\ cache.flaws = {}

\* At rest a page shows the answer of the household it names
\* (household-provider.tsx:44-50, api.ts:52-55), unless another tab or an
\* invitation had stored another one when it was asked for, a fetch failed, the
\* household was taken away, or the household was switched while the first load
\* or a fetch of a page already left was under way.
PageOfOtherHouseholdExcused == AtRest => cache.home = Scope(Shown)

\* At rest a page shows what the user last wrote (the onSuccess of every
\* mutation), unless a request failed, the worker answered from its cache, or
\* the write overtook a fetch that nothing replaced, or the user had left the page
\* that wrote. The bell may wait for its next poll.
OwnWriteHiddenExcused ==
    AtRest /\ key # "notifications" => cache.ver >= owed[cache.home]

\* The variables keep their types, and the user's own writes (onSuccess of the
\* pages) are shown but for the excuses above.
OwnWritesShown == ScreensTypeOK /\ OwnWriteHiddenExcused
=============================================================================
