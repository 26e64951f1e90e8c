----------------------------- MODULE SheetHistory -----------------------------
\* The bottom sheet and the browser's history (ui.tsx): an open sheet has an entry of
\* its own above the page's, so that Back closes it; a sheet closed in another way
\* takes its entry back with history.back(), whose popstate is swallowed, and a link
\* in a sheet waits for it. A traversal is asked for now and lands later; a router's
\* push comes later too. One sheet is open at a time, so the generation of a sheet
\* is the latest one and an entry's mark is a truth value.
EXTENDS Integers, Sequences

CONSTANTS
    Places,         \* the pages; NoPlace is none of them
    NoPlace,
    MaxTaps         \* Bound: what the user does

ASSUME SheetHistoryAssumption == Places # {} /\ NoPlace \notin Places /\ MaxTaps \in Nat

VARIABLES
    stack, at,      \* the entries of the tab and the current one
    travel,         \* the traversals asked for, [delta, own]
    sheet,          \* it is open
    closedByPop,
    suppressed,     \* suppressBottomSheetPop; the swallow listener is there as long
    waiting,        \* where navigateAfterBottomSheet goes once a popstate comes
    pushing,        \* where the router is going
    taps,
    due,            \* history: where the last link leads
    crossed,        \* history: the user was faster than a traversal or a push
    stray           \* history: Back, Forward or a reload came to a sheet's entry

historyVars == <<stack, at, travel, sheet, closedByPop, suppressed, waiting, pushing, taps, due, crossed, stray>>

Here == stack[at]
Home == CHOOSE p \in Places : TRUE

SheetInit ==
    /\ stack = <<[place |-> Home, mark |-> FALSE], [place |-> Home, mark |-> FALSE]>> /\ at = 2
    /\ travel = <<>> /\ sheet = FALSE /\ closedByPop = FALSE /\ suppressed = FALSE
    /\ waiting = NoPlace /\ pushing = NoPlace /\ taps = 0
    /\ due = NoPlace /\ crossed = FALSE /\ stray = FALSE

Taps == taps < MaxTaps /\ taps' = taps + 1
Busy == travel # <<>> \/ pushing # NoPlace
Hastens == crossed' = (crossed \/ Busy)

Above(entry) == stack' = Append(SubSeq(stack, 1, at), entry) /\ at' = at + 1

\* The effect of a sheet that opens: an entry for it, or the one a sheet left.
OpenSheet ==
    /\ Taps /\ ~sheet /\ (travel = <<>> \/ Here.mark)
    /\ sheet' = TRUE /\ closedByPop' = FALSE /\ stray' = FALSE /\ Hastens
    /\ IF Here.mark THEN UNCHANGED <<stack, at>> ELSE Above([place |-> Here.place, mark |-> TRUE])
    /\ UNCHANGED <<travel, suppressed, waiting, pushing, due>>

\* Fault: the link does not wait for the entry of the sheet to go.
GoesAtOnce == TRUE

\* navigateAfterBottomSheet
Goes == ~Here.mark

\* The cleanup of the effect and its microtask.
TakesBack == ~closedByPop /\ Here.mark

\* The handle, a drag, the overlay, Escape, a choice, or a link to a place.
CloseSheet(place) ==
    /\ Taps /\ sheet /\ sheet' = FALSE
    /\ IF place # NoPlace /\ Goes THEN pushing' = place /\ UNCHANGED waiting
       ELSE UNCHANGED pushing /\ waiting' = IF place = NoPlace THEN waiting ELSE place
    /\ due' = IF place = NoPlace THEN due ELSE place
    /\ travel' = IF TakesBack THEN Append(travel, [delta |-> -1, own |-> TRUE]) ELSE travel
    /\ suppressed' = (suppressed \/ TakesBack)
    /\ Hastens
    /\ UNCHANGED <<stack, at, closedByPop, stray>>

\* The user's Back and Forward.
Traverse(delta) ==
    /\ Taps /\ at + delta \in 1..Len(stack) /\ Len(travel) < 2
    /\ travel' = Append(travel, [delta |-> delta, own |-> FALSE])
    /\ due' = NoPlace /\ Hastens
    /\ UNCHANGED <<stack, at, sheet, closedByPop, suppressed, waiting, pushing, stray>>

\* A traversal lands. An open sheet closes, unless the popstate is swallowed or its
\* page goes too; who waited for it goes on.
Land ==
    LET delta == Head(travel).delta
        entry == stack[at + delta] IN
    /\ travel # <<>> /\ at + delta \in 1..Len(stack)
    /\ at' = at + delta /\ travel' = Tail(travel)
    /\ closedByPop' = (closedByPop \/ sheet)
    /\ sheet' = (sheet /\ suppressed /\ entry.place = Here.place)
    /\ suppressed' = FALSE /\ waiting' = NoPlace
    /\ pushing' = IF waiting = NoPlace THEN pushing ELSE waiting
    /\ stray' = (entry.mark /\ ~sheet' /\ ~Head(travel).own)
    /\ UNCHANGED <<stack, taps, due, crossed>>

\* Nothing lies where the traversal leads.
LandNowhere ==
    /\ travel # <<>> /\ at + Head(travel).delta \notin 1..Len(stack)
    /\ travel' = Tail(travel)
    /\ UNCHANGED <<stack, at, sheet, closedByPop, suppressed, waiting, pushing, taps, due, crossed, stray>>

\* A link of the page.
FollowLink(place) ==
    /\ Taps /\ ~sheet /\ ~Busy
    /\ pushing' = place /\ due' = place
    /\ UNCHANGED <<stack, at, travel, sheet, closedByPop, suppressed, waiting, crossed, stray>>

\* The router's entry; the sheet of a page left is closed (AppShell, unmount).
Pushed ==
    /\ pushing # NoPlace /\ pushing' = NoPlace
    /\ Above([place |-> pushing, mark |-> FALSE])
    /\ sheet' = (sheet /\ pushing = Here.place) /\ stray' = FALSE
    /\ UNCHANGED <<travel, closedByPop, suppressed, waiting, taps, due, crossed>>

\* The page is loaded again: the entry keeps its state, the module does not.
ReloadPage ==
    /\ Taps /\ ~Busy
    /\ sheet' = FALSE /\ closedByPop' = FALSE /\ suppressed' = FALSE /\ waiting' = NoPlace
    /\ stray' = Here.mark
    /\ UNCHANGED <<stack, at, travel, pushing, due, crossed>>

SheetHistoryNext ==
    \/ OpenSheet \/ Land \/ LandNowhere \/ Pushed \/ ReloadPage
    \/ \E place \in Places \cup {NoPlace} : CloseSheet(place)
    \/ \E place \in Places : FollowLink(place)
    \/ \E delta \in {-1, 1} : Traverse(delta)

\* The user does nothing more.
HistoryIdle == taps = MaxTaps /\ ~Busy /\ UNCHANGED historyVars

SheetHistorySpec == SheetInit /\ [][SheetHistoryNext \/ HistoryIdle]_historyVars

-------------------------------------------------------------------------------
\* A popstate is swallowed only while there is one to come: none is left to swallow
\* the user's Back. So with a link that waits, unless the user was faster than a
\* traversal or a push (ui.tsx:285-316).
NothingLeftWaiting ==
    /\ suppressed => travel # <<>>
    /\ waiting # NoPlace => travel # <<>> \/ crossed

\* "Um back a mais tira a pessoa da página; um a menos deixa a folha zumbi na pilha"
\* (docs/34:549). At rest an open sheet lies on the page it was opened on, a closed
\* one has no entry left to go back from, and a link has led where it leads; unless
\* the user was faster, or came back to an entry by Back, Forward or a reload. No
\* entry of a sheet ever lies on another ("não empilhar dois estados", docs/34:357).
OneEntryPerSheet ==
    /\ \A i \in 2..Len(stack) : ~(stack[i].mark /\ stack[i - 1].mark)
    /\ ~Busy /\ ~crossed =>
        /\ sheet => Here.mark /\ at > 1 /\ stack[at - 1].place = Here.place
        /\ ~sheet => ~Here.mark \/ stray
        /\ due # NoPlace => Here.place = due

\* What sheets leave in the history is what is open: the two together.
SheetsKeepHistory == NothingLeftWaiting /\ OneEntryPerSheet
===============================================================================
