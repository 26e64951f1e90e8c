---------------------------- MODULE ScreensProofs ----------------------------
(***************************************************************************)
(* What the browser guarantees: the history entries of sheets, for any     *)
(* number of taps and pages; the page of a tab, for every query key; and   *)
(* the pickers of a day and a month, for any gestures and any years.       *)
(***************************************************************************)
EXTENDS Screens, SheetHistory, Pickers, TLAPS

-----------------------------------------------------------------------------
(* SheetHistory: the entries of sheets. *)

HistoryEntry == [place : Places, mark : BOOLEAN]
Travels == [delta : {-1, 1}, own : BOOLEAN]

HistoryTypes ==
    /\ stack \in Seq(HistoryEntry) /\ at \in 1..Len(stack) /\ travel \in Seq(Travels)
    /\ sheet \in BOOLEAN /\ closedByPop \in BOOLEAN /\ suppressed \in BOOLEAN
    /\ crossed \in BOOLEAN /\ stray \in BOOLEAN
    /\ waiting \in Places \cup {NoPlace} /\ pushing \in Places \cup {NoPlace}
    /\ due \in Places \cup {NoPlace}

\* A sheet's entry lies on its page's own one.
Layered ==
    /\ ~stack[1].mark
    /\ \A i \in 2..Len(stack) : stack[i].mark => ~stack[i - 1].mark /\ stack[i - 1].place = stack[i].place

\* What is to be swallowed will come.
ComesBack ==
    /\ suppressed => at > 1 /\ \E i \in 1..Len(travel) : travel[i].own
    /\ \A i \in 1..Len(travel) : travel[i].own => travel[i].delta = -1

\* A sheet is reopened over a traversal only by a user who is faster.
ReopenedByHaste == sheet /\ (suppressed \/ closedByPop) => crossed

\* The three ways a tab is when its user has always waited: at rest, in a traversal
\* or on the way to a page.
Resting ==
    /\ waiting = NoPlace /\ ~suppressed
    /\ IF sheet THEN Here.mark ELSE Here.mark => stray
    /\ due # NoPlace => Here.place = due

Travelling ==
    LET t == travel[1] IN
    /\ Len(travel) = 1 /\ pushing = NoPlace /\ at + t.delta \in 1..Len(stack)
    /\ IF t.own
       THEN /\ ~sheet /\ Here.mark
            /\ IF waiting # NoPlace THEN waiting = due ELSE due # NoPlace => Here.place = due
       ELSE waiting = NoPlace /\ due = NoPlace /\ ~suppressed

Pushing == travel = <<>> /\ ~sheet /\ waiting = NoPlace /\ ~suppressed /\ pushing = due

Patient ==
    ~crossed => \/ ~Busy /\ Resting
                \/ travel # <<>> /\ Travelling
                \/ pushing # NoPlace /\ Pushing

HistoryInv == HistoryTypes /\ Layered /\ ComesBack /\ ReopenedByHaste /\ Patient
\* An entry is added above the current one.
LEMMA EntryAdded ==
    ASSUME HistoryTypes, Layered, NEW e \in HistoryEntry, Above(e),
           e.mark => ~Here.mark /\ Here.place = e.place
    PROVE  /\ stack' \in Seq(HistoryEntry) /\ at' = at + 1 /\ Len(stack') = at + 1
           /\ stack'[at + 1] = e /\ \A i \in 1..at : stack'[i] = stack[i]
           /\ Layered'
<1>. DEFINE below == SubSeq(stack, 1, at)
<1>1. at \in Nat /\ at > 0 /\ at <= Len(stack) /\ Len(stack) \in Nat /\ stack \in Seq(HistoryEntry)
    BY DEF HistoryTypes
<1>2. below \in Seq(HistoryEntry) /\ Len(below) = at /\ \A i \in 1..at : below[i] = stack[i]
    BY <1>1
<1>3. stack' = Append(below, e) /\ at' = at + 1
    BY DEF Above
<1>. HIDE DEF below
<1>4. /\ stack' \in Seq(HistoryEntry) /\ Len(stack') = at + 1
      /\ stack'[at + 1] = e /\ \A i \in 1..at : stack'[i] = stack[i]
    BY <1>1, <1>2, <1>3
<1>5. Layered'
    <2>1. ~stack'[1].mark
        BY <1>1, <1>4 DEF Layered
    <2>2. ASSUME NEW i \in 2..Len(stack'), stack'[i].mark
          PROVE  ~stack'[i - 1].mark /\ stack'[i - 1].place = stack'[i].place
        <3>1. CASE i = at + 1
            <4>1. i - 1 = at /\ i - 1 \in 1..at
                BY <1>1, <3>1
            <4>. QED BY <1>4, <2>2, <3>1, <4>1 DEF Here
        <3>2. CASE i # at + 1
            <4>1. i \in 1..at /\ i - 1 \in 1..at /\ i \in 2..Len(stack)
                BY <1>1, <1>4, <3>2
            <4>. QED BY <1>4, <2>2, <4>1 DEF Layered
        <3>. QED BY <3>1, <3>2
    <2>. QED BY <2>1, <2>2 DEF Layered
<1>. QED BY <1>3, <1>4, <1>5

\* The first page of a tab, and then each act of the user and each event of the browser.
LEMMA HistoryStarts == SheetInit => HistoryInv
<1>1. SUFFICES ASSUME SheetInit PROVE HistoryInv
    OBVIOUS
<1>2. Home \in Places /\ Home # NoPlace
    BY SheetHistoryAssumption DEF Home
<1>3. Len(stack) = 2 /\ stack[1] = [place |-> Home, mark |-> FALSE] /\ stack[2] = stack[1] /\ Len(travel) = 0
    BY <1>1 DEF SheetInit
<1>4. HistoryTypes
    <2>. DEFINE e == [place |-> Home, mark |-> FALSE]
    <2>1. e \in HistoryEntry
        BY <1>2 DEF HistoryEntry
    <2>2. stack = <<e, e>> /\ travel = <<>>
        BY <1>1 DEF SheetInit
    <2>. HIDE DEF e
    <2>3. <<e, e>> \in Seq(HistoryEntry)
        BY <2>1
    <2>4. <<>> \in Seq(Travels)
        OBVIOUS
    <2>5. stack \in Seq(HistoryEntry) /\ at \in 1..Len(stack) /\ travel \in Seq(Travels)
        <3>1. stack \in Seq(HistoryEntry)
            BY <2>2, <2>3
        <3>2. at \in 1..Len(stack)
            BY <1>1, <1>3 DEF SheetInit
        <3>. QED BY <2>2, <2>4, <3>1, <3>2
    <2>. QED BY <1>1, <2>5 DEF SheetInit, HistoryTypes
<1>5. Layered /\ ComesBack
    BY <1>1, <1>3 DEF SheetInit, Layered, ComesBack
<1>. QED BY <1>1, <1>3, <1>4, <1>5 DEF SheetInit, HistoryInv, ReopenedByHaste, Patient, Resting, Busy, Here

\* The user who was faster once is faster for good.
LEMMA HasteLasts ==
    ASSUME HistoryTypes, Hastens
    PROVE  crossed' \in BOOLEAN /\ (crossed => crossed') /\ (Busy => crossed') /\ (crossed' => crossed \/ Busy)
BY DEF HistoryTypes, Hastens, Busy

LEMMA OpenSheetKeeps ==
    ASSUME HistoryInv, OpenSheet
    PROVE  HistoryInv'
<1>. DEFINE e == [place |-> Here.place, mark |-> TRUE]
<1>1. HistoryTypes /\ Layered /\ ComesBack /\ ReopenedByHaste /\ Patient
    BY DEF HistoryInv
<1>2. /\ sheet' = TRUE /\ closedByPop' = FALSE /\ stray' = FALSE /\ Hastens /\ ~sheet
      /\ UNCHANGED <<travel, suppressed, waiting, pushing, due>>
      /\ IF Here.mark THEN UNCHANGED <<stack, at>> ELSE Above(e)
    BY DEF OpenSheet
<1>3. Here \in HistoryEntry
    BY <1>1 DEF HistoryTypes, Here
<1>4. /\ stack' \in Seq(HistoryEntry) /\ at' \in 1..Len(stack') /\ at' >= at
      /\ stack'[at'].mark /\ stack'[at'].place = Here.place /\ Layered'
    <2>1. CASE Here.mark
        BY <1>1, <1>2, <2>1 DEF HistoryTypes, Layered, Here
    <2>2. CASE ~Here.mark
        <3>1. e \in HistoryEntry /\ e.place = Here.place /\ e.mark
            BY <1>3 DEF HistoryEntry
        <3>2. Above(e)
            BY <1>2, <2>2
        <3>. HIDE DEF e
        <3>. QED BY <1>1, <2>2, <3>1, <3>2, EntryAdded DEF HistoryTypes
    <2>. QED BY <2>1, <2>2
<1>5. HistoryTypes'
    BY <1>1, <1>2, <1>4, HasteLasts DEF HistoryTypes
<1>6. ComesBack'
    BY <1>1, <1>2, <1>4 DEF ComesBack, HistoryTypes
<1>7. suppressed => crossed'
    BY <1>1, <1>2, HasteLasts DEF ComesBack, HistoryTypes, Busy
<1>8. ReopenedByHaste'
    BY <1>2, <1>7 DEF ReopenedByHaste
<1>9. Patient'
    <2>1. SUFFICES ASSUME ~crossed' PROVE ~Busy' /\ Resting'
        BY DEF Patient
    <2>2. ~crossed /\ ~Busy
        BY <1>1, <1>2, <2>1, HasteLasts
    <2>3. Resting
        BY <1>1, <2>2 DEF Patient, Busy
    <2>. QED BY <1>2, <1>4, <2>2, <2>3 DEF Busy, Resting, Here
<1>. QED BY <1>4, <1>5, <1>6, <1>8, <1>9 DEF HistoryInv

LEMMA CloseSheetKeeps ==
    ASSUME HistoryInv, NEW p \in Places \cup {NoPlace}, CloseSheet(p)
    PROVE  HistoryInv'
<1>. DEFINE own == [delta |-> -1, own |-> TRUE]
<1>1. HistoryTypes /\ Layered /\ ComesBack /\ ReopenedByHaste /\ Patient
    BY DEF HistoryInv
<1>2. /\ sheet /\ sheet' = FALSE /\ Hastens /\ UNCHANGED <<stack, at, closedByPop, stray>>
      /\ due' = IF p = NoPlace THEN due ELSE p
      /\ travel' = IF TakesBack THEN Append(travel, own) ELSE travel
      /\ suppressed' = (suppressed \/ TakesBack)
      /\ IF p # NoPlace /\ Goes THEN pushing' = p /\ UNCHANGED waiting
         ELSE UNCHANGED pushing /\ waiting' = IF p = NoPlace THEN waiting ELSE p
    BY DEF CloseSheet
<1>3. own \in Travels /\ own.own /\ own.delta = -1
    BY DEF Travels
<1>. HIDE DEF own
<1>4. /\ travel' \in Seq(Travels)
      /\ \A i \in 1..Len(travel) : travel'[i] = travel[i]
      /\ TakesBack => Len(travel') = Len(travel) + 1 /\ travel'[Len(travel) + 1] = own
      /\ ~TakesBack => travel' = travel
    BY <1>1, <1>2, <1>3 DEF HistoryTypes
<1>5. HistoryTypes'
    BY <1>1, <1>2, <1>4, HasteLasts DEF HistoryTypes, TakesBack
<1>6. Layered' /\ ReopenedByHaste'
    BY <1>1, <1>2 DEF Layered, ReopenedByHaste
<1>7. ComesBack'
    <2>1. Len(travel) \in Nat /\ Len(travel) <= Len(travel')
        BY <1>1, <1>4 DEF HistoryTypes
    <2>2. Here.mark => at > 1
        BY <1>1 DEF Here, Layered, HistoryTypes
    <2>3. suppressed' => at' > 1
        BY <1>1, <1>2, <2>2 DEF ComesBack, TakesBack
    <2>4. suppressed' => \E i \in 1..Len(travel') : travel'[i].own
        <3>1. CASE TakesBack
            <4>1. Len(travel) + 1 \in 1..Len(travel')
                BY <1>4, <2>1, <3>1
            <4>. QED BY <1>3, <1>4, <3>1, <4>1
        <3>2. CASE ~TakesBack /\ suppressed
            BY <1>1, <1>4, <3>2 DEF ComesBack
        <3>3. CASE ~TakesBack /\ ~suppressed
            BY <1>2, <3>3
        <3>. QED BY <3>1, <3>2, <3>3
    <2>5. \A i \in 1..Len(travel') : travel'[i].own => travel'[i].delta = -1
        BY <1>1, <1>3, <1>4, <2>1 DEF ComesBack
    <2>. QED BY <2>3, <2>4, <2>5 DEF ComesBack
<1>8. Patient'
    <2>1. SUFFICES ASSUME ~crossed' PROVE travel' # <<>> /\ Travelling'
        BY DEF Patient
    <2>2. ~crossed /\ travel = <<>> /\ pushing = NoPlace
        BY <1>1, <1>2, <2>1, HasteLasts DEF Busy
    <2>3. Resting
        BY <1>1, <2>2 DEF Patient, Busy
    <2>4. Here.mark /\ ~closedByPop /\ TakesBack /\ ~Goes
        BY <1>1, <1>2, <2>2, <2>3 DEF Resting, ReopenedByHaste, TakesBack, Goes
    <2>5. travel' = <<own>>
        BY <1>2, <2>2, <2>4
    <2>6. Len(travel') = 1 /\ travel'[1] = own
        BY <2>5
    <2>7. at' + own.delta \in 1..Len(stack')
        BY <1>1, <1>2, <1>3, <2>4 DEF Here, Layered, HistoryTypes
    <2>8. travel' # <<>>
        BY <2>6
    <2>. QED BY <1>2, <1>3, <2>2, <2>3, <2>4, <2>6, <2>7, <2>8, SheetHistoryAssumption
             DEF Travelling, Resting, Here
<1>. QED BY <1>5, <1>6, <1>7, <1>8 DEF HistoryInv

LEMMA TraverseKeeps ==
    ASSUME HistoryInv, NEW delta \in {-1, 1}, Traverse(delta)
    PROVE  HistoryInv'
<1>. DEFINE t == [delta |-> delta, own |-> FALSE]
<1>1. HistoryTypes /\ Layered /\ ComesBack /\ ReopenedByHaste /\ Patient
    BY DEF HistoryInv
<1>2. /\ Hastens /\ UNCHANGED <<stack, at, sheet, closedByPop, suppressed, waiting, pushing, stray>>
      /\ due' = NoPlace /\ travel' = Append(travel, t) /\ at + delta \in 1..Len(stack)
    BY DEF Traverse
<1>3. t \in Travels /\ t.own = FALSE /\ t.delta = delta
    BY DEF Travels
<1>. HIDE DEF t
<1>4. /\ travel' \in Seq(Travels) /\ Len(travel) \in Nat /\ Len(travel') = Len(travel) + 1
      /\ \A i \in 1..Len(travel) : travel'[i] = travel[i]
      /\ travel'[Len(travel) + 1] = t
    BY <1>1, <1>2, <1>3 DEF HistoryTypes
<1>5. HistoryTypes'
    BY <1>1, <1>2, <1>4, HasteLasts DEF HistoryTypes
<1>6. Layered' /\ ReopenedByHaste'
    BY <1>1, <1>2, HasteLasts DEF Layered, ReopenedByHaste
<1>7. ComesBack'
    BY <1>1, <1>2, <1>3, <1>4 DEF ComesBack
<1>8. Patient'
    <2>1. SUFFICES ASSUME ~crossed' PROVE travel' # <<>> /\ Travelling'
        BY DEF Patient
    <2>2. ~crossed /\ travel = <<>> /\ pushing = NoPlace
        BY <1>1, <1>2, <2>1, HasteLasts DEF Busy
    <2>3. Resting
        BY <1>1, <2>2 DEF Patient, Busy
    <2>4. Len(travel') = 1 /\ travel'[1] = t /\ travel' # <<>>
        BY <1>2, <2>2
    <2>. QED BY <1>2, <1>3, <2>2, <2>3, <2>4 DEF Travelling, Resting
<1>. QED BY <1>5, <1>6, <1>7, <1>8 DEF HistoryInv

LEMMA LandKeeps ==
    ASSUME HistoryInv, Land
    PROVE  HistoryInv'
<1>. DEFINE t == travel[1]
            entry == stack[at + t.delta]
<1>1. HistoryTypes /\ Layered /\ ComesBack /\ ReopenedByHaste /\ Patient
    BY DEF HistoryInv
<1>2. /\ travel # <<>> /\ at + t.delta \in 1..Len(stack) /\ at' = at + t.delta /\ travel' = Tail(travel)
      /\ closedByPop' = (closedByPop \/ sheet)
      /\ sheet' = (sheet /\ suppressed /\ entry.place = Here.place)
      /\ suppressed' = FALSE /\ waiting' = NoPlace
      /\ pushing' = IF waiting = NoPlace THEN pushing ELSE waiting
      /\ stray' = (entry.mark /\ ~sheet' /\ ~t.own)
      /\ UNCHANGED <<stack, due, crossed>>
    BY DEF Land
<1>3. /\ t \in Travels /\ Len(travel) \in Nat /\ Len(travel) > 0
      /\ travel' \in Seq(Travels) /\ Len(travel') = Len(travel) - 1
      /\ \A i \in 1..Len(travel') : travel'[i] = travel[i + 1]
    BY <1>1, <1>2 DEF HistoryTypes
<1>4. entry \in HistoryEntry /\ Here \in HistoryEntry /\ Here' = entry
    BY <1>1, <1>2 DEF HistoryTypes, Here
<1>5. HistoryTypes'
    BY <1>1, <1>2, <1>3, <1>4 DEF HistoryTypes, HistoryEntry, Travels
<1>6. Layered' /\ ReopenedByHaste' /\ ComesBack'
    <2>1. \A i \in 1..Len(travel') : i + 1 \in 1..Len(travel)
        BY <1>3
    <2>. QED BY <1>1, <1>2, <1>3, <2>1 DEF Layered, ReopenedByHaste, ComesBack
<1>7. Patient'
    <2>1. SUFFICES ASSUME ~crossed' PROVE (~Busy /\ Resting)' \/ (pushing # NoPlace /\ Pushing)'
        BY DEF Patient
    <2>2. ~crossed
        BY <1>2, <2>1
    <2>3. Travelling
        BY <1>1, <1>2, <2>2 DEF Patient, Busy, Pushing
    <2>4. travel' = <<>> /\ pushing = NoPlace
        BY <1>3, <2>3 DEF Travelling
    <2>5. ~sheet'
        BY <1>1, <1>2, <2>2 DEF ReopenedByHaste
    <2>6. CASE t.own
        <3>1. at \in 2..Len(stack) /\ at + t.delta = at - 1 /\ Here.mark
            BY <1>1, <1>2, <1>3, <2>3, <2>6 DEF ComesBack, HistoryTypes, Travelling
        <3>2. ~entry.mark /\ entry.place = Here.place
            BY <1>1, <3>1 DEF Layered, Here
        <3>. QED BY <1>2, <1>4, <2>3, <2>4, <2>5, <2>6, <3>2 DEF Travelling, Busy, Resting, Pushing
    <2>7. CASE ~t.own
        BY <1>2, <1>4, <2>3, <2>4, <2>5, <2>7 DEF Travelling, Busy, Resting
    <2>. QED BY <2>6, <2>7
<1>. QED BY <1>5, <1>6, <1>7 DEF HistoryInv

LEMMA LandNowhereKeeps ==
    ASSUME HistoryInv, LandNowhere
    PROVE  HistoryInv'
<1>1. HistoryTypes /\ Layered /\ ComesBack /\ ReopenedByHaste /\ Patient
    BY DEF HistoryInv
<1>2. /\ travel # <<>> /\ at + travel[1].delta \notin 1..Len(stack) /\ travel' = Tail(travel)
      /\ UNCHANGED <<stack, at, sheet, closedByPop, suppressed, waiting, pushing, due, crossed, stray>>
    BY DEF LandNowhere
<1>3. /\ Len(travel) \in Nat /\ Len(travel) > 0
      /\ travel' \in Seq(Travels) /\ Len(travel') = Len(travel) - 1
      /\ \A i \in 1..Len(travel') : travel'[i] = travel[i + 1]
    BY <1>1, <1>2 DEF HistoryTypes
<1>4. HistoryTypes' /\ Layered' /\ ReopenedByHaste'
    BY <1>1, <1>2, <1>3 DEF HistoryTypes, Layered, ReopenedByHaste
<1>5. ComesBack'
    <2>1. \A i \in 1..Len(travel') : travel'[i].own => travel'[i].delta = -1
        <3>1. \A i \in 1..Len(travel') : i + 1 \in 1..Len(travel)
            BY <1>3
        <3>. QED BY <1>1, <1>3, <3>1 DEF ComesBack
    <2>2. ASSUME suppressed PROVE at' > 1 /\ \E i \in 1..Len(travel') : travel'[i].own
        <3>1. at > 1
            BY <1>1, <2>2 DEF ComesBack
        <3>2. PICK i \in 1..Len(travel) : travel[i].own
            BY <1>1, <2>2 DEF ComesBack
        <3>3. i # 1
            BY <1>1, <1>2, <3>1, <3>2 DEF ComesBack, HistoryTypes
        <3>4. i - 1 \in 1..Len(travel') /\ travel'[i - 1] = travel[i]
            BY <1>3, <3>3
        <3>. QED BY <1>2, <3>1, <3>2, <3>4
    <2>. QED BY <1>2, <2>1, <2>2 DEF ComesBack
<1>6. Patient'
    BY <1>1, <1>2 DEF Patient, Busy, Travelling, Pushing
<1>. QED BY <1>4, <1>5, <1>6 DEF HistoryInv

LEMMA FollowLinkKeeps ==
    ASSUME HistoryInv, NEW p \in Places, FollowLink(p)
    PROVE  HistoryInv'
<1>1. HistoryTypes /\ Layered /\ ComesBack /\ ReopenedByHaste /\ Patient
    BY DEF HistoryInv
<1>2. /\ ~sheet /\ ~Busy /\ pushing' = p /\ due' = p
      /\ UNCHANGED <<stack, at, travel, sheet, closedByPop, suppressed, waiting, crossed, stray>>
    BY DEF FollowLink
<1>3. HistoryTypes' /\ Layered' /\ ReopenedByHaste' /\ ComesBack'
    BY <1>1, <1>2 DEF HistoryTypes, Layered, ReopenedByHaste, ComesBack
<1>4. Patient'
    <2>1. CASE ~crossed
        <3>1. Resting
            BY <1>1, <1>2, <2>1 DEF Patient, Busy
        <3>2. pushing' # NoPlace
            BY <1>2, SheetHistoryAssumption
        <3>. QED BY <1>2, <3>1, <3>2 DEF Patient, Pushing, Resting, Busy
    <2>2. CASE crossed
        BY <1>2, <2>2 DEF Patient
    <2>. QED BY <2>1, <2>2
<1>. QED BY <1>3, <1>4 DEF HistoryInv

LEMMA PushedKeeps ==
    ASSUME HistoryInv, Pushed
    PROVE  HistoryInv'
<1>. DEFINE e == [place |-> pushing, mark |-> FALSE]
<1>1. HistoryTypes /\ Layered /\ ComesBack /\ ReopenedByHaste /\ Patient
    BY DEF HistoryInv
<1>2. /\ pushing # NoPlace /\ pushing' = NoPlace /\ Above(e) /\ stray' = FALSE
      /\ sheet' = (sheet /\ pushing = Here.place)
      /\ UNCHANGED <<travel, closedByPop, suppressed, waiting, due, crossed>>
    BY DEF Pushed
<1>3. e \in HistoryEntry /\ ~e.mark /\ e.place = pushing
    BY <1>1, <1>2 DEF HistoryTypes, HistoryEntry
<1>. HIDE DEF e
<1>4. /\ stack' \in Seq(HistoryEntry) /\ at' = at + 1 /\ Len(stack') = at + 1 /\ stack'[at + 1] = e /\ Layered'
    BY <1>1, <1>2, <1>3, EntryAdded
<1>5. HistoryTypes'
    <2>1. at' \in 1..Len(stack')
        BY <1>1, <1>4 DEF HistoryTypes
    <2>2. sheet' \in BOOLEAN
        BY <1>2
    <2>. QED BY <1>1, <1>2, <1>4, <2>1, <2>2 DEF HistoryTypes
<1>6. ReopenedByHaste' /\ ComesBack'
    BY <1>1, <1>2, <1>4 DEF ReopenedByHaste, ComesBack, HistoryTypes
<1>7. Patient'
    <2>1. CASE ~crossed
        <3>1. Pushing
            BY <1>1, <1>2, <2>1 DEF Patient, Busy, Travelling
        <3>2. Here' = e
            BY <1>4 DEF Here
        <3>. QED BY <1>2, <1>3, <3>1, <3>2 DEF Patient, Pushing, Resting, Busy
    <2>2. CASE crossed
        BY <1>2, <2>2 DEF Patient
    <2>. QED BY <2>1, <2>2
<1>. QED BY <1>4, <1>5, <1>6, <1>7 DEF HistoryInv

LEMMA ReloadPageKeeps ==
    ASSUME HistoryInv, ReloadPage
    PROVE  HistoryInv'
<1>1. HistoryTypes /\ Layered /\ ComesBack /\ ReopenedByHaste /\ Patient
    BY DEF HistoryInv
<1>2. /\ ~Busy /\ sheet' = FALSE /\ closedByPop' = FALSE /\ suppressed' = FALSE /\ waiting' = NoPlace
      /\ stray' = Here.mark /\ UNCHANGED <<stack, at, travel, pushing, due, crossed>>
    BY DEF ReloadPage
<1>3. Here.mark \in BOOLEAN
    <2>1. Here \in HistoryEntry
        BY <1>1 DEF HistoryTypes, Here
    <2>. QED BY <2>1 DEF HistoryEntry
<1>4. HistoryTypes' /\ Layered' /\ ReopenedByHaste' /\ ComesBack'
    BY <1>1, <1>2, <1>3 DEF HistoryTypes, Layered, ReopenedByHaste, ComesBack
<1>5. Patient'
    BY <1>1, <1>2 DEF Patient, Busy, Resting, Here
<1>. QED BY <1>4, <1>5 DEF HistoryInv

\* Whatever the user and the browser do to the history, the invariant holds (ui.tsx).
THEOREM HistoryInvariant == SheetHistorySpec => []HistoryInv
<1>1. ASSUME HistoryInv, [SheetHistoryNext \/ HistoryIdle]_historyVars
      PROVE  HistoryInv'
    <2>1. CASE SheetHistoryNext
        BY <1>1, <2>1, OpenSheetKeeps, CloseSheetKeeps, TraverseKeeps, LandKeeps, LandNowhereKeeps,
           FollowLinkKeeps, PushedKeeps, ReloadPageKeeps DEF SheetHistoryNext
    <2>2. CASE UNCHANGED historyVars \/ HistoryIdle
        BY <1>1, <2>2 DEF HistoryIdle, historyVars, HistoryInv, HistoryTypes, Layered, ComesBack,
           ReopenedByHaste, Patient, Busy, Resting, Travelling, Pushing, Here
    <2>. QED BY <1>1, <2>1, <2>2
<1>. QED BY <1>1, HistoryStarts, PTL DEF SheetHistorySpec

\* For any pages and however much the user does: at rest an open sheet has exactly
\* the entry it was opened with and a closed one has none, a link has led where it
\* leads, and no popstate of the user's is swallowed; unless the user was faster
\* than the browser (bottom sheets of ui.tsx).
THEOREM SheetsLeaveNoTrace == SheetHistorySpec => []SheetsKeepHistory
<1>1. ASSUME HistoryInv PROVE SheetsKeepHistory
    <2>1. HistoryTypes /\ Layered /\ ComesBack /\ Patient
        BY <1>1 DEF HistoryInv
    <2>2. suppressed => travel # <<>>
        BY <2>1 DEF ComesBack
    <2>3. waiting # NoPlace => travel # <<>> \/ crossed
        BY <2>1 DEF Patient, Busy, Resting, Pushing
    <2>4. \A i \in 2..Len(stack) : ~(stack[i].mark /\ stack[i - 1].mark)
        BY <2>1 DEF Layered
    <2>5. ASSUME ~Busy, ~crossed
          PROVE  /\ sheet => Here.mark /\ at > 1 /\ stack[at - 1].place = Here.place
                 /\ ~sheet => ~Here.mark \/ stray
                 /\ due # NoPlace => Here.place = due
        <3>1. Resting
            BY <2>1, <2>5 DEF Patient, Busy
        <3>2. Here.mark => at \in 2..Len(stack)
            BY <2>1 DEF Here, Layered, HistoryTypes
        <3>. QED BY <2>1, <3>1, <3>2 DEF Resting, Here, Layered
    <2>. QED BY <2>2, <2>3, <2>4, <2>5 DEF SheetsKeepHistory, NothingLeftWaiting, OneEntryPerSheet
<1>. QED BY <1>1, HistoryInvariant, PTL

-----------------------------------------------------------------------------
(* Screens: a tab between the page, the cache and the API. *)

Fetch == [pc : {"none", "asked", "read"}, home : Scopes \cup {None}, ver : Versions, flaws : SUBSET Flaws]
Answered == [home : Scopes \cup {None}, ver : Versions, flaws : SUBSET Flaws]
Mutating == [pc : {"none", "sent", "done", "answered"}, home : Scopes \cup {None}, touches : BOOLEAN,
             refreshes : BOOLEAN, sets : BOOLEAN, lists : BOOLEAN, left : BOOLEAN, ver : Versions]

ScreenTypes ==
    /\ key \in Keys /\ page \in DOMAIN PageOf /\ listing \in BOOLEAN
    /\ mine \in {{1}, Households} /\ known \in {{1}, Households}
    /\ selected \in known /\ storage \in Households
    /\ cache \in Answered /\ (cache # NoEntry => cache.home \in Scopes)
    /\ flight \in Fetch /\ (flight.pc # "none" => flight.home \in Scopes)
    /\ write \in Mutating /\ (write.pc # "none" => write.home \in Scopes)
    /\ server \in [Scopes -> Nat] /\ copy \in [Scopes -> Versions \cup {None}]
    /\ owed \in [Scopes -> Nat] /\ \A h \in Scopes : owed[h] <= server[h]
    /\ acts \in 0..MaxActs /\ moves \in 0..MaxMoves

\* The server has answered no more writes than were made.
Counted ==
    /\ \A h \in Scopes : server[h] <= acts + moves
    /\ write.pc = "sent" => \A h \in Scopes : server[h] < acts + moves

\* A mutation of the page that is still open refreshes what it changes there.
Renews ==
    write.pc # "none" =>
        /\ write.sets => write.touches
        /\ Mounted /\ write.touches /\ ~write.left /\ key # "notifications" => write.refreshes \/ write.sets

\* What is on its way, and what has arrived, is of the household shown.
OfTheShown ==
    /\ flight.pc # "none" /\ flight.flaws = {} => flight.home = Scope(selected)
    /\ Mounted /\ flight.pc = "none" /\ cache # NoEntry /\ cache.flaws = {} => cache.home = Scope(selected)

\* An answer on its way is not older than the user's last write, an answer that has
\* arrived only until the mutation refreshes or overwrites it.
Renewed ==
    /\ flight.pc = "read" /\ flight.flaws = {} => flight.ver >= owed[flight.home]
    /\ write.pc = "done" /\ write.touches => write.ver >= owed[write.home]
    /\ /\ Mounted /\ flight.pc = "none" /\ cache # NoEntry /\ cache.flaws = {} /\ key # "notifications"
       /\ cache.ver < owed[cache.home]
       => \/ write.pc \in {"done", "answered"} /\ write.refreshes
          \/ write.pc = "done" /\ write.sets /\ write.home = cache.home

ScreenInv == ScreenTypes /\ Counted /\ Renews /\ OfTheShown /\ Renewed

LEMMA KeyStays ==
    ASSUME UNCHANGED key
    PROVE  /\ Scopes' = Scopes /\ Fetch' = Fetch /\ Answered' = Answered /\ Mutating' = Mutating
           /\ UNCHANGED page => (Mounted' <=> Mounted)
BY DEF Scopes, Fetch, Answered, Mutating, Mounted, MountedOn

\* Every household has its answer of the server, and None is no household.
LEMMA ScopesFit ==
    /\ None \notin Scopes /\ \A h \in Households : Scope(h) \in Scopes
    /\ {1} \subseteq Households /\ 1 \in Households
BY DEF Scopes, Scope, Households, Anyone, None

\* The household shown is the selected one.
LEMMA ShownIsSelected == ScreenTypes => Shown = selected /\ selected \in Households
BY DEF ScreenTypes, Shown, Households

\* A request goes out for a household, without a flaw only for the one shown.
LEMMA AskFits ==
    ASSUME NEW g \in Households, NEW h \in Households
    PROVE  /\ Ask(g, h) \in Fetch /\ Ask(g, h).pc = "asked" /\ Ask(g, h).home = Scope(g)
           /\ Ask(g, h).flaws = {} => Scope(g) = Scope(h)
<1>1. 0 \in Versions
    BY ScreensAssumption DEF Versions
<1>2. Scope(g) \in Scopes
    BY ScopesFit
<1>. QED BY <1>1, <1>2 DEF Ask, Fetch, Flaws

\* A flaw that is noted changes nothing else of an answer.
LEMMA FlawAdded ==
    ASSUME NEW r \in Fetch \cup Answered, NEW f \in Flaws
    PROVE  LET q == [r EXCEPT !.flaws = @ \cup {f}] IN
           /\ r \in Fetch => q \in Fetch /\ q.pc = r.pc
           /\ r \in Answered => q \in Answered
           /\ q.home = r.home /\ q.ver = r.ver /\ q.flaws # {}
BY DEF Fetch, Answered

\* The bounds are reached by counting.
LEMMA ActsFit ==
    ASSUME ScreenTypes, Act \/ Move \/ UNCHANGED bounds
    PROVE  /\ acts' \in 0..MaxActs /\ moves' \in 0..MaxMoves
           /\ acts' + moves' \in Nat /\ acts' + moves' >= acts + moves
           /\ Act \/ Move => acts' + moves' = acts + moves + 1
BY ScreensAssumption DEF ScreenTypes, Act, Move, bounds

\* What the server answers lies within the bound.
LEMMA VersionsFit ==
    ASSUME ScreenTypes, Counted
    PROVE  0 \in Versions /\ \A h \in Scopes : server[h] \in Versions /\ server[h] \in Nat
BY ScreensAssumption DEF ScreenTypes, Counted, Versions

\* A step that changes no answer of the server.
LEMMA CountGoesOn ==
    ASSUME ScreenTypes, Counted, UNCHANGED <<key, server>>, Act \/ Move \/ UNCHANGED bounds,
           write'.pc = "sent" => write.pc = "sent" \/ Act
    PROVE  Counted'
<1>. DEFINE b == acts + moves
            c == acts' + moves'
<1>1. b \in Nat
    BY ScreensAssumption DEF ScreenTypes
<1>5. c \in Nat
    BY ActsFit
<1>2. c >= b
    BY ActsFit
<1>3. Act => c = b + 1
    BY ActsFit
<1>. HIDE DEF b, c
<1>4. ASSUME NEW h \in Scopes
      PROVE  server'[h] <= c /\ (write'.pc = "sent" => server'[h] < c)
    <2>1. server[h] \in Nat /\ server'[h] = server[h]
        BY DEF ScreenTypes
    <2>2. server[h] <= b /\ (write.pc = "sent" => server[h] < b)
        BY DEF Counted, b
    <2>. QED BY <1>1, <1>2, <1>3, <1>5, <2>1, <2>2
<1>. QED BY <1>4, KeyStays DEF Counted, c

\* The steps of an answer, from the API or the copy to the cache.
LEMMA ReadKeeps ==
    ASSUME ScreenInv, Read
    PROVE  ScreenInv'
<1>1. ScreenTypes /\ Counted /\ Renews /\ OfTheShown /\ Renewed
    BY DEF ScreenInv
<1>2. /\ flight.pc = "asked" /\ flight' = [flight EXCEPT !.pc = "read", !.ver = server[flight.home]]
      /\ copy' = [copy EXCEPT ![flight.home] = server[flight.home]]
      /\ UNCHANGED <<key, mine, known, selected, storage, page, listing, cache, server, write, owed, acts, moves>>
    BY DEF Read, place, bounds
<1>3. flight \in Fetch /\ flight.home \in Scopes /\ server[flight.home] \in Versions
    BY <1>1, <1>2, VersionsFit DEF ScreenTypes
<1>4. /\ flight' \in Fetch /\ flight'.pc = "read" /\ flight'.home = flight.home
      /\ flight'.flaws = flight.flaws /\ flight'.ver = server[flight.home]
    BY <1>2, <1>3 DEF Fetch
<1>5. copy' \in [Scopes -> Versions \cup {None}]
    BY <1>1, <1>2, <1>3 DEF ScreenTypes
<1>6. ScreenTypes'
    BY <1>1, <1>2, <1>3, <1>4, <1>5, KeyStays DEF ScreenTypes
<1>7. Counted' /\ Renews' /\ OfTheShown'
    BY <1>1, <1>2, <1>4, KeyStays DEF Counted, Renews, OfTheShown, Scope
<1>8. Renewed'
    BY <1>1, <1>2, <1>3, <1>4, KeyStays DEF Renewed, ScreenTypes
<1>. QED BY <1>6, <1>7, <1>8 DEF ScreenInv

LEMMA ReadCopyKeeps ==
    ASSUME ScreenInv, ReadCopy
    PROVE  ScreenInv'
<1>1. ScreenTypes /\ Counted /\ Renews /\ OfTheShown /\ Renewed
    BY DEF ScreenInv
<1>2. /\ flight.pc = "asked" /\ copy[flight.home] # None /\ Move
      /\ flight' = [flight EXCEPT !.pc = "read", !.ver = copy[flight.home], !.flaws = @ \cup {"copy"}]
      /\ UNCHANGED <<key, mine, known, selected, storage, page, listing, cache, server, copy, write, owed>>
    BY DEF ReadCopy, place, data
<1>3. flight \in Fetch /\ flight.home \in Scopes /\ copy[flight.home] \in Versions
    BY <1>1, <1>2 DEF ScreenTypes
<1>4. flight' \in Fetch /\ flight'.pc = "read" /\ flight'.home = flight.home /\ flight'.flaws # {}
    BY <1>2, <1>3 DEF Fetch, Flaws
<1>5. ScreenTypes'
    BY <1>1, <1>2, <1>3, <1>4, KeyStays, ActsFit DEF ScreenTypes
<1>6. Counted'
    BY <1>1, <1>2, CountGoesOn
<1>7. Renews' /\ OfTheShown' /\ Renewed'
    BY <1>1, <1>2, <1>4, KeyStays DEF Renews, OfTheShown, Renewed, Scope
<1>. QED BY <1>5, <1>6, <1>7 DEF ScreenInv

LEMMA ArriveKeeps ==
    ASSUME ScreenInv, Arrive
    PROVE  ScreenInv'
<1>1. ScreenTypes /\ Counted /\ Renews /\ OfTheShown /\ Renewed
    BY DEF ScreenInv
<1>2. /\ flight.pc = "read" /\ flight' = NoFlight
      /\ cache' = [home |-> flight.home, ver |-> flight.ver, flaws |-> flight.flaws]
      /\ UNCHANGED <<key, mine, known, selected, storage, page, listing, server, copy, write, owed, acts, moves>>
    BY DEF Arrive, place, bounds
<1>3. flight \in Fetch /\ flight.home \in Scopes
    BY <1>1, <1>2 DEF ScreenTypes
<1>4. /\ cache' \in Answered /\ cache'.home = flight.home /\ cache'.ver = flight.ver /\ cache'.flaws = flight.flaws
      /\ flight' \in Fetch /\ flight'.pc = "none"
    BY <1>1, <1>2, <1>3, VersionsFit DEF Fetch, Answered, NoFlight
<1>5. ScreenTypes'
    BY <1>1, <1>2, <1>3, <1>4, KeyStays DEF ScreenTypes
<1>6. Counted' /\ Renews' /\ OfTheShown'
    BY <1>1, <1>2, <1>4, KeyStays DEF Counted, Renews, OfTheShown, Scope
<1>7. Renewed'
    <2>1. flight.flaws = {} => ~(flight.ver < owed[flight.home])
        BY <1>1, <1>2, <1>3 DEF Renewed, ScreenTypes, Fetch, Versions
    <2>. QED BY <1>1, <1>2, <1>4, <2>1, KeyStays DEF Renewed
<1>. QED BY <1>5, <1>6, <1>7 DEF ScreenInv

LEMMA FailKeeps ==
    ASSUME ScreenInv, Fail
    PROVE  ScreenInv'
<1>1. ScreenTypes /\ Counted /\ Renews /\ OfTheShown /\ Renewed
    BY DEF ScreenInv
<1>2. /\ flight' = NoFlight /\ (Move \/ UNCHANGED bounds)
      /\ cache' = IF cache = NoEntry THEN cache ELSE [cache EXCEPT !.flaws = @ \cup {"failed"}]
      /\ UNCHANGED <<key, mine, known, selected, storage, page, listing, server, copy, write, owed>>
    BY DEF Fail, place
<1>3. /\ flight' \in Fetch /\ flight'.pc = "none" /\ cache' \in Answered
      /\ cache' # NoEntry => cache # NoEntry /\ cache'.home = cache.home /\ cache'.flaws # {}
    <2>1. "failed" \in Flaws /\ cache \in Answered
        BY <1>1 DEF Flaws, ScreenTypes
    <2>. QED BY <1>1, <1>2, <2>1, VersionsFit, FlawAdded DEF Fetch, NoFlight
<1>4. ScreenTypes'
    BY <1>1, <1>2, <1>3, KeyStays, ActsFit DEF ScreenTypes
<1>5. Counted'
    BY <1>1, <1>2, CountGoesOn
<1>6. Renews' /\ OfTheShown' /\ Renewed'
    BY <1>1, <1>2, <1>3, KeyStays DEF Renews, OfTheShown, Renewed, Scope
<1>. QED BY <1>4, <1>5, <1>6 DEF ScreenInv

LEMMA RefetchKeeps ==
    ASSUME ScreenInv, Refetch
    PROVE  ScreenInv'
<1>1. ScreenTypes /\ Counted /\ Renews /\ OfTheShown /\ Renewed
    BY DEF ScreenInv
<1>2. /\ Move /\ flight' = Asked /\ listing' = (listing \/ key # "notifications")
      /\ UNCHANGED <<key, mine, known, selected, storage, page, cache, server, copy, write, owed>>
    BY DEF Refetch
<1>3. Shown = selected /\ selected \in Households /\ storage \in Households
    BY <1>1, ShownIsSelected DEF ScreenTypes
<1>4. /\ flight' \in Fetch /\ flight'.pc = "asked" /\ flight'.home \in Scopes
      /\ flight'.flaws = {} => flight'.home = Scope(selected)
    BY <1>2, <1>3, AskFits, ScopesFit DEF Asked
<1>5. ScreenTypes'
    <2>1. listing' \in BOOLEAN
        BY <1>1, <1>2 DEF ScreenTypes
    <2>. QED BY <1>1, <1>2, <1>4, <2>1, KeyStays, ActsFit DEF ScreenTypes
<1>6. Counted'
    BY <1>1, <1>2, CountGoesOn
<1>7. Renews' /\ OfTheShown' /\ Renewed'
    BY <1>1, <1>2, <1>4, KeyStays DEF Renews, OfTheShown, Renewed, Scope
<1>. QED BY <1>5, <1>6, <1>7 DEF ScreenInv

\* The state of a mutation changes only in its own steps, but for the page it was sent from.
LEMMA LeftFits ==
    ASSUME ScreenTypes
    PROVE  /\ Left \in Mutating /\ Left.pc = write.pc /\ Left.home = write.home /\ Left.ver = write.ver
           /\ Left.touches = write.touches /\ Left.refreshes = write.refreshes /\ Left.sets = write.sets
           /\ Left.pc # "none" => Left.left = TRUE
<1>1. write \in Mutating
    BY DEF ScreenTypes
<1>. QED BY <1>1 DEF Left, Mutating

\* The page that opens shows the key, or it was around the page before.
LEMMA OpenKeeps ==
    ASSUME ScreenInv, NEW p \in DOMAIN PageOf, NEW g \in Households, Act \/ Move,
           page' = p, write' = Left,
           flight' = IF key \in PageOf[p].shows THEN Joined(Ask(g, Shown)) ELSE flight,
           UNCHANGED <<key, known, selected, listing, cache, server, copy, owed>>,
           mine' \in {{1}, Households}, storage' \in Households
    PROVE  ScreenInv'
<1>1. ScreenTypes /\ Counted /\ Renews /\ OfTheShown /\ Renewed
    BY DEF ScreenInv
<1>2. Shown = selected /\ selected \in Households
    BY <1>1, ShownIsSelected
<1>3. /\ Ask(g, Shown) \in Fetch /\ Ask(g, Shown).pc = "asked" /\ Ask(g, Shown).home \in Scopes
      /\ Ask(g, Shown).flaws = {} => Ask(g, Shown).home = Scope(selected)
    BY <1>2, AskFits, ScopesFit
<1>4. /\ flight' \in Fetch /\ (flight'.pc # "none" => flight'.home \in Scopes)
      /\ flight'.pc = "read" => flight' = flight
      /\ flight'.pc # "none" /\ flight'.flaws = {} => flight'.home = Scope(selected)
      /\ flight'.pc = "none" => flight.pc = "none" /\ key \notin PageOf[p].shows
    BY <1>1, <1>3 DEF Joined, ScreenTypes, OfTheShown
<1>5. Mounted' /\ flight'.pc = "none" => Mounted
    BY <1>4 DEF Mounted, MountedOn
<1>6. ScreenTypes'
    BY <1>1, <1>4, KeyStays, ActsFit, LeftFits DEF ScreenTypes
<1>7. Counted'
    BY <1>1, CountGoesOn, LeftFits
<1>8. Renews'
    BY <1>1, LeftFits DEF Renews
<1>9. OfTheShown' /\ Renewed'
    BY <1>1, <1>4, <1>5, LeftFits DEF OfTheShown, Renewed, Scope
<1>. QED BY <1>6, <1>7, <1>8, <1>9 DEF ScreenInv

\* What a mutation of the page changes of what is around it, it refreshes or
\* overwrites; only the bell waits for its next poll.
Refreshing(its) ==
    \A m \in its.mutations \cup Layout.mutations :
        /\ m.sets \subseteq m.touches
        /\ \A k \in m.touches \cap (its.shows \cup Layout.shows) :
              k # "notifications" => k \in m.refreshes \cup m.sets

\* The layout around every page: its bell and its menu.
LEMMA AroundPages ==
    /\ Layout.shows = {"notifications", "me"}
    /\ Layout.mutations = {[touches |-> {"notifications"}, refreshes |-> {"notifications"}, sets |-> {}]}
BY DEF Layout, Beside, Bell, UserMenu, LocaleProvider, Page, Mutation

\* Every mutation of every page refreshes or overwrites what it changes of that page.
LEMMA PagesRefresh == \A p \in DOMAIN PageOf : Refreshing(PageOf[p])
<1>1. /\ Refreshing(Transactions) /\ Refreshing(Installments) /\ Refreshing(Bills) /\ Refreshing(Recurring)
    BY AroundPages DEF Refreshing, Transactions, ReportPanel, Installments, Bills, Settled, Recurring,
       History, Logs, Feed, OpenRow, Beside, Page, Mutation, Entries
<1>2. /\ Refreshing(ImportPage) /\ Refreshing(AccountsPage) /\ Refreshing(CategoriesPage)
    BY AroundPages DEF Refreshing, ImportPage, AccountsPage, RestrictModal, CategoriesPage,
       History, Logs, Feed, OpenRow, Beside, Page, Mutation, Entries
<1>3. /\ Refreshing(BudgetsPage) /\ Refreshing(GoalsPage) /\ Refreshing(GoalPage)
    BY AroundPages DEF Refreshing, BudgetsPage, GoalsPage, GoalPage, History, Logs, Feed, OpenRow, Beside, Page, Mutation
<1>4. /\ Refreshing(Dashboard) /\ Refreshing(SettingsPage) /\ Refreshing(ProfilePage)
    BY AroundPages DEF Refreshing, Dashboard, Checklist, SettingsPage, OnboardingSettings, BankLink, ProfilePage,
       Answering, Beside, Page, Mutation
<1>5. /\ Refreshing(HouseholdPage) /\ Refreshing(BankPage) /\ Refreshing(AliasPage) /\ Refreshing(Activity)
    BY AroundPages DEF Refreshing, HouseholdPage, BankPage, AliasPage, Activity, Feed, Beside, Page, Mutation, Entries
<1>. QED BY <1>1, <1>2, <1>3, <1>4, <1>5 DEF PageOf

\* The steps of a mutation.
LEMMA SendKeeps ==
    ASSUME ScreenInv, NEW m \in Mutations, Send(m)
    PROVE  ScreenInv'
<1>1. ScreenTypes /\ Counted /\ Renews /\ OfTheShown /\ Renewed
    BY DEF ScreenInv
<1>2. /\ write.pc = "none" /\ Act
      /\ UNCHANGED <<key, mine, known, selected, storage, page, listing, cache, flight, server, copy, owed>>
    BY DEF Send, place, data
<1>3. /\ write' \in Mutating /\ write'.pc = "sent" /\ write'.home \in Scopes
      /\ write'.touches = (key \in m.touches) /\ write'.refreshes = (key \in m.refreshes)
      /\ write'.sets = (key \in m.sets)
    <2>1. 0 \in Versions /\ Scope(storage) \in Scopes
        BY <1>1, VersionsFit, ScopesFit DEF ScreenTypes
    <2>. QED BY <2>1 DEF Send, Mutating
<1>4. ScreenTypes'
    BY <1>1, <1>2, <1>3, KeyStays, ActsFit DEF ScreenTypes
<1>5. Counted'
    BY <1>1, <1>2, CountGoesOn
<1>6. Renews'
    <2>1. Refreshing(PageOf[page]) /\ m \in PageOf[page].mutations \cup Layout.mutations
        BY <1>1, PagesRefresh DEF Mutations, ScreenTypes
    <2>. QED BY <1>2, <1>3, <2>1, KeyStays DEF Renews, Refreshing, Mounted, MountedOn
<1>7. OfTheShown' /\ Renewed'
    BY <1>1, <1>2, <1>3, KeyStays DEF OfTheShown, Renewed, Scope
<1>. QED BY <1>4, <1>5, <1>6, <1>7 DEF ScreenInv

LEMMA CommitKeeps ==
    ASSUME ScreenInv, Commit
    PROVE  ScreenInv'
<1>1. ScreenTypes /\ Counted /\ Renews /\ OfTheShown /\ Renewed
    BY DEF ScreenInv
<1>. DEFINE home == write.home
<1>2. /\ write.pc = "sent" /\ server' = Touched(home)
      /\ owed' = IF write.touches THEN [owed EXCEPT ![home] = server'[home]] ELSE owed
      /\ write' = [write EXCEPT !.pc = "done", !.ver = server'[home]]
      /\ flight' = IF write.touches /\ flight.pc = "read" THEN Overtaken ELSE flight
      /\ cache' = IF cache # NoEntry /\ write.touches /\ write.left /\ ~write.refreshes
                  THEN [cache EXCEPT !.flaws = @ \cup {"left"}] ELSE cache
      /\ UNCHANGED <<key, mine, known, selected, storage, page, listing, copy, acts, moves>>
    BY DEF Commit, place, bounds
<1>3. home \in Scopes /\ write \in Mutating
    BY <1>1, <1>2 DEF ScreenTypes
<1>. HIDE DEF home
<1>4. /\ server' \in [Scopes -> Nat] /\ \A h \in Scopes \ {home} : server'[h] = server[h]
      /\ server'[home] = IF write.touches THEN server[home] + 1 ELSE server[home]
    BY <1>1, <1>2, <1>3 DEF Touched, ScreenTypes
<1>5. server'[home] \in Versions /\ \A h \in Scopes : server'[h] <= acts + moves
    BY <1>1, <1>2, <1>3, <1>4, ScreensAssumption DEF ScreenTypes, Counted, Versions
<1>6. /\ owed' \in [Scopes -> Nat] /\ \A h \in Scopes : owed'[h] <= server'[h]
      /\ \A h \in Scopes \ {home} : owed'[h] = owed[h]
      /\ write.touches => owed'[home] = server'[home]
      /\ ~write.touches => owed' = owed
    BY <1>1, <1>2, <1>3, <1>4 DEF ScreenTypes
<1>7. /\ write' \in Mutating /\ write'.pc = "done" /\ write'.home = home /\ write'.ver = server'[home]
      /\ write'.touches = write.touches /\ write'.refreshes = write.refreshes /\ write'.sets = write.sets
      /\ write'.left = write.left
    BY <1>2, <1>3, <1>5 DEF Mutating, home
<1>8. /\ flight' \in Fetch /\ flight'.pc = flight.pc /\ flight'.home = flight.home /\ flight'.ver = flight.ver
      /\ flight'.flaws = {} => flight' = flight /\ (flight.pc = "read" => ~write.touches)
    <2>1. flight \in Fetch /\ "overtaken" \in Flaws
        BY <1>1 DEF ScreenTypes, Flaws
    <2>. QED BY <1>2, <2>1, FlawAdded DEF Overtaken
<1>9. /\ cache' \in Answered /\ (cache' # NoEntry => cache # NoEntry) /\ cache'.home = cache.home
      /\ cache'.ver = cache.ver
      /\ cache'.flaws = {} => cache' = cache /\ (cache # NoEntry /\ write.touches /\ write.left => write.refreshes)
    <2>1. cache \in Answered /\ "left" \in Flaws
        BY <1>1 DEF ScreenTypes, Flaws
    <2>. QED BY <1>2, <2>1, FlawAdded
<1>10. ScreenTypes'
    BY <1>1, <1>2, <1>3, <1>4, <1>6, <1>7, <1>8, <1>9, KeyStays DEF ScreenTypes
<1>11. Counted'
    BY <1>2, <1>5, <1>7, KeyStays DEF Counted
<1>12. Renews' /\ OfTheShown'
    BY <1>1, <1>2, <1>7, <1>8, <1>9, KeyStays DEF Renews, OfTheShown, Scope
<1>13. Renewed'
    <2>1. ASSUME flight'.pc = "read", flight'.flaws = {} PROVE flight'.ver >= owed'[flight'.home]
        BY <1>1, <1>6, <1>8, <2>1 DEF Renewed
    <2>2. write'.touches => write'.ver >= owed'[write'.home]
        BY <1>3, <1>6, <1>7
    <2>3. ASSUME Mounted', flight'.pc = "none", cache' # NoEntry, cache'.flaws = {}, key' # "notifications",
                 cache'.ver < owed'[cache'.home]
          PROVE  write'.refreshes \/ (write'.sets /\ write'.home = cache'.home)
        <3>1. Mounted /\ cache' = cache /\ cache # NoEntry /\ cache.home \in Scopes /\ key # "notifications"
            BY <1>1, <1>2, <1>9, <2>3, KeyStays DEF ScreenTypes
        <3>2. write.touches /\ cache.home = home
            BY <1>1, <1>2, <1>6, <1>8, <2>3, <3>1 DEF Renewed
        <3>. QED BY <1>1, <1>2, <1>7, <1>9, <2>3, <3>1, <3>2 DEF Renews
    <2>. QED BY <1>7, <2>1, <2>2, <2>3 DEF Renewed
<1>. QED BY <1>10, <1>11, <1>12, <1>13 DEF ScreenInv

LEMMA AnswerKeeps ==
    ASSUME ScreenInv, Answer
    PROVE  ScreenInv'
<1>1. ScreenTypes /\ Counted /\ Renews /\ OfTheShown /\ Renewed
    BY DEF ScreenInv
<1>2. /\ write.pc = "done"
      /\ write' = IF write.refreshes \/ write.lists THEN [write EXCEPT !.pc = "answered"] ELSE NoWrite
      /\ cache' = IF write.sets THEN [home |-> write.home, ver |-> write.ver,
                                      flaws |-> IF write.home = Scope(Shown) THEN {} ELSE {"foreign"}]
                  ELSE cache
      /\ UNCHANGED <<key, mine, known, selected, storage, page, listing, flight, server, copy, owed, acts, moves>>
    BY DEF Answer, place, bounds
<1>3. Shown = selected
    BY <1>1, ShownIsSelected
<1>4. write \in Mutating /\ write.home \in Scopes
    BY <1>1, <1>2 DEF ScreenTypes
<1>5. /\ write' \in Mutating /\ write'.pc \in {"none", "answered"}
      /\ write'.pc = "answered" => write'.home = write.home
      /\ write'.pc = "answered" => write'.touches = write.touches /\ write'.refreshes = write.refreshes
      /\ write'.pc = "answered" => write'.sets = write.sets /\ write'.left = write.left
      /\ write.refreshes => write'.pc = "answered"
    <2>1. NoWrite \in Mutating
        BY <1>1, VersionsFit DEF NoWrite, Mutating
    <2>. QED BY <1>2, <1>4, <2>1 DEF Mutating, NoWrite
<1>6. cache' \in Answered /\ (cache' # NoEntry => cache'.home \in Scopes)
    BY <1>1, <1>2, <1>4 DEF ScreenTypes, Answered, Mutating, Flaws
<1>7. ScreenTypes'
    BY <1>1, <1>2, <1>4, <1>5, <1>6, KeyStays DEF ScreenTypes
<1>8. Counted'
    BY <1>1, <1>2, <1>5, CountGoesOn DEF bounds
<1>9. Renews'
    BY <1>1, <1>2, <1>5, KeyStays DEF Renews
<1>10. OfTheShown'
    BY <1>1, <1>2, <1>3, KeyStays DEF OfTheShown, Scope
<1>11. Renewed'
    <2>1. CASE write.sets
        <3>1. cache'.home = write.home /\ cache'.ver = write.ver /\ write.ver >= owed[write.home]
            BY <1>1, <1>2, <2>1 DEF Renews, Renewed
        <3>2. ~(cache'.ver < owed[cache'.home])
            BY <1>1, <1>4, <3>1 DEF ScreenTypes, Mutating, Versions
        <3>. QED BY <1>1, <1>2, <1>5, <3>2, KeyStays DEF Renewed
    <2>2. CASE ~write.sets
        BY <1>1, <1>2, <1>5, <2>2, KeyStays DEF Renewed
    <2>. QED BY <2>1, <2>2
<1>. QED BY <1>7, <1>8, <1>9, <1>10, <1>11 DEF ScreenInv

\* What an invalidation leaves in flight.
LEMMA ReplacedFits ==
    ASSUME ScreenTypes, NEW fresh, NEW old
    PROVE  /\ Replaced(fresh, old) \in {fresh, old}
           /\ Mounted /\ flight.pc = "none" => Replaced(fresh, old) = fresh
           /\ Replaced(fresh, old) = old => ~Mounted \/ flight.pc # "none" \/ fresh = old
BY DEF Replaced

LEMMA RefreshKeeps ==
    ASSUME ScreenInv, Refresh
    PROVE  ScreenInv'
<1>1. ScreenTypes /\ Counted /\ Renews /\ OfTheShown /\ Renewed
    BY DEF ScreenInv
<1>2. /\ write.pc = "answered" /\ write' = NoWrite
      /\ flight' = IF write.refreshes THEN Replaced(Asked, flight) ELSE flight
      /\ listing' = (listing \/ write.lists)
      /\ UNCHANGED <<key, mine, known, selected, storage, page, cache, server, copy, owed, acts, moves>>
    BY DEF Refresh, bounds
<1>3. /\ Asked \in Fetch /\ Asked.pc = "asked" /\ Asked.home \in Scopes
      /\ Asked.flaws = {} => Asked.home = Scope(selected)
    BY <1>1, ShownIsSelected, AskFits, ScopesFit DEF Asked, ScreenTypes
<1>4. /\ flight' \in {flight, Asked}
      /\ Mounted /\ flight'.pc = "none" => ~write.refreshes
      /\ flight'.pc = "none" => flight.pc = "none"
    BY <1>1, <1>2, <1>3, ReplacedFits
<1>5. NoWrite \in Mutating /\ NoWrite.pc = "none"
    BY <1>1, VersionsFit DEF NoWrite, Mutating
<1>6. ScreenTypes'
    <2>1. listing' \in BOOLEAN
        BY <1>2
    <2>. QED BY <1>1, <1>2, <1>3, <1>4, <1>5, <2>1, KeyStays DEF ScreenTypes
<1>7. Counted'
    BY <1>1, <1>2, <1>5, CountGoesOn DEF bounds
<1>8. Renews' /\ OfTheShown' /\ Renewed'
    BY <1>1, <1>2, <1>3, <1>4, <1>5, KeyStays DEF Renews, OfTheShown, Renewed, Scope
<1>. QED BY <1>6, <1>7, <1>8 DEF ScreenInv

LEMMA WriteFailsKeeps ==
    ASSUME ScreenInv, WriteFails
    PROVE  ScreenInv'
<1>1. ScreenTypes /\ Counted /\ Renews /\ OfTheShown /\ Renewed
    BY DEF ScreenInv
<1>2. /\ Move \/ UNCHANGED bounds
      /\ write' = NoWrite
      /\ cache' = IF cache = NoEntry THEN cache ELSE [cache EXCEPT !.flaws = @ \cup {"failed"}]
      /\ UNCHANGED <<key, mine, known, selected, storage, page, listing, flight, server, copy, owed>>
    BY DEF WriteFails, place
<1>3. /\ cache' \in Answered
      /\ cache' # NoEntry => cache # NoEntry /\ cache'.home = cache.home /\ cache'.flaws # {}
    <2>1. "failed" \in Flaws /\ cache \in Answered
        BY <1>1 DEF Flaws, ScreenTypes
    <2>. QED BY <1>2, <2>1, FlawAdded
<1>4. NoWrite \in Mutating /\ NoWrite.pc = "none"
    BY <1>1, VersionsFit DEF NoWrite, Mutating
<1>5. ScreenTypes'
    BY <1>1, <1>2, <1>3, <1>4, KeyStays, ActsFit DEF ScreenTypes
<1>6. Counted'
    BY <1>1, <1>2, <1>4, CountGoesOn
<1>7. Renews' /\ OfTheShown' /\ Renewed'
    BY <1>1, <1>2, <1>3, <1>4, KeyStays DEF Renews, OfTheShown, Renewed, Scope
<1>. QED BY <1>5, <1>6, <1>7 DEF ScreenInv

\* The steps that change or reload the page, and the writes of others.
LEMMA SwitchKeeps ==
    ASSUME ScreenInv, NEW h \in Households, Switch(h)
    PROVE  ScreenInv'
<1>. DEFINE fresh == Ask(h, h)
            old == IF flight.home \in {None, Scope(h)} THEN flight ELSE Overtaken
<1>1. ScreenTypes /\ Counted /\ Renews /\ OfTheShown /\ Renewed
    BY DEF ScreenInv
<1>2. /\ h \in known /\ Act /\ selected' = h /\ storage' = h /\ flight' = Replaced(fresh, old)
      /\ UNCHANGED <<key, mine, known, page, listing, cache, server, copy, write, owed>>
    BY DEF Switch
<1>3. fresh \in Fetch /\ fresh.pc = "asked" /\ fresh.home = Scope(h) /\ Scope(h) \in Scopes
    BY AskFits, ScopesFit
<1>4. /\ old \in Fetch /\ old.pc = flight.pc /\ old.home = flight.home /\ old.ver = flight.ver
      /\ old.flaws = {} => old = flight /\ flight.home \in {None, Scope(h)}
    <2>1. flight \in Fetch /\ "overtaken" \in Flaws
        BY <1>1 DEF ScreenTypes, Flaws
    <2>. QED BY <2>1, FlawAdded DEF Overtaken
<1>. HIDE DEF fresh, old
<1>5. flight' \in {fresh, old} /\ (Mounted => flight'.pc # "none")
    BY <1>1, <1>2, <1>3, <1>4, ReplacedFits
<1>6. ScreenTypes'
    BY <1>1, <1>2, <1>3, <1>4, <1>5, KeyStays, ActsFit DEF ScreenTypes
<1>7. Counted'
    BY <1>1, <1>2, CountGoesOn
<1>8. Renews' /\ Renewed'
    BY <1>1, <1>2, <1>3, <1>4, <1>5, KeyStays DEF Renews, Renewed
<1>9. OfTheShown'
    <2>1. Scope(selected)' = Scope(h)
        BY <1>2 DEF Scope
    <2>2. flight'.pc # "none" /\ flight'.flaws = {} => flight'.home = Scope(h)
        BY <1>1, <1>3, <1>4, <1>5, ScopesFit DEF ScreenTypes
    <2>. QED BY <1>2, <1>5, <2>1, <2>2, KeyStays DEF OfTheShown
<1>. QED BY <1>6, <1>7, <1>8, <1>9 DEF ScreenInv

\* What happens to the households alone.
LEMMA HouseholdsKeep ==
    ASSUME ScreenInv, UNCHANGED <<key, known, page, listing, cache, flight, server, copy, write, owed, selected>>,
           mine' \in {{1}, Households}, storage' \in Households, Move \/ UNCHANGED bounds
    PROVE  ScreenInv'
<1>1. ScreenTypes /\ Counted /\ Renews /\ OfTheShown /\ Renewed
    BY DEF ScreenInv
<1>2. ScreenTypes'
    BY <1>1, KeyStays, ActsFit DEF ScreenTypes
<1>3. Counted'
    BY <1>1, CountGoesOn
<1>4. Renews' /\ OfTheShown' /\ Renewed'
    BY <1>1, KeyStays DEF Renews, OfTheShown, Renewed, Scope
<1>. QED BY <1>2, <1>3, <1>4 DEF ScreenInv

LEMMA ListArrivesKeeps ==
    ASSUME ScreenInv, ListArrives
    PROVE  ScreenInv'
<1>1. ScreenTypes /\ Counted /\ Renews /\ OfTheShown /\ Renewed
    BY DEF ScreenInv
<1>2. /\ listing' = FALSE /\ known' = mine
      /\ UNCHANGED <<key, mine, page, server, copy, write, owed, acts, moves>>
    BY DEF ListArrives, bounds
<1>3. Counted'
    BY <1>1, <1>2, CountGoesOn DEF bounds
<1>4. CASE mine = known
    <2>1. UNCHANGED <<selected, storage, cache, flight>>
        BY <1>4 DEF ListArrives, data
    <2>2. ScreenTypes'
        BY <1>1, <1>2, <1>4, <2>1, KeyStays DEF ScreenTypes
    <2>3. Renews' /\ OfTheShown' /\ Renewed'
        BY <1>1, <1>2, <2>1, KeyStays DEF Renews, OfTheShown, Renewed, Scope
    <2>. QED BY <1>3, <2>2, <2>3 DEF ScreenInv
<1>5. CASE mine # known
    <2>. DEFINE shown == IF Shown \in mine THEN Shown ELSE 1
                Fell(x) == IF shown = Shown \/ key \in Personal THEN x
                           ELSE [x EXCEPT !.flaws = @ \cup {"fellback"}]
    <2>1. /\ selected' = shown /\ storage' = shown
          /\ cache' = IF cache = NoEntry THEN cache ELSE Fell(cache)
          /\ flight' = IF flight.pc = "none" THEN flight ELSE Fell(flight)
        BY <1>5 DEF ListArrives
    <2>2. Shown = selected /\ shown \in mine /\ shown \in Households
        BY <1>1, ShownIsSelected DEF ScreenTypes, Households
    <2>. HIDE DEF shown
    <2>3. /\ cache \in Answered /\ flight \in Fetch /\ "fellback" \in Flaws
          /\ Fell(cache) \in Answered /\ Fell(cache).home = cache.home /\ Fell(cache).ver = cache.ver
          /\ Fell(cache).flaws = {} => Fell(cache) = cache /\ (shown = selected \/ key \in Personal)
          /\ Fell(flight) \in Fetch /\ Fell(flight).home = flight.home /\ Fell(flight).ver = flight.ver
          /\ Fell(flight).pc = flight.pc
          /\ Fell(flight).flaws = {} => Fell(flight) = flight /\ (shown = selected \/ key \in Personal)
        <3>1. cache \in Answered /\ flight \in Fetch /\ "fellback" \in Flaws
            BY <1>1 DEF ScreenTypes, Flaws
        <3>. QED BY <2>2, <3>1, FlawAdded
    <2>. HIDE DEF Fell
    <2>4. /\ cache' \in Answered /\ (cache' # NoEntry => cache # NoEntry) /\ cache'.home = cache.home
          /\ cache'.ver = cache.ver
          /\ cache' # NoEntry /\ cache'.flaws = {} => cache' = cache /\ (shown = selected \/ key \in Personal)
          /\ flight' \in Fetch /\ flight'.pc = flight.pc /\ flight'.home = flight.home /\ flight'.ver = flight.ver
          /\ flight.pc # "none" /\ flight'.flaws = {} => flight' = flight /\ (shown = selected \/ key \in Personal)
        BY <2>1, <2>3
    <2>5. ScreenTypes'
        BY <1>1, <1>2, <2>1, <2>2, <2>4, KeyStays DEF ScreenTypes
    <2>6. Scope(selected)' = Scope(shown) /\ (shown = selected \/ key \in Personal => Scope(shown) = Scope(selected))
        BY <1>2, <2>1 DEF Scope
    <2>7. Renews' /\ OfTheShown'
        BY <1>1, <1>2, <2>4, <2>6, KeyStays DEF Renews, OfTheShown
    <2>8. Renewed'
        BY <1>1, <1>2, <2>4, KeyStays DEF Renewed
    <2>. QED BY <1>3, <2>5, <2>7, <2>8 DEF ScreenInv
<1>. QED BY <1>4, <1>5

LEMMA ReloadKeeps ==
    ASSUME ScreenInv, Reload
    PROVE  ScreenInv'
<1>. DEFINE shown == IF storage \in mine THEN storage ELSE 1
<1>1. ScreenTypes /\ Counted /\ Renews /\ OfTheShown /\ Renewed
    BY DEF ScreenInv
<1>2. /\ Act /\ known' = mine /\ listing' = FALSE /\ selected' = shown /\ storage' = shown
      /\ flight' = IF Mounted THEN Ask(shown, shown) ELSE NoFlight
      /\ cache' = NoEntry
      /\ UNCHANGED <<key, mine, page, server, copy, write, owed>>
    BY DEF Reload
<1>3. shown \in mine /\ shown \in Households
    BY <1>1 DEF ScreenTypes, Households
<1>. HIDE DEF shown
<1>4. /\ Ask(shown, shown) \in Fetch /\ Ask(shown, shown).pc = "asked"
      /\ Ask(shown, shown).home = Scope(shown) /\ Scope(shown) \in Scopes
      /\ NoFlight \in Fetch /\ NoFlight.pc = "none" /\ NoEntry \in Answered
    BY <1>1, <1>3, AskFits, ScopesFit, VersionsFit DEF NoFlight, NoEntry, Fetch, Answered
<1>5. ScreenTypes'
    BY <1>1, <1>2, <1>3, <1>4, KeyStays, ActsFit DEF ScreenTypes
<1>6. Counted'
    BY <1>1, <1>2, CountGoesOn
<1>7. Renews' /\ Renewed'
    BY <1>1, <1>2, <1>4, KeyStays DEF Renews, Renewed
<1>8. OfTheShown'
    <2>1. Scope(selected)' = Scope(shown)
        BY <1>2 DEF Scope
    <2>. QED BY <1>2, <1>4, <2>1 DEF OfTheShown
<1>. QED BY <1>5, <1>6, <1>7, <1>8 DEF ScreenInv

LEMMA OthersWriteKeeps ==
    ASSUME ScreenInv, OthersWrite
    PROVE  ScreenInv'
<1>1. ScreenTypes /\ Counted /\ Renews /\ OfTheShown /\ Renewed
    BY DEF ScreenInv
<1>2. PICK h \in Scopes : server' = [server EXCEPT ![h] = @ + 1]
    BY DEF OthersWrite
<1>3. /\ Move
      /\ UNCHANGED <<key, mine, known, selected, storage, page, listing, cache, flight, copy, write, owed>>
    BY DEF OthersWrite, place, data
<1>4. /\ server' \in [Scopes -> Nat]
      /\ \A g \in Scopes : server[g] \in Nat /\ server[g] <= server'[g] /\ server'[g] <= server[g] + 1
    BY <1>1, <1>2 DEF ScreenTypes
<1>5. ScreenTypes'
    <2>1. \A g \in Scopes : owed'[g] <= server'[g]
        BY <1>1, <1>3, <1>4 DEF ScreenTypes
    <2>. QED BY <1>1, <1>3, <1>4, <2>1, KeyStays, ActsFit DEF ScreenTypes
<1>6. Counted'
    <2>1. acts' + moves' = acts + moves + 1 /\ acts + moves \in Nat
        BY <1>1, <1>3, ActsFit DEF ScreenTypes
    <2>. QED BY <1>1, <1>3, <1>4, <2>1, KeyStays DEF Counted
<1>7. Renews' /\ OfTheShown' /\ Renewed'
    BY <1>1, <1>3, KeyStays DEF Renews, OfTheShown, Renewed, Scope
<1>. QED BY <1>5, <1>6, <1>7 DEF ScreenInv

LEMMA VisitedFits == "dashboard" \in DOMAIN PageOf /\ PageOf["dashboard"] = Dashboard /\ Visited \subseteq DOMAIN PageOf
<1>1. "dashboard" \in DOMAIN PageOf /\ "household" \in DOMAIN PageOf /\ PageOf["dashboard"] = Dashboard
    BY DEF PageOf
<1>. QED BY <1>1 DEF Visited

LEMMA ScreensStart == ScreensInit => ScreenInv
<1>1. SUFFICES ASSUME ScreensInit PROVE ScreenInv
    OBVIOUS
<1>2. 0 \in Versions /\ 0 \in 0..MaxActs /\ 0 \in 0..MaxMoves
    BY ScreensAssumption DEF Versions
<1>3. /\ NoEntry \in Answered /\ NoFlight \in Fetch /\ NoFlight.pc = "none"
      /\ NoWrite \in Mutating /\ NoWrite.pc = "none"
    BY <1>2 DEF NoEntry, Answered, NoFlight, Fetch, NoWrite, Mutating
<1>4. ScreenTypes
    <2>1. /\ server = [h \in Scopes |-> 0] /\ copy = [h \in Scopes |-> None] /\ owed = [h \in Scopes |-> 0]
          /\ key \in Keys /\ listing = FALSE /\ cache = NoEntry /\ flight = NoFlight /\ write = NoWrite
          /\ acts = 0 /\ moves = 0
        BY <1>1 DEF ScreensInit
    <2>2. /\ mine \in {{1}, Households} /\ known \in {{1}, Households}
          /\ selected \in known /\ storage \in Households
        BY <1>1 DEF ScreensInit, Households
    <2>3. page \in DOMAIN PageOf
        BY <1>1, VisitedFits DEF ScreensInit
    <2>4. /\ server \in [Scopes -> Nat] /\ copy \in [Scopes -> Versions \cup {None}]
          /\ owed \in [Scopes -> Nat] /\ \A h \in Scopes : owed[h] <= server[h]
        BY <2>1
    <2>5. /\ cache \in Answered /\ (cache # NoEntry => cache.home \in Scopes)
          /\ flight \in Fetch /\ (flight.pc # "none" => flight.home \in Scopes)
          /\ write \in Mutating /\ (write.pc # "none" => write.home \in Scopes)
        BY <1>3, <2>1
    <2>. QED BY <1>2, <2>1, <2>2, <2>3, <2>4, <2>5 DEF ScreenTypes
<1>5. Counted /\ Renews /\ OfTheShown /\ Renewed
    BY <1>1, <1>3 DEF ScreensInit, Counted, Renews, OfTheShown, Renewed
<1>. QED BY <1>4, <1>5 DEF ScreenInv

\* Whatever tab, members and API do, the invariant holds (api.ts, household-provider.tsx).
THEOREM ScreenInvariant == ScreensSpec => []ScreenInv
<1>1. ASSUME ScreenInv, [ScreensNext]_screenVars
      PROVE  ScreenInv'
    <2>1. ScreenTypes
        BY <1>1 DEF ScreenInv
    <2>2. CASE Fetches
        BY <1>1, <2>2, ReadKeeps, ReadCopyKeeps, ArriveKeeps, FailKeeps, RefetchKeeps DEF Fetches
    <2>3. CASE Writes
        BY <1>1, <2>3, SendKeeps, CommitKeeps, AnswerKeeps, RefreshKeeps, WriteFailsKeeps DEF Writes
    <2>4. CASE Moving
        <3>1. ASSUME NEW p \in Visited, Open(p) PROVE ScreenInv'
            BY <1>1, <2>1, <3>1, VisitedFits, OpenKeeps DEF Open, Asked, ScreenTypes
        <3>. QED BY <1>1, <2>4, <3>1, SwitchKeeps, ReloadKeeps DEF Moving
    <2>5. CASE Around
        <3>1. CASE Render
            BY <1>1, <2>1, <3>1, ShownIsSelected, HouseholdsKeep DEF Render, data, ScreenTypes
        <3>2. CASE OtherTab
            <4>1. mine \subseteq Households
                BY <2>1 DEF ScreenTypes, Households
            <4>. QED BY <1>1, <2>1, <3>2, <4>1, HouseholdsKeep DEF OtherTab, data, ScreenTypes
        <3>3. CASE Removed
            BY <1>1, <2>1, <3>3, HouseholdsKeep DEF Removed, data, ScreenTypes
        <3>4. CASE AcceptInvite
            <4>1. 2 \in Households
                BY DEF Households
            <4>. QED BY <1>1, <2>1, <3>4, <4>1, VisitedFits, OpenKeeps DEF AcceptInvite
        <3>. QED BY <1>1, <2>5, <3>1, <3>2, <3>3, <3>4, ListArrivesKeeps, OthersWriteKeeps DEF Around
    <2>6. CASE UNCHANGED screenVars \/ TabRests
        <3>1. UNCHANGED <<key, mine, known, selected, storage, page, listing, cache, flight, server, copy, write, owed,
                          acts, moves>>
            BY <2>6 DEF TabRests, screenVars, place, data, bounds
        <3>. QED BY <1>1, <2>1, <3>1, HouseholdsKeep DEF ScreenTypes, bounds
    <2>. QED BY <1>1, <2>2, <2>3, <2>4, <2>5, <2>6 DEF ScreensNext
<1>. QED BY <1>1, ScreensStart, PTL DEF ScreensSpec

\* For every query key of every page: at rest a page shows the household it names,
\* unless another one was stored when it was asked for, a request failed, or the
\* household was switched under the first load (api.ts, household-provider.tsx).
THEOREM PageShowsItsHousehold == ScreensSpec => []PageOfOtherHouseholdExcused
<1>1. ScreenInv => PageOfOtherHouseholdExcused
    BY ShownIsSelected DEF ScreenInv, OfTheShown, PageOfOtherHouseholdExcused, AtRest
<1>. QED BY <1>1, ScreenInvariant, PTL

\* For every query key of every page: at rest a page shows what its user last wrote,
\* unless a request failed, the service worker answered, the write overtook a fetch
\* that nothing replaced, or its page was left (onSuccess of the mutations).
THEOREM PageShowsOwnWrites == ScreensSpec => []OwnWritesShown
<1>1. ASSUME ScreenInv PROVE OwnWritesShown
    <2>1. ScreenTypes /\ Counted /\ Renewed
        BY <1>1 DEF ScreenInv
    <2>2. ScreensTypeOK
        <3>1. server \in [Scopes -> Versions]
            BY <2>1, VersionsFit DEF ScreenTypes
        <3>2. owed \in [Scopes -> Versions]
            <4>1. ASSUME NEW h \in Scopes PROVE owed[h] \in Versions
                BY <2>1, <3>1, ScreensAssumption DEF ScreenTypes, Versions
            <4>. QED BY <2>1, <4>1 DEF ScreenTypes
        <3>3. selected \in Households
            BY <2>1, ShownIsSelected
        <3>. QED BY <2>1, <3>1, <3>2, <3>3 DEF ScreenTypes, ScreensTypeOK, Fetch, Answered
    <2>3. OwnWriteHiddenExcused
        <3>1. SUFFICES ASSUME AtRest, key # "notifications" PROVE cache.ver >= owed[cache.home]
            BY DEF OwnWriteHiddenExcused
        <3>2. ~(cache.ver < owed[cache.home])
            BY <2>1, <3>1 DEF AtRest, Renewed
        <3>3. cache.ver \in Nat /\ owed[cache.home] \in Nat
            BY <2>1, <3>1, ScreensAssumption DEF AtRest, ScreenTypes, Answered, Versions
        <3>. QED BY <3>2, <3>3
    <2>. QED BY <2>2, <2>3 DEF OwnWritesShown
<1>. QED BY <1>1, ScreenInvariant, PTL

-----------------------------------------------------------------------------
(* DayPicker: a month that fingers drag. *)

\* Only a calendar at rest is dragged; before a swipe is told from a scroll its panels
\* are straight, and a slide leads away from the month it left.
DayInv ==
    /\ cursor \in Int /\ reached \in Int /\ px \in Int /\ heading \in Int
    /\ slide \in [from : Int, delta : Int] /\ drag \in [pointer : Pointers \cup {0}, axis : {"none", "x"}]
    /\ drag.axis = "x" => drag.pointer # 0
    /\ drag.pointer # 0 => slide = NoSlide
    /\ slide # NoSlide => slide.from = cursor /\ slide.delta # 0
    /\ drag.axis = "none" /\ slide = NoSlide => px = 0 \/ seized
    /\ heading # 0 => slide # NoSlide
    /\ ~open => slide = NoSlide
    /\ reached = cursor + slide.delta

\* Rest, as the calendar begins.
LEMMA NothingDragged ==
    /\ NoSlide \in [from : Int, delta : Int] /\ NoSlide.delta = 0
    /\ NoDrag \in [pointer : Pointers \cup {0}, axis : {"none", "x"}] /\ NoDrag.pointer = 0 /\ NoDrag.axis = "none"
BY DEF NoSlide, NoDrag

LEMMA AddsUpAtRest ==
    ASSUME cursor' \in Int, reached' = cursor', slide' = NoSlide
    PROVE  reached' = cursor' + slide'.delta
<1>1. \A i \in Int : i + 0 = i
    OBVIOUS
<1>2. cursor' + 0 = cursor'
    BY <1>1
<1>. QED BY <1>2, NothingDragged

\* A calendar that is closed, opened or shown in another shell starts anew.
LEMMA MountedAnew ==
    ASSUME DayInv, slide' = NoSlide, px' = 0, heading' = 0, drag' = NoDrag, cursor' \in Int, reached' = cursor'
    PROVE  DayInv'
<1>1. reached' = cursor' + slide'.delta
    BY AddsUpAtRest
<1>2. /\ slide' \in [from : Int, delta : Int] /\ drag' \in [pointer : Pointers \cup {0}, axis : {"none", "x"}]
      /\ drag'.axis = "none" /\ drag'.pointer = 0
    BY NothingDragged
<1>. QED BY <1>1, <1>2 DEF DayInv

\* An arrow, or a swipe without motion, is counted from where a slide is going.
LEMMA JumpFits ==
    ASSUME DayInv, NEW delta \in {-1, 1}, Jump(delta), reached' = reached + delta
    PROVE  /\ cursor' \in Int /\ reached' = cursor' /\ slide' = NoSlide /\ px' = 0 /\ heading' = 0
<1>1. cursor \in Int /\ slide \in [from : Int, delta : Int] /\ reached = cursor + slide.delta
      /\ (slide # NoSlide => slide.from = cursor)
    BY DEF DayInv
<1>2. Base = cursor + slide.delta
    BY <1>1 DEF Base, NoSlide
<1>. QED BY <1>1, <1>2 DEF Jump, ResetVisual

LEMMA ArrowKeeps ==
    ASSUME DayInv, NEW delta \in {-1, 1}, Arrow(delta)
    PROVE  DayInv'
<1>1. cursor' \in Int /\ reached' = cursor' /\ slide' = NoSlide /\ px' = 0 /\ heading' = 0
    BY JumpFits DEF Arrow
<1>2. drag' = drag
    BY DEF Arrow
<1>3. slide' \in [from : Int, delta : Int] /\ slide'.delta = 0
    BY <1>1, NothingDragged
<1>4. reached' = cursor' + slide'.delta
    BY <1>1, AddsUpAtRest
<1>. QED BY <1>1, <1>2, <1>3, <1>4 DEF DayInv

LEMMA PointerUpKeeps ==
    ASSUME DayInv, NEW p \in Pointers, NEW delta \in -1..1, PointerUp(p, delta)
    PROVE  DayInv'
<1>1. CASE ~(open /\ drag.pointer = p)
    BY <1>1 DEF PointerUp, DayInv
<1>2. CASE open /\ drag.pointer = p
    <2>1. EndDrag(delta) /\ slide = NoSlide /\ reached = cursor /\ drag' = NoDrag
        BY <1>2, DayPickerAssumption DEF PointerUp, EndDrag, DayInv, NoSlide
    <2>2. CASE drag.axis # "x"
        BY <2>1, <2>2 DEF EndDrag, DayInv, NoDrag
    <2>3. CASE drag.axis = "x" /\ delta = 0
        BY <2>1, <2>3 DEF EndDrag, DayInv, NoDrag
    <2>4. CASE drag.axis = "x" /\ delta # 0
        <3>1. CommitSwipe(delta) /\ reached' = reached + delta /\ delta \in {-1, 1}
            BY <2>1, <2>4 DEF EndDrag
        <3>2. CASE reduced
            <4>1. Jump(delta)
                BY <3>1, <3>2 DEF CommitSwipe
            <4>. QED BY <2>1, <3>1, <4>1, JumpFits, MountedAnew
        <3>3. CASE ~reduced
            <4>1. /\ slide' = [from |-> cursor, delta |-> delta] /\ px' = -delta /\ heading' = delta
                  /\ UNCHANGED cursor
                BY <3>1, <3>3 DEF CommitSwipe
            <4>2. cursor \in Int /\ UNCHANGED open /\ open
                BY <1>2 DEF DayInv, PointerUp
            <4>3. slide' \in [from : Int, delta : Int] /\ slide' # NoSlide /\ slide'.delta = delta /\ slide'.from = cursor
                BY <3>1, <4>1, <4>2 DEF NoSlide
            <4>4. reached' = cursor' + slide'.delta /\ reached' \in Int
                BY <2>1, <3>1, <4>1, <4>2, <4>3
            <4>. QED BY <2>1, <3>1, <4>1, <4>2, <4>3, <4>4, NothingDragged DEF DayInv
        <3>. QED BY <3>2, <3>3
    <2>. QED BY <2>2, <2>3, <2>4
<1>. QED BY <1>1, <1>2

LEMMA PointersKeep ==
    ASSUME DayInv, NEW p \in Pointers, PointerDown(p) \/ PointerMove(p) \/ PointerLost(p)
    PROVE  DayInv'
<1>1. CASE PointerDown(p)
    BY <1>1, DayPickerAssumption DEF PointerDown, DayInv
<1>2. CASE PointerMove(p)
    <2>1. /\ drag.pointer = p /\ p # 0 /\ slide = NoSlide
          /\ UNCHANGED <<cursor, slide, heading, reached>>
        BY <1>2, DayPickerAssumption DEF PointerMove, DayInv
    <2>2. CASE drag.axis = "none" /\ drag' = NoDrag /\ UNCHANGED <<px, seized>>
        BY <2>1, <2>2 DEF DayInv, NoDrag
    <2>3. CASE drag' = [drag EXCEPT !.axis = "x"] /\ px' \in {-1, 0, 1, Dragged}
        BY <2>1, <2>3 DEF DayInv, Dragged
    <2>. QED BY <1>2, <2>2, <2>3 DEF PointerMove
<1>3. CASE PointerLost(p)
    BY <1>3 DEF PointerLost, DayInv
<1>. QED BY <1>1, <1>2, <1>3

\* Whatever fingers and arrows do, the invariant holds (useCalendarSwipe).
THEOREM DayInvariant == DayPickerSpec => []DayInv
<1>1. PickerInit => DayInv
    BY DEF PickerInit, DayInv, NoSlide, NoDrag
<1>2. ASSUME DayInv, [DayPickerNext \/ PickerIdle]_pickerVars
      PROVE  DayInv'
    <2>1. CASE Toggle \/ Rotate
        BY <1>2, <2>1, MountedAnew DEF Toggle, Rotate, Unmount, DayInv
    <2>2. CASE FinishPending
        BY <1>2, <2>2 DEF FinishPending, ResetVisual, DayInv, NoSlide
    <2>3. CASE ClicksAgain
        BY <1>2, <2>3 DEF ClicksAgain, DayInv
    <2>4. ASSUME NEW next \in Dates \cup {EmptyField}, PickDay(next) \/ FormSets(next)
          PROVE  DayInv'
        <3>1. next.month \in Int
            BY DayPickerAssumption DEF Dates, Months, EmptyField
        <3>2. CASE PickDay(next)
            BY <1>2, <3>1, <3>2, MountedAnew DEF PickDay, Unmount, DayInv
        <3>3. CASE FormSets(next)
            <4>1. slide' = NoSlide /\ cursor' \in Int /\ reached' = cursor' /\ slide' = slide
                BY <1>2, <3>1, <3>3 DEF FormSets, DayInv
            <4>. QED BY <1>2, <3>3, <4>1, AddsUpAtRest DEF FormSets, DayInv
        <3>. QED BY <2>4, <3>2, <3>3
    <2>5. CASE UNCHANGED pickerVars \/ PickerIdle
        BY <1>2, <2>5 DEF PickerIdle, pickerVars, DayInv
    <2>. QED BY <1>2, <2>1, <2>2, <2>3, <2>4, <2>5, ArrowKeeps, PointerUpKeeps, PointersKeep DEF DayPickerNext
<1>. QED BY <1>1, <1>2, PTL DEF DayPickerSpec

\* For any fingers and however many gestures: swipes, arrows and picks add up to the
\* month shown, and at rest it is straight in its place (useCalendarSwipe).
THEOREM SwipesAddUp == DayPickerSpec => []CalendarFollowsTheHand
<1>1. DayInv => CalendarFollowsTheHand
    BY DEF DayInv, CalendarFollowsTheHand, TurnsAddUp, RestsStraight, NoDrag
<1>. QED BY <1>1, DayInvariant, PTL

-----------------------------------------------------------------------------
(* MonthPicker: a month on two wheels. *)

\* What the constants are.
LEMMA Calendars ==
    /\ MonthsPerYear \in Int /\ MonthsPerYear > 0 /\ MinYear \in Int /\ MaxYear \in Int /\ MinYear <= MaxYear
    /\ Today \in Int /\ Today \in Window /\ NoMonth \notin Window
<1>1. /\ MonthsPerYear \in Int /\ MonthsPerYear > 0 /\ MinYear \in Int /\ MaxYear \in Int /\ MinYear <= MaxYear
      /\ Today \in Window /\ NoMonth \notin AroundWindow
    BY MonthPickerAssumption
<1>2. /\ MinYear * MonthsPerYear \in Int /\ MaxYear * MonthsPerYear \in Int
      /\ (MinYear - 1) * MonthsPerYear \in Int /\ (MinYear - 1) * MonthsPerYear <= MinYear * MonthsPerYear
    BY <1>1, Z3
<1>3. \A m \in Window : m \in Int /\ m \in AroundWindow
    BY <1>1, <1>2 DEF Window, AroundWindow
<1>. QED BY <1>1, <1>3

LEMMA AroundInt == \A m \in AroundWindow : m \in Int
<1>1. /\ (MinYear - 1) * MonthsPerYear \in Int /\ MaxYear * MonthsPerYear + 2 * MonthsPerYear - 1 \in Int
    BY Calendars, Z3
<1>. QED BY <1>1 DEF AroundWindow

\* A month is its year and its place in the year, and nothing else is.
LEMMA MonthOfParts ==
    ASSUME NEW m \in Int
    PROVE  /\ YearOf(m) \in Int /\ (m % MonthsPerYear) \in Int /\ (m % MonthsPerYear) \in 0..(MonthsPerYear - 1)
           /\ m = YearOf(m) * MonthsPerYear + (m % MonthsPerYear)
BY Calendars, Z3 DEF YearOf

\* A year and a place in it make one month.
LEMMA PartsOfMonth ==
    ASSUME NEW y \in Int, NEW i \in 0..(MonthsPerYear - 1)
    PROVE  /\ y * MonthsPerYear + i \in Int
           /\ YearOf(y * MonthsPerYear + i) = y /\ (y * MonthsPerYear + i) % MonthsPerYear = i
BY Calendars, Z3 DEF YearOf

\* The window is made of whole years.
LEMMA WindowOfYears ==
    ASSUME NEW m \in Int
    PROVE  m \in Window <=> YearOf(m) \in MinYear..MaxYear
<1>. DEFINE n == MonthsPerYear
            y == YearOf(m)
<1>1. /\ y \in Int /\ (m % n) \in 0..(n - 1) /\ m = y * n + (m % n)
    BY MonthOfParts
<1>2. n \in Int /\ n > 0 /\ MinYear \in Int /\ MaxYear \in Int
    BY Calendars
<1>3. \A a, b \in Int : /\ a * n \in Int /\ b * n \in Int
                        /\ (a <= b => a * n <= b * n) /\ (a < b => a * n + n <= b * n)
    BY <1>2, Z3
<1>4. /\ MinYear * n \in Int /\ MaxYear * n \in Int /\ y * n \in Int
      /\ (MinYear <= y => MinYear * n <= y * n) /\ (y < MinYear => y * n + n <= MinYear * n)
      /\ (y <= MaxYear => y * n <= MaxYear * n) /\ (MaxYear < y => MaxYear * n + n <= y * n)
    BY <1>1, <1>2, <1>3
<1>. HIDE DEF n, y
<1>5. m \in (MinYear * n)..(MaxYear * n + n - 1) <=> y \in MinYear..MaxYear
    BY <1>1, <1>2, <1>4
<1>. QED BY <1>5 DEF n, y, Window

\* The wheels lag behind the draft only by turns that were not drawn yet, unless two of
\* them came together; a picker that is not on its wheels has its draft drawn.
Scrolled(c) == wheels[c] = Parts(draft)[c] /\ (c \in byHand <=> Parts(draft)[c] # Parts(drawn)[c])

MonthTypes ==
    /\ draft \in Int /\ drawn \in Int /\ field \in Int \cup {NoMonth}
    /\ isOpen \in BOOLEAN /\ wide \in BOOLEAN /\ inside \in BOOLEAN
    /\ wheels \in [Columns -> Int] /\ byHand \subseteq Columns

WheelsFollow ==
    /\ draft # drawn => OnWheels
    /\ OnWheels => (\A c \in Columns : Scrolled(c)) \/ together

\* Nothing leads out of the window: the field was not in it, or it and the draft are.
KeptInside == inside => /\ field \in Window
                        /\ isOpen => draft \in Window /\ drawn \in Window

MonthInv == MonthTypes /\ WheelsFollow /\ KeptInside

\* The two parts of a month are what its wheels show.
LEMMA PartsFit ==
    ASSUME NEW m \in Int
    PROVE  /\ Parts(m) \in [Columns -> Int]
           /\ Parts(m)["month"] = m % MonthsPerYear /\ Parts(m)["year"] = YearOf(m)
           /\ (m % MonthsPerYear) \in 0..(MonthsPerYear - 1) /\ YearOf(m) \in Int
<1>1. (m % MonthsPerYear) \in Int /\ YearOf(m) \in Int /\ (m % MonthsPerYear) \in 0..(MonthsPerYear - 1)
    BY MonthOfParts
<1>. QED BY <1>1 DEF Parts, Columns

\* A turn moves the month of one wheel and leaves that of the other.
LEMMA TurnFits ==
    ASSUME NEW m \in Int, NEW c \in Columns, NEW item \in Int, c = "month" => item \in 0..(MonthsPerYear - 1)
    PROVE  /\ Turned(m, c, item) \in Int
           /\ \A d \in Columns : Parts(Turned(m, c, item))[d] = IF d = c THEN item ELSE Parts(m)[d]
<1>1. YearOf(m) \in Int /\ (m % MonthsPerYear) \in 0..(MonthsPerYear - 1)
    BY MonthOfParts
<1>2. CASE c = "month"
    <2>1. Turned(m, c, item) = YearOf(m) * MonthsPerYear + item /\ item \in 0..(MonthsPerYear - 1)
        BY <1>2 DEF Turned
    <2>2. /\ Turned(m, c, item) \in Int /\ YearOf(Turned(m, c, item)) = YearOf(m)
          /\ Turned(m, c, item) % MonthsPerYear = item
        BY <1>1, <2>1, PartsOfMonth
    <2>. QED BY <1>2, <2>2, PartsFit DEF Columns
<1>3. CASE c = "year"
    <2>1. Turned(m, c, item) = item * MonthsPerYear + (m % MonthsPerYear)
        BY <1>3 DEF Turned
    <2>2. /\ Turned(m, c, item) \in Int /\ YearOf(Turned(m, c, item)) = item
          /\ Turned(m, c, item) % MonthsPerYear = m % MonthsPerYear
        BY <1>1, <2>1, PartsOfMonth
    <2>. QED BY <1>3, <2>2, PartsFit DEF Columns
<1>. QED BY <1>2, <1>3 DEF Columns

\* The wheels offer only years of the window to a draft of it.
LEMMA ItemsFit ==
    ASSUME drawn \in Int, NEW c \in Columns, NEW item \in Items(c)
    PROVE  /\ item \in Int /\ (c = "month" => item \in 0..(MonthsPerYear - 1))
           /\ Turned(drawn, c, item) \in Int
           /\ drawn \in Window => Turned(drawn, c, item) \in Window
<1>1. YearOf(drawn) \in Int
    BY MonthOfParts
<1>2. item \in Int /\ (c = "month" => item \in 0..(MonthsPerYear - 1))
    BY <1>1, Calendars DEF Items, YearItems, Lesser, Greater, Columns
<1>3. ASSUME drawn \in Window
      PROVE  Turned(drawn, c, item) \in Window
    <2>1. YearOf(drawn) \in MinYear..MaxYear
        BY <1>3, WindowOfYears
    <2>2. c = "year" => item \in MinYear..MaxYear
        BY <1>1, <2>1, Calendars DEF Items, YearItems, Lesser, Greater
    <2>3. /\ Turned(drawn, c, item) \in Int
          /\ \A d \in Columns : Parts(Turned(drawn, c, item))[d] = IF d = c THEN item ELSE Parts(drawn)[d]
        BY <1>2, TurnFits
    <2>4. YearOf(Turned(drawn, c, item)) \in MinYear..MaxYear
        BY <2>1, <2>2, <2>3, PartsFit DEF Columns
    <2>. QED BY <2>3, <2>4, WindowOfYears
<1>. QED BY <1>2, <1>3, TurnFits

\* Arrows and keys do not lead out of the window.
LEMMA ShiftStays ==
    ASSUME NEW m \in Int \cup {NoMonth}, NEW delta \in Int, ShiftMonth(m, delta) # m
    PROVE  /\ m \in Int /\ ShiftMonth(m, delta) \in Int
           /\ m \in Window => ShiftMonth(m, delta) \in Window
<1>1. m # NoMonth /\ m \in Int
    BY DEF ShiftMonth
<1>2. Oldest \in Int /\ Newest \in Int
    BY Calendars, Z3 DEF Oldest, Newest
<1>3. Window = Oldest..Newest
    BY DEF Window, Oldest, Newest
<1>4. CASE m \in Window
    BY <1>1, <1>2, <1>3, <1>4 DEF ShiftMonth, Lesser, Greater
<1>5. CASE m \notin Window
    <2>1. ShiftMonth(m, delta) = m + delta
        BY <1>1, <1>5 DEF ShiftMonth
    <2>. QED BY <1>1, <1>5, <2>1
<1>. QED BY <1>4, <1>5

\* The arrows of the year do not lead out of the window either.
LEMMA YearStays ==
    ASSUME NEW m \in Int, NEW delta \in Int, CanShiftYear(YearOf(m), delta)
    PROVE  /\ m + delta * MonthsPerYear \in Int
           /\ m \in Window => m + delta * MonthsPerYear \in Window
<1>1. /\ YearOf(m) \in Int /\ (m % MonthsPerYear) \in 0..(MonthsPerYear - 1)
      /\ m = YearOf(m) * MonthsPerYear + (m % MonthsPerYear)
    BY MonthOfParts
<1>2. delta * MonthsPerYear \in Int
    BY Calendars, Z3
<1>3. ASSUME m \in Window
      PROVE  m + delta * MonthsPerYear \in Window
    <2>1. YearOf(m) \in MinYear..MaxYear
        BY <1>3, WindowOfYears
    <2>2. YearOf(m) + delta \in MinYear..MaxYear
        BY <1>1, <2>1, Calendars DEF CanShiftYear
    <2>3. \A y, i \in Int : (y * MonthsPerYear + i) + delta * MonthsPerYear = (y + delta) * MonthsPerYear + i
        BY Calendars, Z3
    <2>4. (m % MonthsPerYear) \in Int /\ YearOf(m) + delta \in Int
        BY <1>1, Calendars
    <2>5. m + delta * MonthsPerYear = (YearOf(m) + delta) * MonthsPerYear + (m % MonthsPerYear)
        BY <1>1, <2>3, <2>4
    <2>6. YearOf(m + delta * MonthsPerYear) = YearOf(m) + delta
        BY <1>1, <2>4, <2>5, PartsOfMonth
    <2>. QED BY <1>2, <2>2, <2>6, WindowOfYears
<1>. QED BY <1>2, <1>3

\* A new panel shows the draft it is given.
LEMMA MountFits ==
    ASSUME NEW m \in Int, Mounts(m), draft' = m, drawn' = m
    PROVE  wheels' \in [Columns -> Int] /\ byHand' \subseteq Columns /\ WheelsFollow'
<1>1. wheels' = Parts(m) /\ byHand' = {} /\ Parts(m) \in [Columns -> Int]
    BY PartsFit DEF Mounts
<1>2. \A c \in Columns : Scrolled(c)'
    BY <1>1 DEF Scrolled
<1>. QED BY <1>1, <1>2 DEF WheelsFollow

\* When a draft is drawn, a wheel turned by hand is there already and the others are
\* scrolled to it.
LEMMA DrawFits ==
    ASSUME MonthInv, OnWheels, NEW m \in Int, m = draft \/ draft = drawn, Draw(m), draft' = m
    PROVE  wheels' \in [Columns -> Int] /\ byHand' \subseteq Columns /\ drawn' = m /\ WheelsFollow'
<1>. DEFINE moved == {c \in Columns : Parts(m)[c] # Parts(drawn)[c]}
<1>1. /\ drawn' = m /\ byHand' = byHand \ moved
      /\ wheels' = [c \in Columns |-> IF c \in moved \ byHand THEN Parts(m)[c] ELSE wheels[c]]
      /\ together' = (together /\ (byHand' # {} \/ wheels' # Parts(m)))
    BY DEF Draw
<1>2. /\ wheels \in [Columns -> Int] /\ byHand \subseteq Columns /\ Parts(m) \in [Columns -> Int]
      /\ (\A c \in Columns : Scrolled(c)) \/ together
    BY PartsFit DEF MonthInv, MonthTypes, WheelsFollow
<1>3. wheels' \in [Columns -> Int] /\ byHand' \subseteq Columns
    BY <1>1, <1>2
<1>4. CASE \A c \in Columns : Scrolled(c)
    <2>1. \A c \in Columns : wheels[c] = Parts(draft)[c] /\ (c \in byHand <=> Parts(draft)[c] # Parts(drawn)[c])
        BY <1>4 DEF Scrolled
    <2>2. \A c \in Columns : c \in moved <=> Parts(m)[c] # Parts(drawn)[c]
        OBVIOUS
    <2>. HIDE DEF moved
    <2>3. \A c \in Columns : wheels'[c] = Parts(m)[c]
        BY <1>1, <2>1, <2>2
    <2>4. \A c \in Columns : c \notin byHand'
        BY <1>1, <2>1, <2>2
    <2>5. \A c \in Columns : Scrolled(c)'
        BY <1>1, <2>3, <2>4 DEF Scrolled
    <2>. QED BY <1>1, <1>3, <2>5 DEF WheelsFollow
<1>5. CASE together
    <2>1. CASE byHand' # {} \/ wheels' # Parts(m)
        BY <1>1, <1>3, <1>5, <2>1 DEF WheelsFollow
    <2>2. CASE byHand' = {} /\ wheels' = Parts(m)
        <3>1. \A c \in Columns : Scrolled(c)'
            BY <1>1, <2>2 DEF Scrolled
        <3>. QED BY <1>1, <1>3, <3>1 DEF WheelsFollow
    <2>. QED BY <2>1, <2>2
<1>. QED BY <1>2, <1>4, <1>5

\* A scroll turns the draft and leaves its wheel where it is.
LEMMA ScrollFits ==
    ASSUME MonthInv, NEW c \in Columns, NEW item \in Items(c), Scroll(c, item)
    PROVE  MonthInv'
<1>1. /\ OnWheels /\ UNCHANGED <<field, isOpen, wide, drawn, inside>>
      /\ wheels' = [wheels EXCEPT ![c] = item]
      /\ together' = (together \/ draft # drawn)
    BY DEF Scroll
<1>2. /\ draft \in Int /\ drawn \in Int /\ wheels \in [Columns -> Int] /\ byHand \subseteq Columns
    BY DEF MonthInv, MonthTypes
<1>3. /\ item \in Int /\ (c = "month" => item \in 0..(MonthsPerYear - 1))
      /\ Turned(drawn, c, item) \in Int
      /\ drawn \in Window => Turned(drawn, c, item) \in Window
    BY <1>2, ItemsFit
<1>4. draft' \in {draft, Turned(drawn, c, item)} /\ byHand' \in {byHand, byHand \cup {c}}
    BY DEF Scroll
<1>5. MonthTypes'
    BY <1>1, <1>2, <1>3, <1>4 DEF MonthInv, MonthTypes
<1>6. KeptInside'
    BY <1>1, <1>3, <1>4 DEF MonthInv, KeptInside, OnWheels
<1>7. WheelsFollow'
    <2>1. CASE together \/ draft # drawn
        BY <1>1, <2>1 DEF WheelsFollow, OnWheels
    <2>2. CASE ~together /\ draft = drawn
        <3>1. \A d \in Columns : wheels[d] = Parts(drawn)[d] /\ d \notin byHand
            BY <1>1, <2>2 DEF MonthInv, WheelsFollow, Scrolled
        <3>2. item # Parts(drawn)[c]
            BY <3>1 DEF Scroll
        <3>3. byHand' = byHand \cup {c} /\ draft' = Turned(drawn, c, item)
            BY <3>2 DEF Scroll
        <3>4. \A d \in Columns : Parts(Turned(drawn, c, item))[d] = IF d = c THEN item ELSE Parts(drawn)[d]
            BY <1>2, <1>3, TurnFits
        <3>5. \A d \in Columns : wheels'[d] = IF d = c THEN item ELSE wheels[d]
            BY <1>1, <1>2
        <3>6. \A d \in Columns : Parts(draft')[d] = Parts(Turned(drawn, c, item))[d]
            BY <3>3
        <3>7. \A d \in Columns : Scrolled(d)'
            BY <1>1, <3>1, <3>2, <3>3, <3>4, <3>5, <3>6 DEF Scrolled
        <3>. QED BY <1>1, <3>7 DEF WheelsFollow, OnWheels
    <2>. QED BY <2>1, <2>2
<1>. QED BY <1>5, <1>6, <1>7 DEF MonthInv

\* A month that does not lead out of the window is written.
LEMMA WriteFits ==
    ASSUME inside \in BOOLEAN, NEW m \in Int, inside => m \in Window, WritesMonth(m)
    PROVE  /\ field' = m /\ field' \in Int \cup {NoMonth} /\ inside' \in BOOLEAN
           /\ inside' => field' \in Window
<1>1. CASE m \in Window
    BY <1>1 DEF WritesMonth
<1>2. CASE m \notin Window
    BY <1>2 DEF WritesMonth
<1>. QED BY <1>1, <1>2

\* The steps that leave the wheels and their drafts to the next opening, or are taken
\* with the draft drawn and no wheels on show.
LEMMA DrawnFits ==
    ASSUME MonthInv, UNCHANGED wheelVars, draft' = drawn', ~OnWheels'
    PROVE  wheels' \in [Columns -> Int] /\ byHand' \subseteq Columns /\ WheelsFollow'
BY DEF MonthInv, MonthTypes, WheelsFollow, wheelVars

\* The steps, one by one.
LEMMA StepTriggerKeeps ==
    ASSUME MonthInv, NEW delta \in {-1, 1}, StepTrigger(delta)
    PROVE  MonthInv'
<1>. DEFINE next == ShiftMonth(field, delta)
<1>1. /\ isOpen => wide
      /\ next # field /\ WritesMonth(next)
      /\ isOpen => draft' = next /\ drawn' = next
      /\ ~isOpen => UNCHANGED <<draft, drawn>>
      /\ UNCHANGED <<isOpen, wide>> /\ UNCHANGED wheelVars
    BY DEF StepTrigger
<1>2. MonthTypes
    BY DEF MonthInv
<1>3. next \in Int /\ (field \in Window => next \in Window)
    BY <1>1, <1>2, ShiftStays DEF MonthTypes
<1>4. inside => next \in Window
    BY <1>3 DEF MonthInv, KeptInside
<1>. HIDE DEF next
<1>5. /\ field' = next /\ field' \in Int \cup {NoMonth} /\ inside' \in BOOLEAN
      /\ inside' => field' \in Window
    BY <1>1, <1>2, <1>3, <1>4, WriteFits DEF MonthTypes
<1>6. draft' = drawn' /\ draft' \in Int
    BY <1>1, <1>2, <1>3 DEF MonthInv, MonthTypes, WheelsFollow, OnWheels
<1>7. ~OnWheels'
    BY <1>1 DEF OnWheels
<1>8. wheels' \in [Columns -> Int] /\ byHand' \subseteq Columns /\ WheelsFollow'
    BY <1>1, <1>6, <1>7, DrawnFits
<1>9. MonthTypes'
    BY <1>1, <1>2, <1>5, <1>6, <1>8 DEF MonthTypes
<1>10. KeptInside'
    BY <1>1, <1>2, <1>5 DEF KeptInside, MonthTypes
<1>. QED BY <1>8, <1>9, <1>10 DEF MonthInv

\* The grid: the draft moves within the window, or is written and the panel closes.
LEMMA GridKeeps ==
    ASSUME MonthInv, NEW m \in Int, OnGrid, Drafts(m), inside => m \in Window,
           UNCHANGED <<field, isOpen, wide, inside>>, UNCHANGED wheelVars
    PROVE  MonthInv'
<1>1. draft' = m /\ drawn' = m /\ ~OnWheels'
    BY DEF Drafts, OnGrid, OnWheels
<1>2. wheels' \in [Columns -> Int] /\ byHand' \subseteq Columns /\ WheelsFollow'
    BY <1>1, DrawnFits
<1>3. MonthTypes' /\ KeptInside'
    BY <1>1, <1>2 DEF MonthInv, MonthTypes, KeptInside
<1>. QED BY <1>2, <1>3 DEF MonthInv

LEMMA WriteAndCloseKeeps ==
    ASSUME MonthInv, NEW m \in Int, isOpen, draft = drawn, inside => m \in Window,
           WritesMonth(m), isOpen' = FALSE,
           UNCHANGED <<wide, draft, drawn>>, UNCHANGED wheelVars
    PROVE  MonthInv'
<1>1. MonthTypes
    BY DEF MonthInv
<1>2. /\ field' \in Int \cup {NoMonth} /\ inside' \in BOOLEAN
      /\ inside' => field' \in Window
    BY <1>1, WriteFits DEF MonthTypes
<1>3. draft' = drawn' /\ ~OnWheels'
    BY DEF OnWheels
<1>4. wheels' \in [Columns -> Int] /\ byHand' \subseteq Columns /\ WheelsFollow'
    BY <1>3, DrawnFits
<1>5. MonthTypes' /\ KeptInside'
    BY <1>1, <1>2, <1>4 DEF MonthTypes, KeptInside
<1>. QED BY <1>4, <1>5 DEF MonthInv

\* An opening, or the other panel when the window becomes wider or narrower.
LEMMA MountKeeps ==
    ASSUME MonthInv, OpenPicker \/ Resize
    PROVE  MonthInv'
<1>1. MonthTypes /\ KeptInside
    BY DEF MonthInv
<1>2. CASE OpenPicker
    <2>1. /\ isOpen' = TRUE /\ draft' = Fresh(field) /\ drawn' = draft' /\ Mounts(Fresh(field))
          /\ UNCHANGED <<field, wide, inside>>
        BY <1>2 DEF OpenPicker
    <2>2. Fresh(field) \in Int /\ (inside => Fresh(field) \in Window)
        BY <1>1, Calendars DEF Fresh, MonthTypes, KeptInside
    <2>3. wheels' \in [Columns -> Int] /\ byHand' \subseteq Columns /\ WheelsFollow'
        BY <2>1, <2>2, MountFits
    <2>4. MonthTypes' /\ KeptInside'
        BY <1>1, <2>1, <2>2, <2>3 DEF MonthTypes, KeptInside
    <2>. QED BY <2>3, <2>4 DEF MonthInv
<1>3. CASE Resize
    <2>1. /\ wide' = ~wide /\ draft = drawn /\ Mounts(draft)
          /\ UNCHANGED <<field, isOpen, draft, drawn, inside>>
        BY <1>3 DEF Resize
    <2>2. draft \in Int /\ draft' = draft /\ drawn' = draft
        BY <1>1, <2>1 DEF MonthTypes
    <2>3. wheels' \in [Columns -> Int] /\ byHand' \subseteq Columns /\ WheelsFollow'
        BY <2>1, <2>2, MountFits
    <2>4. MonthTypes' /\ KeptInside'
        BY <1>1, <2>1, <2>2, <2>3 DEF MonthTypes, KeptInside
    <2>. QED BY <2>3, <2>4 DEF MonthInv
<1>. QED BY <1>2, <1>3

\* The steps that draw the wheels' draft.
LEMMA DrawKeeps ==
    ASSUME MonthInv, NEW m \in Int, OnWheels, m = draft \/ draft = drawn, Draw(m), draft' = m,
           inside => m \in Window, UNCHANGED <<field, isOpen, wide, inside>>
    PROVE  MonthInv'
<1>1. wheels' \in [Columns -> Int] /\ byHand' \subseteq Columns /\ drawn' = m /\ WheelsFollow'
    BY DrawFits
<1>2. MonthTypes' /\ KeptInside'
    BY <1>1 DEF MonthInv, MonthTypes, KeptInside
<1>. QED BY <1>1, <1>2 DEF MonthInv

LEMMA ChooseKeeps ==
    ASSUME MonthInv, NEW m \in AroundWindow, Choose(m)
    PROVE  MonthInv'
<1>1. /\ OnWheels /\ draft = drawn /\ draft' = m /\ Draw(m)
      /\ m = Today \/ \E c \in Columns : \E item \in Items(c) : m = Turned(drawn, c, item)
      /\ UNCHANGED <<field, isOpen, wide, inside>>
    BY DEF Choose
<1>2. drawn \in Int /\ (inside => drawn \in Window)
    BY <1>1 DEF MonthInv, MonthTypes, KeptInside, OnWheels
<1>3. m \in Int /\ (inside => m \in Window)
    <2>1. CASE m = Today
        BY <2>1, Calendars
    <2>2. ASSUME NEW c \in Columns, NEW item \in Items(c), m = Turned(drawn, c, item)
          PROVE  m \in Int /\ (inside => m \in Window)
        BY <1>2, <2>2, ItemsFit
    <2>. QED BY <1>1, <2>1, <2>2
<1>. QED BY <1>1, <1>3, DrawKeeps

LEMMA PickMonthKeeps ==
    ASSUME MonthInv, NEW m \in AroundWindow, PickMonth(m)
    PROVE  MonthInv'
<1>1. /\ OnGrid /\ (YearOf(m) = YearOf(draft) \/ m = Today)
      /\ WritesMonth(m) /\ isOpen' = FALSE
      /\ UNCHANGED <<wide, draft, drawn>> /\ UNCHANGED wheelVars
    BY DEF PickMonth
<1>2. /\ draft \in Int /\ isOpen /\ draft = drawn /\ (inside => draft \in Window)
    BY <1>1 DEF MonthInv, MonthTypes, KeptInside, WheelsFollow, OnGrid, OnWheels
<1>3. m \in Int
    BY AroundInt
<1>4. inside => m \in Window
    BY <1>1, <1>2, <1>3, WindowOfYears, Calendars
<1>. QED BY <1>1, <1>2, <1>3, <1>4, WriteAndCloseKeeps

LEMMA GridMovesKeep ==
    ASSUME MonthInv, NEW delta \in Int, MoveCursor(delta) \/ MoveYear(delta)
    PROVE  MonthInv'
<1>1. OnGrid /\ draft \in Int /\ (inside => draft \in Window)
    BY DEF MoveCursor, MoveYear, MonthInv, MonthTypes, KeptInside, OnGrid
<1>2. CASE MoveCursor(delta)
    <2>. DEFINE m == ShiftMonth(draft, delta)
    <2>1. /\ m # draft /\ Drafts(m)
          /\ UNCHANGED <<field, isOpen, wide, inside>> /\ UNCHANGED wheelVars
        BY <1>2 DEF MoveCursor
    <2>2. m \in Int /\ (draft \in Window => m \in Window)
        BY <1>1, <2>1, ShiftStays
    <2>. HIDE DEF m
    <2>. QED BY <1>1, <2>1, <2>2, GridKeeps
<1>3. CASE MoveYear(delta)
    <2>. DEFINE m == draft + delta * MonthsPerYear
    <2>1. /\ CanShiftYear(YearOf(draft), delta) /\ Drafts(m)
          /\ UNCHANGED <<field, isOpen, wide, inside>> /\ UNCHANGED wheelVars
        BY <1>3 DEF MoveYear
    <2>2. m \in Int /\ (draft \in Window => m \in Window)
        BY <1>1, <2>1, YearStays
    <2>. HIDE DEF m
    <2>. QED BY <1>1, <2>1, <2>2, GridKeeps
<1>. QED BY <1>2, <1>3

\* Whatever arrows, keys and wheels do, the invariant holds (MonthInput).
THEOREM MonthInvariant == MonthPickerSpec => []MonthInv
<1>1. ASSUME MonthInit
      PROVE  MonthInv
    <2>1. /\ field \in AroundWindow \cup {NoMonth} /\ inside = (field \in Window)
          /\ isOpen = FALSE /\ wide \in BOOLEAN
          /\ draft = Fresh(field) /\ drawn = draft /\ wheels = Parts(draft) /\ byHand = {}
        BY <1>1 DEF MonthInit
    <2>2. field \in Int \cup {NoMonth} /\ draft \in Int
        BY <2>1, AroundInt, Calendars DEF Fresh
    <2>3. inside \in BOOLEAN
        <3>1. (field \in Window) \in BOOLEAN
            OBVIOUS
        <3>2. inside = (field \in Window)
            BY <2>1
        <3>. QED BY <3>1, <3>2
    <2>4. wheels \in [Columns -> Int] /\ byHand \subseteq Columns /\ isOpen \in BOOLEAN
        BY <2>1, <2>2, PartsFit
    <2>5. MonthTypes
        BY <2>1, <2>2, <2>3, <2>4 DEF MonthTypes
    <2>. QED BY <2>1, <2>5 DEF MonthInv, WheelsFollow, KeptInside, OnWheels
<1>2. ASSUME MonthInv, [MonthPickerNext]_monthVars
      PROVE  MonthInv'
    <2>1. ASSUME NEW delta \in {-1, 1}, StepTrigger(delta)
          PROVE  MonthInv'
        BY <1>2, <2>1, StepTriggerKeeps
    <2>10. ASSUME NEW delta \in {-1, 1}, MoveYear(delta)
          PROVE  MonthInv'
        <3>1. delta \in Int
            OBVIOUS
        <3>. QED BY <1>2, <2>10, <3>1, GridMovesKeep
    <2>2. ASSUME NEW delta \in {-3, -1, 1, 3}, MoveCursor(delta)
          PROVE  MonthInv'
        <3>1. delta \in Int
            OBVIOUS
        <3>. QED BY <1>2, <2>2, <3>1, GridMovesKeep
    <2>3. CASE OpenPicker \/ Resize
        BY <1>2, <2>3, MountKeeps
    <2>4. CASE ClosePicker
        BY <1>2, <2>4 DEF ClosePicker, wheelVars, MonthInv, MonthTypes, WheelsFollow, KeptInside, OnWheels
    <2>5. CASE RenderPicker
        <3>1. /\ draft # drawn /\ Draw(draft) /\ UNCHANGED <<field, isOpen, wide, draft, inside>>
            BY <2>5 DEF RenderPicker
        <3>2. OnWheels /\ draft \in Int /\ (inside => draft \in Window)
            BY <1>2, <3>1 DEF MonthInv, MonthTypes, WheelsFollow, KeptInside, OnWheels
        <3>. QED BY <1>2, <3>1, <3>2, DrawKeeps
    <2>6. CASE Confirm
        <3>1. /\ OnWheels /\ draft = drawn /\ WritesMonth(drawn) /\ isOpen' = FALSE
              /\ UNCHANGED <<wide, draft, drawn>> /\ UNCHANGED wheelVars
            BY <2>6 DEF Confirm
        <3>2. isOpen /\ drawn \in Int /\ (inside => drawn \in Window)
            BY <1>2, <3>1 DEF MonthInv, MonthTypes, KeptInside, OnWheels
        <3>. QED BY <1>2, <3>1, <3>2, WriteAndCloseKeeps
    <2>7. ASSUME NEW m \in AroundWindow, PickMonth(m) \/ Choose(m)
          PROVE  MonthInv'
        BY <1>2, <2>7, PickMonthKeeps, ChooseKeeps
    <2>8. ASSUME NEW c \in Columns, NEW item \in Items(c), Scroll(c, item)
          PROVE  MonthInv'
        BY <1>2, <2>8, ScrollFits
    <2>9. CASE UNCHANGED monthVars
        BY <1>2, <2>9 DEF monthVars, MonthInv, MonthTypes, WheelsFollow, KeptInside, OnWheels, Scrolled
    <2>. QED BY <1>2, <2>1, <2>2, <2>3, <2>4, <2>5, <2>6, <2>7, <2>8, <2>9, <2>10 DEF MonthPickerNext
<1>. QED BY <1>1, <1>2, PTL DEF MonthPickerSpec

\* For any calendar and any window of years: at rest the wheels show the month that
\* "Confirmar" writes, unless two turns came together, and a field that has held a month
\* of the window is not led out of it (MonthInput, WheelColumn).
THEOREM MonthsAreTrue == MonthPickerSpec => []MonthsStayTrue
<1>1. ASSUME MonthInv
      PROVE  MonthsStayTrue
    <2>1. StaysInTheWindow
        BY <1>1 DEF StaysInTheWindow, MonthInv, KeptInside
    <2>2. ASSUME OnWheels, draft = drawn, ~together
          PROVE  wheels = Parts(draft) /\ byHand = {}
        <3>1. \A c \in Columns : wheels[c] = Parts(draft)[c] /\ c \notin byHand
            BY <1>1, <2>2 DEF MonthInv, WheelsFollow, Scrolled
        <3>2. /\ wheels \in [Columns -> Int] /\ byHand \subseteq Columns
              /\ Parts(draft) \in [Columns -> Int]
            BY <1>1, PartsFit DEF MonthInv, MonthTypes
        <3>3. wheels = Parts(draft)
            BY <3>1, <3>2
        <3>4. byHand = {}
            BY <3>1, <3>2
        <3>. QED BY <3>3, <3>4
    <2>. QED BY <2>1, <2>2 DEF MonthsStayTrue, WheelsShowTheDraft
<1>. QED BY <1>1, MonthInvariant, PTL

\* Both pickers at once: what the fingers, wheels and arrows lead to is what is shown and
\* written (date-fields.tsx).
THEOREM PickersFollow == PickersSpec => []PickersFollowTheHand
<1>1. CalendarFollowsTheHand /\ MonthsStayTrue => PickersFollowTheHand
    BY DEF PickersFollowTheHand
<1>. QED BY <1>1, SwipesAddUp, MonthsAreTrue, PTL DEF PickersSpec
=============================================================================
