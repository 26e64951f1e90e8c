---------------------------- MODULE PlanningProofs ----------------------------
(***************************************************************************)
(* What the parts of Planning promise, for any household, whatever is asked *)
(* of it and however the requests overlap: the audit trail, the reports,    *)
(* the notifications, the budgets, the category tree and the savings goals. *)
(* The parts write different variables, so each has an invariant of its own.*)
(***************************************************************************)
EXTENDS Planning, FiniteSetTheorems, WellFoundedInduction, TLAPS

-----------------------------------------------------------------------------
(* The audit trail: the inductive invariant *)

\* A writer at work has all its fields, and only an open transaction has a view.
Todos == Seq(Writes)
WriterFields == {"pc", "tx", "open", "todo", "view", "before", "made", "off", "logged"}

AtWork(r) ==
    /\ DOMAIN r = WriterFields
    /\ r.pc \in {"begin", "load", "write", "entry", "commit"} /\ r.off \in BOOLEAN
    /\ r.tx \in BOOLEAN /\ r.open \in BOOLEAN /\ (r.open => r.tx) /\ (r.pc = "begin" => r.tx)
    /\ r.todo \in Todos /\ (r.pc # "commit" => r.todo # << >>)
    /\ DOMAIN r.view = Records
    /\ ~r.open => \A x \in Records : r.view[x] = NotWritten

WriterFits(r) == r = NoWriter \/ AtWork(r)

WritersFit == writer = [w \in Writers |-> writer[w]] /\ \A w \in Writers : WriterFits(writer[w])

AuditTypes ==
    /\ stored = [x \in Records |-> stored[x]] /\ told = [x \in Records |-> told[x]]
    /\ spoiled = [x \in Records |-> spoiled[x]] /\ clock \in Nat /\ torn \subseteq Records

\* w's transaction has written x; w is to insert an entry of x; its write is committed.
Carries(w, x) == Busy(w) /\ writer[w].view[x] # NotWritten
Tells(w, x) == Pc(w) = "entry" /\ Op(w).on = x
Waits(w, x) == Tells(w, x) /\ ~writer[w].tx

\* Rows are locked: one transaction at a time has written a row.
OneCarrier == \A x \in Records : \A v, w \in Writers : Carries(v, x) /\ Carries(w, x) => v = w

\* A row that was loaded and not overtaken is as it was loaded.
LoadsCurrent ==
    \A w \in Writers, x \in Records :
        (Pc(w) = "write" /\ Op(w).on = x /\ ~writer[w].off) => writer[w].before = stored[x]

\* What holds of a record whose entries were not spoiled. An entry that is still to
\* come describes the stored version; what an open transaction wrote is in its last
\* entry, or will be; otherwise the last entry describes the stored version.
WaitsForStored(x) ==
    \A w \in Writers : Waits(w, x) =>
        writer[w].made = stored[x] /\ \A v \in Writers : ~Carries(v, x) /\ (Waits(v, x) => v = w)
CarriedIsTold(x) ==
    \A w \in Writers : Carries(w, x) =>
        /\ Tells(w, x) => writer[w].made = writer[w].view[x]
        /\ ~Tells(w, x) => x \in writer[w].logged /\ told[x] = writer[w].view[x]
        /\ x \notin writer[w].logged => told[x] = stored[x]
LoggedIsCarried(x) ==
    \A w \in Writers : (Busy(w) /\ writer[w].tx /\ (x \in writer[w].logged \/ (Tells(w, x) /\ writer[w].open))) =>
        Carries(w, x)
RestIsTold(x) == (\A w \in Writers : ~Waits(w, x) /\ ~Carries(w, x)) => told[x] = stored[x]
EntryChains(x) ==
    \A w \in Writers : (Tells(w, x) /\ Loads(Op(w).op) /\ ~writer[w].off /\ (writer[w].tx => writer[w].open)) =>
        writer[w].before = told[x]

RecordSound(x) ==
    /\ x \notin torn
    /\ WaitsForStored(x) /\ CarriedIsTold(x) /\ LoggedIsCarried(x) /\ RestIsTold(x) /\ EntryChains(x)

AuditInv ==
    /\ AuditTypes /\ WritersFit /\ OneCarrier /\ LoadsCurrent
    /\ \A x \in Records : spoiled[x] = {} => RecordSound(x)

-----------------------------------------------------------------------------
(* The audit trail: its steps *)

\* How the histories and the writers change.
LEMMA Spoiling ==
    ASSUME AuditTypes, NEW X, NEW why, Spoil(X, why)
    PROVE  /\ spoiled' = [x \in Records |-> spoiled'[x]]
           /\ \A x \in Records : spoiled'[x] = {} => spoiled[x] = {} /\ x \notin X
<1>1. spoiled' = [x \in Records |-> IF x \in X THEN spoiled[x] \cup {why} ELSE spoiled[x]]
    BY DEF Spoil
<1>. QED BY <1>1

\* A writer that is not idle is at work.
LEMMA Working ==
    /\ \A r : AtWork(r) => WriterFits(r) /\ r # NoWriter
    /\ WritersFit => \A w \in Writers : AtWork(writer[w]) <=> Busy(w)
<1>1. \A r : AtWork(r) => r # NoWriter
    <2>1. \A r : AtWork(r) => r.pc # "idle"
        BY DEF AtWork
    <2>. QED BY <2>1 DEF NoWriter
<1>2. WritersFit => \A w \in Writers : AtWork(writer[w]) <=> Busy(w)
    <2>1. \A r : AtWork(r) => r.pc # "idle"
        BY DEF AtWork
    <2>2. NoWriter.pc = "idle"
        BY DEF NoWriter
    <2>. QED BY <2>1, <2>2 DEF WritersFit, WriterFits, Busy, Pc
<1>. QED BY <1>1, <1>2 DEF WriterFits

\* A handler that is not done writes a record next.
LEMMA OpGiven ==
    ASSUME NEW r, AtWork(r), r.pc # "commit"
    PROVE  Head(r.todo).on \in Records /\ Head(r.todo).op \in Ops /\ Head(r.todo).also \subseteq Records
<1>1. r.todo \in Seq(Writes) /\ r.todo # << >>
    BY DEF AtWork, Todos
<1>2. \A S : \A s \in Seq(S) : s # << >> => Head(s) \in S
    OBVIOUS
<1>3. Head(r.todo) \in Writes
    BY <1>1, <1>2
<1>. QED BY <1>3 DEF Writes

\* The next write of a handler, or its end.
LEMMA GoingOn ==
    ASSUME NEW r, AtWork(r), r.pc # "commit"
    PROVE  \/ /\ AtWork(Onward(r)) /\ Onward(r).pc \in {"load", "commit"} /\ Onward(r).tx = r.tx /\ Onward(r).open = r.open
              /\ Onward(r).view = r.view /\ Onward(r).logged = r.logged /\ Onward(r).before = r.before
              /\ Onward(r).made = r.made
           \/ Onward(r) = NoWriter /\ ~r.tx
<1>. DEFINE a == [r EXCEPT !.pc = "load", !.todo = Tail(r.todo), !.off = FALSE]
            b == [r EXCEPT !.pc = "commit", !.todo = Tail(r.todo)]
<1>1. Onward(r) = IF Tail(r.todo) # << >> THEN a ELSE IF r.tx THEN b ELSE NoWriter
    BY DEF Onward
<1>2. /\ DOMAIN a = WriterFields /\ a.pc = "load" /\ a.tx = r.tx /\ a.open = r.open /\ a.view = r.view
      /\ a.logged = r.logged /\ a.before = r.before /\ a.made = r.made /\ a.off = FALSE
      /\ a.todo = Tail(r.todo)
    BY DEF AtWork, WriterFields
<1>3. /\ DOMAIN b = WriterFields /\ b.pc = "commit" /\ b.tx = r.tx /\ b.open = r.open /\ b.view = r.view
      /\ b.logged = r.logged /\ b.before = r.before /\ b.made = r.made /\ b.off = r.off
      /\ b.todo = Tail(r.todo)
    BY DEF AtWork, WriterFields
<1>. HIDE DEF a, b
<1>4. Tail(r.todo) \in Todos
    BY DEF AtWork, Todos
<1>5. (Tail(r.todo) # << >> => AtWork(a)) /\ AtWork(b)
    BY <1>2, <1>3, <1>4 DEF AtWork
<1>. QED BY <1>1, <1>2, <1>3, <1>5

\* A writer whose row was committed by another one.
LEMMA Overtaken ==
    ASSUME WritersFit, NEW X, NEW w \in Writers, NEW v \in Writers, v # w
    PROVE  LET r == Outdated(X, w)[v] IN
           \/ /\ AtWork(r) /\ Busy(v) /\ r.pc = writer[v].pc
              /\ r.tx = writer[v].tx /\ r.open = writer[v].open /\ r.todo = writer[v].todo /\ r.view = writer[v].view
              /\ r.before = writer[v].before /\ r.made = writer[v].made /\ r.logged = writer[v].logged
              /\ r.off /\ Pc(v) = "write" /\ Op(v).on \in X
           \/ r = writer[v] /\ ~(Pc(v) = "write" /\ Op(v).on \in X)
<1>. DEFINE r == Outdated(X, w)[v]
            s == [writer[v] EXCEPT !.off = TRUE]
<1>1. r = IF Pc(v) = "write" /\ Op(v).on \in X THEN s ELSE writer[v]
    BY DEF Outdated
<1>2. CASE Pc(v) = "write" /\ Op(v).on \in X
    <2>1. AtWork(writer[v]) /\ Busy(v)
        BY <1>2, Working DEF Busy
    <2>2. /\ DOMAIN s = WriterFields /\ s.pc = writer[v].pc /\ s.tx = writer[v].tx /\ s.open = writer[v].open
          /\ s.todo = writer[v].todo /\ s.view = writer[v].view /\ s.before = writer[v].before
          /\ s.made = writer[v].made /\ s.logged = writer[v].logged /\ s.off = TRUE
        BY <2>1 DEF AtWork, WriterFields
    <2>. HIDE DEF s
    <2>3. AtWork(s)
        BY <2>1, <2>2 DEF AtWork
    <2>. QED BY <1>1, <1>2, <2>1, <2>2, <2>3
<1>. QED BY <1>1, <1>2

\* One writer is written.
LEMMA WriterWritten ==
    ASSUME WritersFit, NEW w \in Writers, NEW r, WriterFits(r), writer' = [writer EXCEPT ![w] = r]
    PROVE  WritersFit' /\ writer'[w] = r /\ \A v \in Writers : v # w => writer'[v] = writer[v]
<1>1. writer' = [v \in Writers |-> IF v = w THEN r ELSE writer[v]]
    BY DEF WritersFit
<1>2. writer' = [v \in Writers |-> writer'[v]] /\ writer'[w] = r /\ \A v \in Writers : v # w => writer'[v] = writer[v]
    BY <1>1
<1>3. \A v \in Writers : WriterFits(writer'[v])
    BY <1>2 DEF WritersFit
<1>. QED BY <1>2, <1>3 DEF WritersFit

\* A step that writes no row and no entry.
LEMMA QuietKeeps ==
    ASSUME AuditInv, NEW w \in Writers, NEW r, AtWork(r), writer' = [writer EXCEPT ![w] = r],
           stored' = stored, told' = told, clock' = clock, spoiled' = spoiled, torn' = torn,
           Pc(w) # "entry", r.pc # "entry",
           Busy(w) => r.view = writer[w].view /\ r.logged = writer[w].logged /\ r.tx = writer[w].tx,
           ~Busy(w) => r.logged = {} /\ \A x \in Records : r.view[x] = NotWritten,
           r.pc = "write" => r.before = stored[Head(r.todo).on]
    PROVE  AuditInv'
<1>1. AuditTypes /\ WritersFit /\ OneCarrier /\ LoadsCurrent /\ \A x \in Records : spoiled[x] = {} => RecordSound(x)
    BY DEF AuditInv
<1>2. WritersFit' /\ writer'[w] = r /\ \A v \in Writers : v # w => writer'[v] = writer[v]
    BY <1>1, WriterWritten, Working
<1>3. r.pc # "idle"
    BY DEF AtWork
<1>4. \A x \in Records : Carries(w, x)' = Carries(w, x) /\ Tells(w, x)' = FALSE /\ Tells(w, x) = FALSE
    BY <1>2, <1>3 DEF Carries, Tells, Busy, Pc
<1>5. \A v \in Writers, x \in Records : v # w => Carries(v, x)' = Carries(v, x) /\ Tells(v, x)' = Tells(v, x)
    BY <1>2 DEF Carries, Tells, Busy, Pc, Op
<1>6. AuditTypes'
    BY <1>1 DEF AuditTypes
<1>7. OneCarrier'
    BY <1>1, <1>4, <1>5 DEF OneCarrier
<1>8. LoadsCurrent'
    BY <1>1, <1>2 DEF LoadsCurrent, Pc, Op
<1>9. ASSUME NEW x \in Records, spoiled'[x] = {}
      PROVE  RecordSound(x)'
    <2>1. RecordSound(x)
        BY <1>1, <1>9
    <2>2. WaitsForStored(x)'
        BY <1>2, <1>4, <1>5, <2>1 DEF RecordSound, WaitsForStored, Waits
    <2>3. CarriedIsTold(x)'
        <3>1. \A v \in Writers : Carries(v, x) => Busy(v)
            BY DEF Carries
        <3>. QED BY <1>2, <1>4, <1>5, <2>1, <3>1 DEF RecordSound, CarriedIsTold
    <2>4. LoggedIsCarried(x)'
        BY <1>2, <1>4, <1>5, <2>1 DEF RecordSound, LoggedIsCarried, Busy, Pc
    <2>5. RestIsTold(x)'
        BY <1>2, <1>4, <1>5, <2>1 DEF RecordSound, RestIsTold, Waits
    <2>6. EntryChains(x)'
        BY <1>2, <1>4, <1>5, <2>1 DEF RecordSound, EntryChains, Op
    <2>. QED BY <2>1, <2>2, <2>3, <2>4, <2>5, <2>6 DEF RecordSound
<1>. QED BY Zenon, <1>2, <1>6, <1>7, <1>8, <1>9 DEF AuditInv

\* A handler starts, takes a connection, or loads the row it will write.
LEMMA LoadsKeep ==
    ASSUME AuditInv, NEW w \in Writers, LoadBefore(w) \/ Begin(w) \/ \E h \in Handlers : AuditStart(w, h)
    PROVE  AuditInv'
<1>1. ASSUME NEW h \in Handlers, AuditStart(w, h)
      PROVE  AuditInv'
    <2>. DEFINE r == Starting(h)
    <2>1. /\ ~Busy(w) /\ writer' = [writer EXCEPT ![w] = r]
          /\ stored' = stored /\ told' = told /\ clock' = clock /\ spoiled' = spoiled /\ torn' = torn
        BY <1>1 DEF AuditStart
    <2>2. /\ DOMAIN r = WriterFields /\ r.pc \in {"begin", "load"} /\ r.tx = h.tx /\ r.open = FALSE /\ r.off = FALSE
          /\ r.view = [x \in Records |-> NotWritten] /\ r.logged = {} /\ h.tx \in BOOLEAN /\ (r.pc = "begin" => h.tx)
          /\ r.todo = h.writes /\ h.writes \in Todos /\ h.writes # << >>
        BY AuditAssumption DEF Starting, WriterFields, Todos
    <2>. HIDE DEF r
    <2>3. AtWork(r)
        BY <2>2 DEF AtWork
    <2>4. Pc(w) # "entry"
        BY <2>1 DEF Busy
    <2>. QED BY <2>1, <2>2, <2>3, <2>4, QuietKeeps
<1>2. CASE Begin(w)
    <2>. DEFINE r == [writer[w] EXCEPT !.pc = "load", !.open = TRUE]
    <2>1. /\ Pc(w) = "begin" /\ Busy(w) /\ writer' = [writer EXCEPT ![w] = r]
          /\ stored' = stored /\ told' = told /\ clock' = clock /\ spoiled' = spoiled /\ torn' = torn
        BY <1>2 DEF Begin, Busy
    <2>2. AtWork(writer[w])
        BY <2>1, Working DEF AuditInv
    <2>3. /\ DOMAIN r = WriterFields /\ r.pc = "load" /\ r.tx = writer[w].tx /\ r.open = TRUE /\ r.off = writer[w].off
          /\ r.todo = writer[w].todo /\ r.view = writer[w].view /\ r.logged = writer[w].logged
        BY <2>2 DEF AtWork, WriterFields
    <2>. HIDE DEF r
    <2>4. AtWork(r)
        BY <2>1, <2>2, <2>3 DEF AtWork, Pc
    <2>. QED BY <2>1, <2>3, <2>4, QuietKeeps
<1>3. CASE LoadBefore(w)
    <2>. DEFINE r == [writer[w] EXCEPT !.pc = "write", !.before = stored[Op(w).on]]
    <2>1. /\ Pc(w) = "load" /\ Busy(w) /\ writer' = [writer EXCEPT ![w] = r]
          /\ stored' = stored /\ told' = told /\ clock' = clock /\ spoiled' = spoiled /\ torn' = torn
        BY <1>3 DEF LoadBefore, Busy
    <2>2. AtWork(writer[w])
        BY <2>1, Working DEF AuditInv
    <2>3. /\ DOMAIN r = WriterFields /\ r.pc = "write" /\ r.tx = writer[w].tx /\ r.open = writer[w].open /\ r.off = writer[w].off
          /\ r.todo = writer[w].todo /\ r.view = writer[w].view /\ r.logged = writer[w].logged /\ r.before = stored[Head(r.todo).on]
        BY <2>2 DEF AtWork, WriterFields, Op
    <2>. HIDE DEF r
    <2>4. AtWork(r)
        BY <2>1, <2>2, <2>3 DEF AtWork, Pc
    <2>. QED BY <2>1, <2>3, <2>4, QuietKeeps
<1>. QED BY <1>1, <1>2, <1>3

\* A writer ends without a commit, or its transaction does under it. What it had
\* put into entries is spoiled.
LEMMA GivingUpKeeps ==
    ASSUME AuditInv, NEW w \in Writers, Busy(w), NEW r, writer' = [writer EXCEPT ![w] = r],
           stored' = stored, told' = told, clock' = clock, torn' = torn, spoiled' = [x \in Records |-> spoiled'[x]],
           \A x \in Records : spoiled'[x] = {} => /\ spoiled[x] = {} /\ ~Waits(w, x)
                                                  /\ writer[w].tx => x \notin writer[w].logged,
           \/ r = NoWriter
           \/ /\ AtWork(r) /\ ~r.open /\ r.tx /\ writer[w].tx /\ r.pc = writer[w].pc /\ r.todo = writer[w].todo
              /\ r.before = writer[w].before /\ r.off = writer[w].off /\ r.logged = writer[w].logged
    PROVE  AuditInv'
<1>1. AuditTypes /\ WritersFit /\ OneCarrier /\ LoadsCurrent /\ \A x \in Records : spoiled[x] = {} => RecordSound(x)
    BY DEF AuditInv
<1>2. WritersFit' /\ writer'[w] = r /\ \A v \in Writers : v # w => writer'[v] = writer[v]
    BY <1>1, WriterWritten DEF WriterFits
<1>3. \A x \in Records : ~Carries(w, x)'
    BY <1>2 DEF Carries, Busy, Pc, NoWriter, AtWork
<1>4. \A x \in Records : Tells(w, x)' => Tells(w, x) /\ r # NoWriter
    BY <1>2 DEF Tells, Pc, Op, NoWriter
<1>5. \A v \in Writers, x \in Records : v # w => Carries(v, x)' = Carries(v, x) /\ Tells(v, x)' = Tells(v, x)
    BY <1>2 DEF Carries, Tells, Busy, Pc, Op
<1>6. AuditTypes'
    BY <1>1 DEF AuditTypes
<1>7. OneCarrier'
    BY <1>1, <1>3, <1>5 DEF OneCarrier
<1>8. LoadsCurrent'
    BY <1>1, <1>2 DEF LoadsCurrent, Pc, Op, NoWriter
<1>9. ASSUME NEW x \in Records, spoiled'[x] = {}
      PROVE  RecordSound(x)'
    <2>1. RecordSound(x) /\ ~Waits(w, x) /\ (writer[w].tx => x \notin writer[w].logged)
        BY <1>1, <1>9
    <2>2. ~Waits(w, x)'
        BY <1>2, <1>4 DEF Waits
    <2>3. WaitsForStored(x)'
        BY <1>2, <1>3, <1>5, <2>1, <2>2 DEF RecordSound, WaitsForStored, Waits
    <2>4. CarriedIsTold(x)'
        BY <1>2, <1>3, <1>5, <2>1 DEF RecordSound, CarriedIsTold
    <2>5. LoggedIsCarried(x)'
        <3>1. ~(Busy(w)' /\ writer'[w].tx /\ (x \in writer'[w].logged \/ (Tells(w, x)' /\ writer'[w].open)))
            BY <1>2, <2>1 DEF Busy, Pc, NoWriter
        <3>. QED BY <1>2, <1>5, <2>1, <3>1 DEF RecordSound, LoggedIsCarried, Busy, Pc
    <2>6. RestIsTold(x)'
        <3>1. Carries(w, x) => told[x] = stored[x]
            <4>1. Carries(w, x) => writer[w].tx
                BY <1>1, Working DEF Carries, AtWork
            <4>. QED BY <2>1, <4>1 DEF RecordSound, CarriedIsTold
        <3>2. SUFFICES ASSUME \A v \in Writers : ~Waits(v, x)' /\ ~Carries(v, x)'
                       PROVE  told[x] = stored[x]
            BY DEF RestIsTold
        <3>3. \A v \in Writers : v # w => ~Waits(v, x) /\ ~Carries(v, x)
            BY <1>2, <1>5, <3>2 DEF Waits
        <3>. QED BY <2>1, <3>1, <3>3 DEF RecordSound, RestIsTold
    <2>7. EntryChains(x)'
        <3>1. ~(Tells(w, x)' /\ (writer'[w].tx => writer'[w].open))
            BY <1>2, <1>4
        <3>. QED BY <1>2, <1>5, <2>1, <3>1 DEF RecordSound, EntryChains, Op
    <2>. QED BY <2>1, <2>3, <2>4, <2>5, <2>6, <2>7 DEF RecordSound
<1>. QED BY Zenon, <1>2, <1>6, <1>7, <1>8, <1>9 DEF AuditInv

\* An entry fails, a handler throws, a transaction takes too long.
LEMMA FailuresKeep ==
    ASSUME AuditInv, NEW w \in Writers, LogFails(w) \/ Rollback(w) \/ Expire(w)
    PROVE  AuditInv'
<1>1. AuditTypes /\ WritersFit
    BY DEF AuditInv
<1>2. CASE LogFails(w)
    <2>1. /\ Pc(w) = "entry" /\ Busy(w) /\ writer' = [writer EXCEPT ![w] = NoWriter]
          /\ stored' = stored /\ told' = told /\ clock' = clock /\ torn' = torn
        BY <1>2 DEF LogFails, Busy
    <2>2. CASE writer[w].tx
        <3>1. Spoil(writer[w].logged, "rolled back")
            BY <1>2, <2>2 DEF LogFails
        <3>. QED BY <1>1, <2>1, <2>2, <3>1, Spoiling, GivingUpKeeps DEF Waits
    <2>3. CASE ~writer[w].tx
        <3>1. Spoil({Op(w).on}, "entry lost")
            BY <1>2, <2>3 DEF LogFails
        <3>2. /\ spoiled' = [x \in Records |-> spoiled'[x]]
              /\ \A x \in Records : spoiled'[x] = {} => spoiled[x] = {} /\ x # Op(w).on
            BY <1>1, <3>1, Spoiling
        <3>3. \A x \in Records : spoiled'[x] = {} => ~Waits(w, x)
            BY <3>2 DEF Waits, Tells
        <3>. QED BY <2>1, <2>3, <3>2, <3>3, GivingUpKeeps
    <2>. QED BY <2>2, <2>3
<1>3. CASE Rollback(w)
    <2>1. /\ Pc(w) # "entry" /\ Busy(w) /\ writer' = [writer EXCEPT ![w] = NoWriter]
          /\ stored' = stored /\ told' = told /\ clock' = clock /\ torn' = torn /\ Spoil(writer[w].logged, "rolled back")
        BY <1>3 DEF Rollback, Busy
    <2>. QED BY <1>1, <2>1, Spoiling, GivingUpKeeps DEF Waits, Tells
<1>4. CASE Expire(w)
    <2>. DEFINE r == [writer[w] EXCEPT !.open = FALSE, !.view = [x \in Records |-> NotWritten]]
    <2>1. /\ Busy(w) /\ writer[w].open /\ writer' = [writer EXCEPT ![w] = r]
          /\ stored' = stored /\ told' = told /\ clock' = clock /\ torn' = torn /\ Spoil(writer[w].logged, "rolled back")
        BY <1>4 DEF Expire, Holds
    <2>2. AtWork(writer[w]) /\ writer[w].tx
        BY <1>1, <2>1, Working DEF AtWork
    <2>3. /\ DOMAIN r = WriterFields /\ r.pc = writer[w].pc /\ r.tx = writer[w].tx /\ r.open = FALSE /\ r.off = writer[w].off
          /\ r.view = [x \in Records |-> NotWritten] /\ r.logged = writer[w].logged /\ r.before = writer[w].before
          /\ r.todo = writer[w].todo
        BY <2>2 DEF AtWork, WriterFields
    <2>. HIDE DEF r
    <2>4. AtWork(r)
        BY <2>2, <2>3 DEF AtWork
    <2>. QED BY <1>1, <2>1, <2>2, <2>3, <2>4, Spoiling, GivingUpKeeps DEF Waits
<1>. QED BY <1>2, <1>3, <1>4

\* An entry is inserted.
LEMMA EntryKeeps ==
    ASSUME AuditInv, NEW w \in Writers, WriteLog(w)
    PROVE  AuditInv'
<1>. DEFINE q == [writer[w] EXCEPT !.logged = writer[w].logged \cup {Op(w).on}]
<1>1. AuditTypes /\ WritersFit /\ OneCarrier /\ LoadsCurrent /\ \A x \in Records : spoiled[x] = {} => RecordSound(x)
    BY DEF AuditInv
<1>2. PICK x : x = Op(w).on
    OBVIOUS
<1>3. /\ Pc(w) = "entry" /\ Busy(w) /\ told' = [told EXCEPT ![x] = writer[w].made]
      /\ torn' = IF Loads(Op(w).op) /\ writer[w].before # told[x] /\ ~writer[w].off THEN torn \cup {x} ELSE torn
      /\ writer' = [writer EXCEPT ![w] = Onward(q)] /\ stored' = stored /\ clock' = clock
    BY <1>2 DEF WriteLog, Busy
<1>4. /\ spoiled' = [y \in Records |-> spoiled'[y]]
      /\ \A y \in Records : spoiled'[y] = {} => spoiled[y] = {} /\ (y = x /\ writer[w].tx => writer[w].open)
    <2>1. CASE writer[w].tx /\ ~writer[w].open
        <3>1. Spoil({x}, "rolled back")
            BY <1>2, <2>1 DEF WriteLog
        <3>. QED BY <1>1, <3>1, Spoiling
    <2>2. CASE ~(writer[w].tx /\ ~writer[w].open)
        <3>1. spoiled' = spoiled
            BY <2>2 DEF WriteLog
        <3>. QED BY <1>1, <2>2, <3>1 DEF AuditTypes
    <2>. QED BY <2>1, <2>2
<1>5. AtWork(writer[w])
    BY <1>1, <1>3, Working
<1>6. /\ DOMAIN q = WriterFields /\ q.pc = "entry" /\ q.tx = writer[w].tx /\ q.open = writer[w].open /\ q.off = writer[w].off
      /\ q.view = writer[w].view /\ q.logged = writer[w].logged \cup {x} /\ q.todo = writer[w].todo
    BY <1>2, <1>3, <1>5 DEF AtWork, WriterFields, Pc
<1>. HIDE DEF q
<1>7. AtWork(q)
    BY <1>3, <1>5, <1>6 DEF AtWork, Pc
<1>8. PICK r : r = Onward(q)
    OBVIOUS
<1>9. \/ /\ AtWork(r) /\ r.pc \in {"load", "commit"} /\ r.tx = writer[w].tx /\ r.open = writer[w].open
         /\ r.view = writer[w].view /\ r.logged = writer[w].logged \cup {x}
      \/ r = NoWriter /\ ~writer[w].tx
    BY <1>6, <1>7, <1>8, GoingOn
<1>10. WritersFit' /\ writer'[w] = r /\ \A v \in Writers : v # w => writer'[v] = writer[v]
    BY <1>1, <1>3, <1>8, <1>9, WriterWritten DEF WriterFits
<1>11. \A y \in Records : /\ Carries(w, y)' = Carries(w, y) /\ ~Tells(w, y)' /\ (Tells(w, y) <=> y = x)
                          /\ Carries(w, y) => writer[w].tx /\ writer[w].open
    <2>1. TAKE y \in Records
    <2>2. Tells(w, y) <=> y = x
        BY <1>2, <1>3 DEF Tells
    <2>3. Carries(w, y) <=> writer[w].view[y] # NotWritten
        BY <1>3 DEF Carries
    <2>4. Carries(w, y) => writer[w].tx /\ writer[w].open
        BY <1>5, <2>3 DEF AtWork
    <2>5. CASE r = NoWriter
        BY <1>9, <1>10, <2>2, <2>4, <2>5 DEF Carries, Tells, Busy, Pc, NoWriter, AtWork
    <2>6. CASE r # NoWriter
        BY <1>9, <1>10, <2>2, <2>3, <2>4, <2>6 DEF Carries, Tells, Busy, Pc
    <2>. QED BY <2>5, <2>6
<1>12. \A v \in Writers, y \in Records : v # w => Carries(v, y)' = Carries(v, y) /\ Tells(v, y)' = Tells(v, y)
    BY <1>10 DEF Carries, Tells, Busy, Pc, Op
<1>13. /\ told' = [y \in Records |-> told'[y]] /\ \A y \in Records : told'[y] = IF y = x THEN writer[w].made ELSE told[y]
    BY <1>1, <1>3 DEF AuditTypes
<1>14. AuditTypes'
    <2>1. x \in Records
        BY <1>2, <1>3, <1>5, OpGiven DEF Op, Pc
    <2>2. torn' \subseteq Records
        BY <1>1, <1>3, <2>1 DEF AuditTypes
    <2>. QED BY <1>1, <1>3, <1>4, <1>13, <2>2 DEF AuditTypes
<1>15. OneCarrier'
    BY <1>1, <1>11, <1>12 DEF OneCarrier
<1>16. LoadsCurrent'
    BY <1>1, <1>3, <1>9, <1>10 DEF LoadsCurrent, Pc, Op, NoWriter
<1>17. ASSUME NEW y \in Records, spoiled'[y] = {}
       PROVE  RecordSound(y)'
    <2>1. RecordSound(y) /\ (y = x /\ writer[w].tx => writer[w].open)
        BY <1>1, <1>4, <1>17
\* In the case of the record itself: nobody else is to tell of it.
    <2>2. y = x => /\ \A v \in Writers : v # w => ~Tells(v, y) \/ (writer[v].tx /\ ~writer[v].open)
                   /\ \A v \in Writers : v # w => ~Carries(v, y) /\ ~Waits(v, y)
                   /\ writer[w].tx => Carries(w, y)
                   /\ writer[w].made = IF writer[w].tx THEN writer[w].view[y] ELSE stored[y]
        <3>. SUFFICES ASSUME y = x
                      PROVE  /\ \A v \in Writers : v # w => ~Tells(v, y) \/ (writer[v].tx /\ ~writer[v].open)
                             /\ \A v \in Writers : v # w => ~Carries(v, y) /\ ~Waits(v, y)
                             /\ writer[w].tx => Carries(w, y)
                             /\ writer[w].made = IF writer[w].tx THEN writer[w].view[y] ELSE stored[y]
            OBVIOUS
        <3>1. \A v \in Writers : Tells(v, y) /\ writer[v].tx /\ writer[v].open => Carries(v, y)
            BY <1>1, <2>1, Working DEF RecordSound, LoggedIsCarried, Tells, Busy
        <3>2. CASE ~writer[w].tx
            BY <1>11, <2>1, <3>1, <3>2 DEF RecordSound, WaitsForStored, Waits
        <3>3. CASE writer[w].tx
            BY <1>1, <1>11, <2>1, <3>1, <3>3 DEF RecordSound, WaitsForStored, Waits, CarriedIsTold, OneCarrier
        <3>. QED BY <3>2, <3>3
    <2>3. y \notin torn'
        BY <1>2, <1>3, <1>11, <2>1 DEF RecordSound, EntryChains
    <2>4. WaitsForStored(y)'
        BY <1>3, <1>10, <1>11, <1>12, <2>1 DEF RecordSound, WaitsForStored, Waits
    <2>5. CarriedIsTold(y)'
        <3>1. SUFFICES ASSUME NEW v \in Writers, Carries(v, y)'
                       PROVE  /\ Tells(v, y)' => writer'[v].made = writer'[v].view[y]
                              /\ ~Tells(v, y)' => y \in writer'[v].logged /\ told'[y] = writer'[v].view[y]
                              /\ y \notin writer'[v].logged => told'[y] = stored[y]
            BY <1>3 DEF CarriedIsTold
        <3>2. CASE v # w
            BY <1>10, <1>12, <1>13, <2>1, <2>2, <3>1, <3>2 DEF RecordSound, CarriedIsTold
        <3>3. CASE v = w
            BY <1>9, <1>10, <1>11, <1>13, <2>1, <2>2, <3>1, <3>3 DEF RecordSound, CarriedIsTold
        <3>. QED BY <3>2, <3>3
    <2>6. LoggedIsCarried(y)'
        <3>1. (Busy(w)' /\ writer'[w].tx /\ y \in writer'[w].logged) => Carries(w, y)
            <4>1. writer[w].tx /\ y \in writer[w].logged => Carries(w, y)
                BY <1>3, <2>1 DEF RecordSound, LoggedIsCarried
            <4>2. Busy(w)' => r # NoWriter
                BY <1>10 DEF Busy, Pc, NoWriter
            <4>3. r # NoWriter => r.tx = writer[w].tx /\ r.logged = writer[w].logged \cup {x}
                BY <1>9
            <4>4. y = x /\ writer[w].tx => Carries(w, y)
                BY <2>2
            <4>. QED BY <1>10, <4>1, <4>2, <4>3, <4>4
        <3>. QED BY <1>10, <1>11, <1>12, <2>1, <3>1 DEF RecordSound, LoggedIsCarried, Busy, Pc
    <2>7. RestIsTold(y)'
        <3>1. CASE y = x
            BY <1>3, <1>11, <1>13, <2>2, <3>1 DEF RestIsTold
        <3>2. CASE y # x
            BY <1>3, <1>10, <1>11, <1>12, <1>13, <2>1, <3>2 DEF RecordSound, RestIsTold, Waits
        <3>. QED BY <3>1, <3>2
    <2>8. EntryChains(y)'
        BY <1>10, <1>11, <1>12, <1>13, <2>1, <2>2 DEF RecordSound, EntryChains, Op
    <2>. QED BY <2>3, <2>4, <2>5, <2>6, <2>7, <2>8 DEF RecordSound
<1>. QED BY Zenon, <1>10, <1>14, <1>15, <1>16, <1>17 DEF AuditInv

\* What a commit leaves of the other writers.
LEMMA OthersOvertaken ==
    ASSUME WritersFit, NEW w \in Writers, NEW X, NEW r, WriterFits(r), writer' = [Outdated(X, w) EXCEPT ![w] = r]
    PROVE  /\ WritersFit' /\ writer'[w] = r
           /\ \A v \in Writers : v # w =>
                 /\ writer'[v].pc = writer[v].pc /\ writer'[v].tx = writer[v].tx /\ writer'[v].open = writer[v].open
                 /\ writer'[v].todo = writer[v].todo /\ writer'[v].view = writer[v].view
                 /\ writer'[v].before = writer[v].before /\ writer'[v].made = writer[v].made
                 /\ writer'[v].logged = writer[v].logged
                 /\ writer'[v].off \/ (writer'[v] = writer[v] /\ ~(Pc(v) = "write" /\ Op(v).on \in X))
                 /\ \A x \in Records : Carries(v, x)' = Carries(v, x) /\ Tells(v, x)' = Tells(v, x)
<1>1. writer' = [v \in Writers |-> IF v = w THEN r ELSE Outdated(X, w)[v]]
    BY DEF Outdated
<1>2. writer' = [v \in Writers |-> writer'[v]] /\ writer'[w] = r
    BY <1>1
<1>3. ASSUME NEW v \in Writers, v # w
      PROVE  /\ WriterFits(writer'[v])
             /\ writer'[v].pc = writer[v].pc /\ writer'[v].tx = writer[v].tx /\ writer'[v].open = writer[v].open
             /\ writer'[v].todo = writer[v].todo /\ writer'[v].view = writer[v].view
             /\ writer'[v].before = writer[v].before /\ writer'[v].made = writer[v].made
             /\ writer'[v].logged = writer[v].logged
             /\ writer'[v].off \/ (writer'[v] = writer[v] /\ ~(Pc(v) = "write" /\ Op(v).on \in X))
    <2>1. PICK s : s = Outdated(X, w)[v] /\ writer'[v] = s
        BY <1>1, <1>3
    <2>2. \/ /\ AtWork(s) /\ Busy(v) /\ s.pc = writer[v].pc
             /\ s.tx = writer[v].tx /\ s.open = writer[v].open /\ s.todo = writer[v].todo /\ s.view = writer[v].view
             /\ s.before = writer[v].before /\ s.made = writer[v].made /\ s.logged = writer[v].logged
             /\ s.off /\ Pc(v) = "write" /\ Op(v).on \in X
          \/ s = writer[v] /\ ~(Pc(v) = "write" /\ Op(v).on \in X)
        BY <1>3, <2>1, Overtaken
    <2>3. WriterFits(s)
        BY <2>2 DEF WriterFits, WritersFit
    <2>. QED BY <2>1, <2>2, <2>3
<1>4. WritersFit'
    BY <1>2, <1>3 DEF WritersFit
<1>5. \A v \in Writers : v # w => \A x \in Records : Carries(v, x)' = Carries(v, x) /\ Tells(v, x)' = Tells(v, x)
    BY <1>3 DEF Carries, Tells, Busy, Pc, Op
<1>. QED BY <1>2, <1>3, <1>4, <1>5

\* A transaction commits.
LEMMA CommitKeeps ==
    ASSUME AuditInv, NEW w \in Writers, Commit(w)
    PROVE  AuditInv'
<1>1. AuditTypes /\ WritersFit /\ OneCarrier /\ LoadsCurrent /\ \A x \in Records : spoiled[x] = {} => RecordSound(x)
    BY DEF AuditInv
<1>2. PICK X : X = {x \in Records : writer[w].view[x] # NotWritten}
    OBVIOUS
<1>3. /\ Pc(w) = "commit" /\ Busy(w)
      /\ stored' = [x \in Records |-> IF x \in X THEN writer[w].view[x] ELSE stored[x]]
      /\ writer' = [Outdated(X, w) EXCEPT ![w] = NoWriter]
      /\ told' = told /\ clock' = clock /\ spoiled' = spoiled /\ torn' = torn
    BY <1>2 DEF Commit, Busy
<1>4. WriterFits(NoWriter)
    BY DEF WriterFits
<1>5. /\ WritersFit' /\ writer'[w] = NoWriter
      /\ \A v \in Writers : v # w =>
            /\ writer'[v].pc = writer[v].pc /\ writer'[v].tx = writer[v].tx /\ writer'[v].open = writer[v].open
            /\ writer'[v].todo = writer[v].todo /\ writer'[v].view = writer[v].view
            /\ writer'[v].before = writer[v].before /\ writer'[v].made = writer[v].made
            /\ writer'[v].logged = writer[v].logged
            /\ writer'[v].off \/ (writer'[v] = writer[v] /\ ~(Pc(v) = "write" /\ Op(v).on \in X))
            /\ \A x \in Records : Carries(v, x)' = Carries(v, x) /\ Tells(v, x)' = Tells(v, x)
    BY <1>1, <1>3, <1>4, OthersOvertaken
<1>6. \A x \in Records : ~Carries(w, x)' /\ ~Tells(w, x)' /\ ~Tells(w, x) /\ (Carries(w, x) <=> x \in X)
    BY <1>2, <1>3, <1>5 DEF Carries, Tells, Busy, Pc, NoWriter
<1>7. AuditTypes'
    BY <1>1, <1>3 DEF AuditTypes
<1>8. OneCarrier'
    BY <1>1, <1>5, <1>6 DEF OneCarrier
<1>9. LoadsCurrent'
    <2>1. SUFFICES ASSUME NEW v \in Writers, NEW x \in Records, Pc(v)' = "write", Op(v)'.on = x, ~writer'[v].off
                   PROVE  writer'[v].before = stored'[x]
        BY DEF LoadsCurrent
    <2>2. v # w
        BY <1>5, <2>1 DEF Pc, NoWriter
    <2>3. writer'[v] = writer[v] /\ ~(Pc(v) = "write" /\ Op(v).on \in X)
        BY <1>5, <2>1, <2>2
    <2>4. Pc(v) = "write" /\ Op(v).on = x /\ ~writer[v].off /\ x \notin X
        BY <2>1, <2>3 DEF Pc, Op
    <2>. QED BY <1>1, <1>3, <2>3, <2>4 DEF LoadsCurrent
<1>10. ASSUME NEW x \in Records, spoiled'[x] = {}
       PROVE  RecordSound(x)'
    <2>1. RecordSound(x)
        BY <1>1, <1>3, <1>10
    <2>2. x \in X => stored'[x] = told[x] /\ \A v \in Writers : v # w => ~Carries(v, x) /\ ~Waits(v, x)
        BY <1>1, <1>2, <1>3, <1>6, <2>1 DEF RecordSound, CarriedIsTold, WaitsForStored, OneCarrier
    <2>3. x \notin X => stored'[x] = stored[x]
        BY <1>3
    <2>4. WaitsForStored(x)'
        BY <1>5, <1>6, <2>1, <2>2, <2>3 DEF RecordSound, WaitsForStored, Waits
    <2>5. CarriedIsTold(x)'
        BY <1>3, <1>5, <1>6, <2>1, <2>2, <2>3 DEF RecordSound, CarriedIsTold
    <2>6. LoggedIsCarried(x)'
        BY <1>5, <1>6, <2>1 DEF RecordSound, LoggedIsCarried, Busy, Pc, NoWriter
    <2>7. RestIsTold(x)'
        <3>1. CASE x \in X
            BY <1>3, <2>2, <3>1 DEF RestIsTold
        <3>2. CASE x \notin X
            BY <1>3, <1>5, <1>6, <2>1, <2>3, <3>2 DEF RecordSound, RestIsTold, Waits
        <3>. QED BY <3>1, <3>2
    <2>8. EntryChains(x)'
        <3>1. SUFFICES ASSUME NEW v \in Writers, Tells(v, x)', Loads(Op(v)'.op), ~writer'[v].off,
                              writer'[v].tx => writer'[v].open
                       PROVE  writer'[v].before = told[x]
            BY <1>3 DEF EntryChains, Loads
        <3>2. v # w /\ writer'[v] = writer[v] /\ Tells(v, x)
            BY <1>5, <1>6, <3>1
        <3>. QED BY <2>1, <3>1, <3>2 DEF RecordSound, EntryChains, Op
    <2>. QED BY <1>3, <2>1, <2>4, <2>5, <2>6, <2>7, <2>8 DEF RecordSound
<1>. QED BY Zenon, <1>5, <1>7, <1>8, <1>9, <1>10 DEF AuditInv

\* What a write makes of its writer, and what its transaction sees of it.
Made(q, new, old, off) ==
    LET r == [q EXCEPT !.made = new, !.before = old, !.off = off] IN
    IF Captured(Head(q.todo).op) THEN [r EXCEPT !.pc = "entry"] ELSE Onward(r)
Seen(n, X, new) == [n EXCEPT !.view = Given(@, X, new)]

\* What a write leaves of its writer: a transaction has a new version in its view.
LEMMA WriterAfter ==
    ASSUME NEW q, AtWork(q), q.pc = "write", q.tx => q.open, NEW X, NEW new, NEW old, NEW off \in BOOLEAN,
           NEW m, m = IF q.tx THEN Seen(Made(q, new, old, off), X, new) ELSE Made(q, new, old, off)
    PROVE  \/ /\ AtWork(m) /\ m.pc \in {"entry", "load", "commit"} /\ m.tx = q.tx /\ m.open = q.open
              /\ m.logged = q.logged /\ m.made = new
              /\ \A y \in Records : m.view[y] = IF y \in X /\ q.tx THEN new ELSE q.view[y]
              /\ m.pc = "entry" <=> Captured(Head(q.todo).op)
              /\ m.pc = "entry" => m.todo = q.todo /\ m.before = old /\ m.off = off
           \/ m = NoWriter /\ ~q.tx /\ ~Captured(Head(q.todo).op)
<1>. DEFINE r == [q EXCEPT !.made = new, !.before = old, !.off = off]
            e == [r EXCEPT !.pc = "entry"]
<1>1. PICK n : n = Made(q, new, old, off) /\ n = IF Captured(Head(q.todo).op) THEN e ELSE Onward(r)
    BY DEF Made
<1>2. /\ DOMAIN r = WriterFields /\ r.pc = "write" /\ r.tx = q.tx /\ r.open = q.open /\ r.todo = q.todo /\ r.view = q.view
      /\ r.logged = q.logged /\ r.before = old /\ r.made = new /\ r.off = off
    BY DEF AtWork, WriterFields
<1>3. /\ DOMAIN e = WriterFields /\ e.pc = "entry" /\ e.tx = q.tx /\ e.open = q.open /\ e.todo = q.todo /\ e.view = q.view
      /\ e.logged = q.logged /\ e.before = old /\ e.made = new /\ e.off = off
    BY DEF AtWork, WriterFields
<1>. HIDE DEF r, e
<1>4. AtWork(r) /\ AtWork(e)
    BY <1>2, <1>3 DEF AtWork
<1>5. \/ /\ AtWork(n) /\ n.pc \in {"entry", "load", "commit"} /\ n.tx = q.tx /\ n.open = q.open
         /\ n.logged = q.logged /\ n.made = new /\ n.view = q.view
         /\ n.pc = "entry" <=> Captured(Head(q.todo).op)
         /\ n.pc = "entry" => n.todo = q.todo /\ n.before = old /\ n.off = off
      \/ n = NoWriter /\ ~q.tx /\ ~Captured(Head(q.todo).op)
    <2>1. CASE Captured(Head(q.todo).op)
        BY <1>1, <1>3, <1>4, <2>1
    <2>2. CASE ~Captured(Head(q.todo).op)
        <3>1. r.pc # "commit"
            BY <1>2
        <3>2. \/ /\ AtWork(n) /\ n.pc \in {"load", "commit"} /\ n.tx = r.tx /\ n.open = r.open
                 /\ n.view = r.view /\ n.logged = r.logged /\ n.made = r.made
              \/ n = NoWriter /\ ~r.tx
            <4>1. n = Onward(r)
                BY <1>1, <2>2
            <4>. QED BY <1>4, <3>1, <4>1, GoingOn
        <3>. QED BY <1>2, <2>2, <3>2
    <2>. QED BY <2>1, <2>2
<1>6. CASE ~q.tx
    BY <1>1, <1>5, <1>6
<1>7. CASE q.tx
    <2>1. AtWork(n) /\ q.open
        BY <1>5, <1>7
    <2>. DEFINE t == [n EXCEPT !.view = Given(n.view, X, new)]
    <2>2. /\ DOMAIN t = WriterFields /\ t.pc = n.pc /\ t.tx = n.tx /\ t.open = n.open /\ t.todo = n.todo
          /\ t.logged = n.logged /\ t.before = n.before /\ t.made = n.made /\ t.off = n.off
          /\ t.view = Given(n.view, X, new)
        BY <2>1 DEF AtWork, WriterFields
    <2>3. m = t
        BY <1>1, <1>7 DEF Seen
    <2>. HIDE DEF t
    <2>4. DOMAIN t.view = Records /\ \A y \in Records : t.view[y] = IF y \in X THEN new ELSE n.view[y]
        BY <2>1, <2>2 DEF AtWork, Given
    <2>5. AtWork(t)
        BY <1>5, <1>7, <2>1, <2>2, <2>4 DEF AtWork
    <2>6. /\ n.pc \in {"entry", "load", "commit"} /\ n.tx = q.tx /\ n.open = q.open
          /\ n.logged = q.logged /\ n.made = new /\ n.view = q.view
          /\ n.pc = "entry" <=> Captured(Head(q.todo).op)
          /\ n.pc = "entry" => n.todo = q.todo /\ n.before = old /\ n.off = off
        BY <1>5, <1>7
    <2>7. \A y \in Records : t.view[y] = IF y \in X /\ q.tx THEN new ELSE q.view[y]
        BY <1>7, <2>4, <2>6
    <2>. QED BY <2>2, <2>3, <2>5, <2>6, <2>7
<1>. QED BY <1>6, <1>7

\* A row is written, in a transaction or on its own.
LEMMA WriteKeeps ==
    ASSUME AuditInv, NEW w \in Writers, Write(w)
    PROVE  AuditInv'
<1>1. AuditTypes /\ WritersFit /\ OneCarrier /\ LoadsCurrent /\ \A x \in Records : spoiled[x] = {} => RecordSound(x)
    BY DEF AuditInv
<1>2. Pc(w) = "write" /\ Busy(w) /\ (writer[w].tx => writer[w].open)
    BY DEF Write, Busy
<1>3. AtWork(writer[w])
    BY <1>1, <1>2, Working
<1>4. PICK q, new, x, X : q = writer[w] /\ new = clock + 1 /\ x = Op(w).on /\ X = Touched(w)
    OBVIOUS
<1>5. x \in Records /\ Op(w).op \in Ops /\ X \subseteq Records /\ x \in X /\ \A y \in X : y = x \/ y \in Op(w).also
    <2>1. x \in Records /\ Op(w).op \in Ops /\ Op(w).also \subseteq Records
        BY <1>2, <1>3, <1>4, OpGiven DEF Op, Pc
    <2>. QED BY <1>4, <2>1 DEF Touched
<1>6. new \in Nat /\ new # NotWritten
    BY <1>1, <1>4 DEF AuditTypes, NotWritten
<1>7. PICK off \in BOOLEAN : off = (writer[w].off \/ writer[w].view[x] # NotWritten)
    BY <1>3 DEF AtWork
<1>8. PICK n, m : n = Made(q, new, q.before, off) /\ m = IF q.tx THEN Seen(n, X, new) ELSE n
    OBVIOUS
<1>9. /\ (\A y \in X : Unlocked(w, y)) /\ clock' = new /\ told' = told /\ torn' = torn
      /\ IF q.tx
         THEN writer' = [writer EXCEPT ![w] = Seen(n, X, new)] /\ stored' = stored
         ELSE /\ writer' = [Outdated(X, w) EXCEPT ![w] = n]
              /\ stored' = Given(stored, X, new)
      /\ spoiled' = [y \in Records |-> spoiled[y] \cup {why \in {"not captured"} : y \in Unseen(w)}
                                       \cup {why \in {"entries crossed"} : y = x /\ Outstanding(x, w) # {}}]
    <2>1. spoiled' = [y \in Records |-> spoiled[y] \cup {why \in {"not captured"} : y \in Unseen(w)}
                                        \cup {why \in {"entries crossed"} : y = x /\ Outstanding(x, w) # {}}]
        BY Zenon, <1>4 DEF Write
    <2>2. \A y \in X : Unlocked(w, y)
        BY <1>4 DEF Write
    <2>3. q.tx => stored' = stored
        BY <1>4 DEF Write
    <2>4. ~q.tx => stored' = Given(stored, X, new)
        BY <1>4 DEF Write
    <2>5. ~q.tx => writer' = [Outdated(X, w) EXCEPT ![w] = n]
        BY <1>4, <1>7, <1>8 DEF Write, Loaded, Made, Op
    <2>6. q.tx => writer' = [writer EXCEPT ![w] = Seen(n, X, new)]
        BY <1>4, <1>7, <1>8 DEF Write, Loaded, Made, Seen, Op
    <2>7. clock' = new /\ told' = told /\ torn' = torn
        BY <1>4 DEF Write
    <2>. QED BY <2>1, <2>2, <2>3, <2>4, <2>5, <2>6, <2>7
<1>10. \/ /\ AtWork(m) /\ m.pc \in {"entry", "load", "commit"} /\ m.tx = q.tx /\ m.open = q.open
          /\ m.logged = q.logged /\ m.made = new
          /\ \A y \in Records : m.view[y] = IF y \in X /\ q.tx THEN new ELSE q.view[y]
          /\ m.pc = "entry" <=> Captured(Op(w).op)
          /\ m.pc = "entry" => m.todo = q.todo /\ m.before = q.before /\ m.off = off
       \/ m = NoWriter /\ ~q.tx /\ ~Captured(Op(w).op)
    <2>1. AtWork(q) /\ q.pc = "write" /\ (q.tx => q.open) /\ Op(w) = Head(q.todo)
        BY <1>2, <1>3, <1>4 DEF Pc, Op
    <2>2. m = IF q.tx THEN Seen(Made(q, new, q.before, off), X, new) ELSE Made(q, new, q.before, off)
        BY <1>8
    <2>. QED BY <1>5, <2>1, <2>2, WriterAfter
<1>11. WriterFits(m) /\ (m # NoWriter => AtWork(m))
    BY <1>10 DEF WriterFits
<1>12. /\ WritersFit' /\ writer'[w] = m
       /\ \A v \in Writers : v # w =>
             /\ writer'[v].pc = writer[v].pc /\ writer'[v].tx = writer[v].tx /\ writer'[v].open = writer[v].open
             /\ writer'[v].todo = writer[v].todo /\ writer'[v].view = writer[v].view
             /\ writer'[v].before = writer[v].before /\ writer'[v].made = writer[v].made
             /\ writer'[v].logged = writer[v].logged
             /\ writer'[v].off \/ (writer'[v] = writer[v] /\ (q.tx \/ ~(Pc(v) = "write" /\ Op(v).on \in X)))
             /\ \A y \in Records : Carries(v, y)' = Carries(v, y) /\ Tells(v, y)' = Tells(v, y)
    <2>1. CASE q.tx
        <3>1. writer' = [writer EXCEPT ![w] = m]
            BY <1>8, <1>9, <2>1
        <3>2. WritersFit' /\ writer'[w] = m /\ \A v \in Writers : v # w => writer'[v] = writer[v]
            BY <1>1, <1>11, <3>1, WriterWritten
        <3>3. \A v \in Writers, y \in Records : v # w => Carries(v, y)' = Carries(v, y) /\ Tells(v, y)' = Tells(v, y)
            BY <3>2 DEF Carries, Tells, Busy, Pc, Op
        <3>. QED BY <2>1, <3>2, <3>3
    <2>2. CASE ~q.tx
        <3>1. writer' = [Outdated(X, w) EXCEPT ![w] = m]
            BY <1>8, <1>9, <2>2
        <3>. DEFINE Kept(v) ==
                /\ writer'[v].pc = writer[v].pc /\ writer'[v].tx = writer[v].tx /\ writer'[v].open = writer[v].open
                /\ writer'[v].todo = writer[v].todo /\ writer'[v].view = writer[v].view
                /\ writer'[v].before = writer[v].before /\ writer'[v].made = writer[v].made
                /\ writer'[v].logged = writer[v].logged
                /\ writer'[v].off \/ (writer'[v] = writer[v] /\ ~(Pc(v) = "write" /\ Op(v).on \in X))
                /\ \A y \in Records : Carries(v, y)' = Carries(v, y) /\ Tells(v, y)' = Tells(v, y)
        <3>2. WritersFit' /\ writer'[w] = m /\ \A v \in Writers : v # w => Kept(v)
            BY <1>1, <1>11, <3>1, OthersOvertaken
        <3>. QED BY <3>2
    <2>. QED BY <2>1, <2>2
<1>13. /\ stored' = [y \in Records |-> stored'[y]]
       /\ \A y \in Records : stored'[y] = IF y \in X /\ ~q.tx THEN new ELSE stored[y]
    BY <1>1, <1>9 DEF AuditTypes, Given
<1>14. /\ spoiled' = [y \in Records |-> spoiled'[y]]
       /\ \A y \in Records : spoiled'[y] = {} =>
             spoiled[y] = {} /\ (y \in X => y = x /\ Captured(Op(w).op) /\ Outstanding(x, w) = {})
    <2>1. SUFFICES ASSUME NEW y \in Records, spoiled'[y] = {}
                   PROVE  spoiled[y] = {} /\ (y \in X => y = x /\ Captured(Op(w).op) /\ Outstanding(x, w) = {})
        BY <1>9
    <2>2. /\ spoiled[y] = {} /\ {why \in {"not captured"} : y \in Unseen(w)} = {}
          /\ {why \in {"entries crossed"} : y = x /\ Outstanding(x, w) # {}} = {}
        BY <1>9, <2>1
    <2>3. y \notin Unseen(w) /\ (y = x => Outstanding(x, w) = {})
        BY <2>2
    <2>4. y \notin Op(w).also /\ (y = x => Op(w).op # "many")
        BY <1>4, <2>3 DEF Unseen
    <2>. QED BY <1>5, <2>2, <2>3, <2>4 DEF Ops, Captured
<1>15. AuditTypes'
    <2>1. told' = [y \in Records |-> told'[y]] /\ clock' \in Nat
        BY <1>1, <1>6, <1>9 DEF AuditTypes
    <2>2. torn' \subseteq Records
        BY <1>1, <1>9 DEF AuditTypes
    <2>. QED BY <1>13, <1>14, <2>1, <2>2 DEF AuditTypes
<1>16. \A y \in X, v \in Writers : v # w => ~Carries(v, y)
    <2>1. TAKE y \in X, v \in Writers
    <2>2. SUFFICES ASSUME v # w, Carries(v, y)
                   PROVE  FALSE
        OBVIOUS
    <2>3. AtWork(writer[v]) /\ Busy(v) /\ writer[v].view[y] # NotWritten
        BY <1>1, <2>2, Working DEF Carries
    <2>4. writer[v].open
        BY <1>5, <2>3 DEF AtWork
    <2>5. Unlocked(w, y)
        BY <1>9, <2>1
    <2>. QED BY <2>2, <2>3, <2>4, <2>5 DEF Unlocked, Holds
<1>17. \A y \in Records : /\ Carries(w, y)' <=> (q.tx /\ (y \in X \/ Carries(w, y)))
                          /\ ~Tells(w, y) /\ (Tells(w, y)' <=> (y = x /\ Captured(Op(w).op)))
                          /\ (Carries(w, y) <=> q.view[y] # NotWritten) /\ (Carries(w, y) => q.tx)
    <2>1. TAKE y \in Records
    <2>2. (Carries(w, y) <=> q.view[y] # NotWritten) /\ (~q.tx => ~Carries(w, y)) /\ ~Tells(w, y)
        BY <1>2, <1>3, <1>4 DEF Carries, Tells, AtWork
    <2>3. CASE m = NoWriter
        BY <1>10, <1>12, <2>2, <2>3 DEF Carries, Tells, Busy, Pc, NoWriter, AtWork
    <2>4. CASE m # NoWriter
        <3>1. /\ m.pc \in {"entry", "load", "commit"} /\ (m.pc = "entry" <=> Captured(Op(w).op))
              /\ m.view[y] = IF y \in X /\ q.tx THEN new ELSE q.view[y]
              /\ m.pc = "entry" => m.todo = q.todo
            BY <1>10, <2>4
        <3>2. Carries(w, y)' <=> (q.tx /\ (y \in X \/ Carries(w, y)))
            BY <1>6, <1>12, <2>2, <3>1 DEF Carries, Busy, Pc
        <3>3. Tells(w, y)' <=> (y = x /\ Captured(Op(w).op))
            BY <1>4, <1>12, <3>1 DEF Tells, Pc, Op
        <3>. QED BY <2>2, <3>2, <3>3
    <2>. QED BY <2>3, <2>4
<1>18. OneCarrier'
    BY <1>1, <1>12, <1>16, <1>17 DEF OneCarrier
<1>19. LoadsCurrent'
    <2>1. SUFFICES ASSUME NEW v \in Writers, NEW y \in Records, Pc(v)' = "write", Op(v)'.on = y, ~writer'[v].off
                   PROVE  writer'[v].before = stored'[y]
        BY DEF LoadsCurrent
    <2>2. v # w
        BY <1>10, <1>12, <2>1 DEF Pc, NoWriter
    <2>3. writer'[v] = writer[v] /\ (q.tx \/ ~(Pc(v) = "write" /\ Op(v).on \in X))
        BY <1>12, <2>1, <2>2
    <2>4. Pc(v) = "write" /\ Op(v).on = y /\ ~writer[v].off /\ (q.tx \/ y \notin X)
        BY <2>1, <2>3 DEF Pc, Op
    <2>. QED BY <1>1, <1>13, <2>3, <2>4 DEF LoadsCurrent
<1>20. ASSUME NEW y \in Records, spoiled'[y] = {}
       PROVE  RecordSound(y)'
    <2>1. /\ RecordSound(y) /\ (y \in X <=> y = x)
          /\ y = x => Captured(Op(w).op) /\ Outstanding(x, w) = {}
        BY <1>1, <1>5, <1>14, <1>20
    <2>2. ASSUME y = x
          PROVE  \A v \in Writers : v # w => ~Waits(v, y) /\ ~Carries(v, y) /\ ~(Tells(v, y) /\ (writer[v].tx => writer[v].open))
        <3>1. TAKE v \in Writers
        <3>2. SUFFICES ASSUME v # w, Tells(v, y), writer[v].tx => writer[v].open
                       PROVE  FALSE
            BY <1>5, <1>16, <2>2 DEF Waits
        <3>3. writer[v].open
            BY <2>1, <2>2, <3>2 DEF Outstanding, Tells
        <3>4. Busy(v) /\ writer[v].tx
            BY <1>1, <3>2, <3>3, Working DEF Tells, Busy, AtWork
        <3>. QED BY <1>16, <2>1, <2>2, <3>2, <3>3, <3>4 DEF RecordSound, LoggedIsCarried
    <2>3. y = x /\ ~Carries(w, y) => told[y] = stored[y]
        BY <1>17, <2>1, <2>2 DEF RecordSound, RestIsTold, Waits
    <2>4. y = x => /\ m.pc = "entry" /\ m.tx = q.tx /\ m.open = q.open /\ m.logged = q.logged /\ m.made = new
                   /\ m.todo = q.todo /\ m.before = q.before /\ m.off = off /\ (q.tx => m.view[y] = new)
        BY <1>10, <2>1
    <2>5. CASE y = x
        <3>1. WaitsForStored(y)'
            BY <1>12, <1>13, <1>17, <2>1, <2>2, <2>4, <2>5 DEF WaitsForStored, Waits
        <3>2. CarriedIsTold(y)'
            <4>1. \A v \in Writers : Carries(v, y)' => v = w
                BY <1>12, <2>2, <2>5
            <4>2. Tells(w, y)'
                BY <1>17, <2>1, <2>5
            <4>3. Carries(w, y)' => /\ writer'[w].made = writer'[w].view[y]
                                    /\ y \notin writer'[w].logged => told'[y] = stored'[y]
                <5>1. CASE ~q.tx
                    BY <1>17, <5>1
                <5>2. CASE q.tx
                    <6>1. stored'[y] = stored[y] /\ told'[y] = told[y]
                        BY <1>9, <1>13, <5>2
                    <6>2. Carries(w, y) /\ y \notin writer[w].logged => told[y] = stored[y]
                        BY <2>1 DEF RecordSound, CarriedIsTold
                    <6>. QED BY <1>4, <1>12, <2>3, <2>4, <2>5, <5>2, <6>1, <6>2
                <5>. QED BY <5>1, <5>2
            <4>. QED BY <4>1, <4>2, <4>3 DEF CarriedIsTold
        <3>3. LoggedIsCarried(y)'
            <4>1. Busy(w)' /\ writer'[w].tx => Carries(w, y)'
                BY <1>12, <1>17, <2>1, <2>4, <2>5
            <4>. QED BY <1>12, <2>1, <4>1 DEF RecordSound, LoggedIsCarried, Busy, Pc
        <3>4. RestIsTold(y)'
            BY <1>12, <1>17, <2>1, <2>4, <2>5 DEF RestIsTold, Waits
        <3>5. EntryChains(y)'
            <4>1. \A v \in Writers : v # w => ~(Tells(v, y)' /\ (writer'[v].tx => writer'[v].open))
                BY <1>12, <2>2, <2>5
            <4>2. ~off => ~Carries(w, y) /\ q.before = stored[y]
                BY <1>1, <1>2, <1>4, <1>7, <1>17, <2>5 DEF LoadsCurrent
            <4>3. ~writer'[w].off => writer'[w].before = told'[y]
                BY <1>9, <1>12, <2>3, <2>4, <2>5, <4>2
            <4>. QED BY <4>1, <4>3 DEF EntryChains
        <3>. QED BY <1>9, <2>1, <3>1, <3>2, <3>3, <3>4, <3>5 DEF RecordSound
    <2>6. CASE y # x
        <3>1. WaitsForStored(y)'
            BY <1>12, <1>13, <1>17, <2>1, <2>6 DEF RecordSound, WaitsForStored, Waits
        <3>2. /\ Carries(w, y)' => Carries(w, y) /\ writer'[w].logged = writer[w].logged /\ writer'[w].view[y] = writer[w].view[y]
              /\ Carries(w, y) => Carries(w, y)'
            BY <1>4, <1>10, <1>12, <1>17, <2>1, <2>6
        <3>3. CarriedIsTold(y)'
            <4>1. SUFFICES ASSUME NEW v \in Writers, Carries(v, y)'
                           PROVE  /\ Tells(v, y)' => writer'[v].made = writer'[v].view[y]
                                  /\ ~Tells(v, y)' => y \in writer'[v].logged /\ told'[y] = writer'[v].view[y]
                                  /\ y \notin writer'[v].logged => told'[y] = stored'[y]
                BY DEF CarriedIsTold
            <4>2. CASE v = w
                BY <1>9, <1>13, <1>17, <2>1, <2>6, <3>2, <4>1, <4>2 DEF RecordSound, CarriedIsTold
            <4>3. CASE v # w
                BY <1>9, <1>12, <1>13, <2>1, <2>6, <4>1, <4>3 DEF RecordSound, CarriedIsTold
            <4>. QED BY <4>2, <4>3
        <3>4. LoggedIsCarried(y)'
            <4>1. Busy(w)' /\ writer'[w].tx /\ y \in writer'[w].logged => q.tx /\ y \in q.logged
                <5>1. Busy(w)' => m # NoWriter
                    BY <1>12 DEF Busy, Pc, NoWriter
                <5>2. m # NoWriter => m.tx = q.tx /\ m.logged = q.logged
                    BY <1>10
                <5>. QED BY <1>12, <5>1, <5>2
            <4>2. Busy(w)' /\ writer'[w].tx /\ y \in writer'[w].logged => Carries(w, y)
                BY <1>2, <1>4, <2>1, <4>1 DEF RecordSound, LoggedIsCarried
            <4>3. ~Tells(w, y)'
                BY <1>17, <2>6
            <4>4. \A v \in Writers : v # w /\ Busy(v)' /\ writer'[v].tx /\ (y \in writer'[v].logged \/ (Tells(v, y)' /\ writer'[v].open))
                                    => Carries(v, y)'
                BY <1>12, <2>1 DEF RecordSound, LoggedIsCarried, Busy, Pc
            <4>. QED BY <3>2, <4>2, <4>3, <4>4 DEF LoggedIsCarried
        <3>5. RestIsTold(y)'
            <4>1. SUFFICES ASSUME \A v \in Writers : ~Waits(v, y)' /\ ~Carries(v, y)'
                           PROVE  told'[y] = stored'[y]
                BY DEF RestIsTold
            <4>2. ASSUME NEW v \in Writers
                  PROVE  ~Waits(v, y) /\ ~Carries(v, y)
                <5>1. CASE v = w
                    BY <1>17, <3>2, <4>1, <5>1 DEF Waits
                <5>2. CASE v # w
                    BY <1>12, <4>1, <5>2 DEF Waits
                <5>. QED BY <5>1, <5>2
            <4>3. told[y] = stored[y]
                BY <2>1, <4>2 DEF RecordSound, RestIsTold
            <4>. QED BY <1>9, <1>13, <2>1, <2>6, <4>3
        <3>6. EntryChains(y)'
            <4>1. SUFFICES ASSUME NEW v \in Writers, Tells(v, y)', Loads(Op(v)'.op), ~writer'[v].off,
                                  writer'[v].tx => writer'[v].open
                           PROVE  writer'[v].before = told'[y]
                BY DEF EntryChains, Loads
            <4>2. v # w
                BY <1>17, <2>6, <4>1
            <4>3. writer'[v] = writer[v] /\ Tells(v, y)
                BY <1>12, <4>1, <4>2
            <4>. QED BY <1>9, <2>1, <4>1, <4>3 DEF RecordSound, EntryChains, Op
        <3>. QED BY <1>9, <2>1, <3>1, <3>3, <3>4, <3>5, <3>6 DEF RecordSound
    <2>. QED BY <2>5, <2>6
<1>. QED BY Zenon, <1>12, <1>15, <1>18, <1>19, <1>20 DEF AuditInv

\* Every step of a writer keeps the invariant.
LEMMA AuditStepKeeps ==
    AuditInv /\ (AuditStep \/ \E w \in Writers, h \in Handlers : AuditStart(w, h)) => AuditInv'
<1>1. SUFFICES ASSUME AuditInv, NEW w \in Writers,
                      \/ Begin(w) \/ LoadBefore(w) \/ Write(w) \/ WriteLog(w) \/ LogFails(w)
                      \/ Commit(w) \/ Rollback(w) \/ Expire(w) \/ \E h \in Handlers : AuditStart(w, h)
               PROVE  AuditInv'
    BY DEF AuditStep
<1>. QED BY <1>1, LoadsKeep, WriteKeeps, EntryKeeps, FailuresKeep, CommitKeeps

\* Nobody is at work at first, and no entry is missing.
LEMMA AuditStarts == AuditInit => AuditInv
<1>1. SUFFICES ASSUME AuditInit
               PROVE  AuditInv
    OBVIOUS
<1>2. /\ stored = [x \in Records |-> 0] /\ told = [x \in Records |-> 0] /\ writer = [w \in Writers |-> NoWriter]
      /\ clock = 0 /\ spoiled = [x \in Records |-> {}] /\ torn = {}
    BY <1>1 DEF AuditInit
<1>3. \A w \in Writers : Pc(w) = "idle" /\ ~Busy(w)
    BY <1>2 DEF Pc, Busy, NoWriter
<1>4. \A w \in Writers, x \in Records : ~Carries(w, x) /\ ~Tells(w, x) /\ ~Waits(w, x)
    BY <1>3 DEF Carries, Tells, Waits
<1>5. AuditTypes
    BY <1>2 DEF AuditTypes
<1>6. WritersFit
    BY <1>2 DEF WritersFit, WriterFits
<1>7. OneCarrier /\ LoadsCurrent
    BY <1>3, <1>4 DEF OneCarrier, LoadsCurrent
<1>8. ASSUME NEW x \in Records
      PROVE  RecordSound(x)
    <2>1. WaitsForStored(x) /\ CarriedIsTold(x) /\ LoggedIsCarried(x) /\ EntryChains(x)
        BY <1>3, <1>4 DEF WaitsForStored, CarriedIsTold, LoggedIsCarried, EntryChains
    <2>2. RestIsTold(x)
        BY <1>2 DEF RestIsTold
    <2>. QED BY <1>2, <2>1, <2>2 DEF RecordSound
<1>. QED BY Zenon, <1>5, <1>6, <1>7, <1>8 DEF AuditInv

\* The invariant says what a reader of the log wants to know.
LEMMA AuditSound == AuditInv => LogCanBeReplayed
<1>1. SUFFICES ASSUME AuditInv
               PROVE  LogCanBeReplayed
    OBVIOUS
<1>2. ASSUME NEW x \in Records, \A w \in Writers : ~Busy(w), spoiled[x] = {}
      PROVE  told[x] = stored[x]
    <2>1. RestIsTold(x)
        BY <1>1, <1>2 DEF AuditInv, RecordSound
    <2>2. \A w \in Writers : ~Waits(w, x) /\ ~Carries(w, x)
        BY <1>2 DEF Waits, Carries, Tells, Busy
    <2>. QED BY <2>1, <2>2 DEF RestIsTold
<1>3. \A x \in torn : spoiled[x] # {}
    <2>1. torn \subseteq Records
        BY <1>1 DEF AuditInv, AuditTypes
    <2>. QED BY <1>1, <2>1 DEF AuditInv, RecordSound
<1>. QED BY <1>2, <1>3 DEF LogCanBeReplayed, LastEntryTells, DifferencesChain

\* Nothing else writes what the audit keeps.
LEMMA AuditAlone ==
    PlanningNext \/ UNCHANGED planningVars =>
        AuditStep \/ (\E w \in Writers, h \in Handlers : AuditStart(w, h)) \/ UNCHANGED auditVars
BY DEF PlanningNext, planningVars, CategoryRequest, ExpenseRequest, BudgetRequest, TransferRequest, GoalRequest,
       ReportRequest, WriteRequest, CategoryStep, BudgetStep, GoalStep, ReportSteps, AuditSteps, Delivers, Device,
       NewMonth, Later, Restart, Idle, services

\* Planning's specification keeps the audit's invariant.
THEOREM AuditInvariant == PlanningSpec => []AuditInv
<1>1. PlanningInit => AuditInv
    BY AuditStarts DEF PlanningInit
<1>2. AuditInv /\ [PlanningNext]_planningVars => AuditInv'
    <2>1. SUFFICES ASSUME AuditInv, PlanningNext \/ UNCHANGED planningVars
                   PROVE  AuditInv'
        OBVIOUS
    <2>2. CASE UNCHANGED auditVars
        BY <2>1, <2>2 DEF auditVars, AuditInv, AuditTypes, WritersFit, OneCarrier, LoadsCurrent, RecordSound,
                          WaitsForStored, CarriedIsTold, LoggedIsCarried, RestIsTold, EntryChains, Carries, Tells,
                          Waits, Busy, Pc, Op
    <2>. QED BY <2>1, <2>2, AuditAlone, AuditStepKeeps
<1>. QED BY <1>1, <1>2, PTL DEF PlanningSpec

\* Read from its first entry to its last, the log of a record is its history, except
\* after one of the events the audit cannot see (LogCanBeReplayed, Audit.tla).
THEOREM LogReplayed == PlanningSpec => []LogCanBeReplayed
BY AuditInvariant, AuditSound, PTL

-----------------------------------------------------------------------------
(* The notifications *)

\* How far a listener got: whoever has a notification is concerned, and whoever is
\* concerned has one or is still to come; only a delivery on every channel has more
\* to do for a member, or breaks, and it stores the notification before.
DeliveryFields == {"pc", "left", "to", "subs", "sent", "note"}

Goes(e, d) ==
    /\ DOMAIN d = DeliveryFields /\ d.pc \in {"next", "mail", "push", "broken", "lost"}
    /\ d.note = [u \in Members |-> d.note[u]]
    /\ \A u \in Members : d.note[u] # {} => Concerns(e, u)
    /\ d.pc \in {"next", "mail", "push"} => \A u \in Members : Concerns(e, u) => d.note[u] # {} \/ u \in d.left
    /\ d.pc \in {"mail", "push"} => d.to \in Members /\ d.note[d.to] # {}
    /\ d.pc \in {"mail", "push", "broken"} => Everywhere(e.kind)
    /\ d.pc = "broken" => gone # {}

NotificationsInv ==
    /\ delivery = [e \in DOMAIN delivery |-> delivery[e]]
    /\ \A e \in DOMAIN delivery : Goes(e, delivery[e])

\* A listener takes a step.
LEMMA StepTells ==
    ASSUME NotificationsInv, NEW e \in DOMAIN delivery, NEW d, Goes(e, d), Step(e, d), UNCHANGED gone
    PROVE  NotificationsInv'
<1>1. delivery' = [x \in DOMAIN delivery |-> IF x = e THEN d ELSE delivery[x]]
    BY DEF NotificationsInv, Step
<1>2. DOMAIN delivery' = DOMAIN delivery /\ delivery' = [x \in DOMAIN delivery' |-> delivery'[x]]
    BY <1>1
<1>3. \A x \in DOMAIN delivery' : Goes(x, delivery'[x])
    BY <1>1, <1>2 DEF NotificationsInv
<1>4. \A x, y : Goes(x, y)' <=> Goes(x, y)
    BY DEF Goes, Concerns, Everywhere
<1>. QED BY Zenon, <1>2, <1>3, <1>4 DEF NotificationsInv

\* Events are emitted.
LEMMA RaiseTells ==
    ASSUME NotificationsInv, NEW events, Raise(events), UNCHANGED gone
    PROVE  NotificationsInv'
<1>1. delivery' = [e \in DOMAIN delivery \cup events |-> IF e \in events THEN Begun(e.kind) ELSE delivery[e]]
    BY DEF Raise
<1>2. delivery' = [x \in DOMAIN delivery' |-> delivery'[x]]
    BY <1>1
<1>3. ASSUME NEW e
      PROVE  Goes(e, Begun(e.kind))
    <2>. PICK d : d = Begun(e.kind)
        OBVIOUS
    <2>1. /\ DOMAIN d = DeliveryFields /\ d.pc = "next" /\ d.note = [u \in Members |-> {}]
          /\ d.left = IF e.kind = "REPORT_READY" THEN {Requester} ELSE Members
        BY DEF Begun, DeliveryFields
    <2>2. Goes(e, d)
        BY <2>1 DEF Goes, Concerns
    <2>. QED BY <2>2
<1>4. \A x \in DOMAIN delivery' : Goes(x, delivery'[x])
    BY <1>1, <1>3 DEF NotificationsInv
<1>5. \A x, y : Goes(x, y)' <=> Goes(x, y)
    BY DEF Goes, Concerns, Everywhere
<1>. QED BY Zenon, <1>2, <1>4, <1>5 DEF NotificationsInv

\* A listener's step, and the end of the process.
LEMMA DeliveryStepKeeps ==
    ASSUME NotificationsInv, DeliveryStep
    PROVE  NotificationsInv'
<1>1. PICK e \in DOMAIN delivery :
        \/ SendEmail(e) \/ Sent(e)
        \/ \E u \in Members : Skip(e, u) \/ Persist(e, u)
        \/ \E p \in Endpoints : SendPush(e, p)
    BY DEF DeliveryStep
<1>2. PICK c : c = delivery[e]
    OBVIOUS
<1>3. Goes(e, c)
    BY <1>2 DEF NotificationsInv
<1>4. CASE SendEmail(e)
    <2>1. PICK mail \in {{}, {"EMAIL"}} :
            Step(e, [c EXCEPT !.pc = "push", !.sent = mail, !.subs = {p \in Endpoints : push[p] = c.to}])
        BY <1>2, <1>4 DEF SendEmail
    <2>2. c.pc = "mail" /\ UNCHANGED gone
        BY <1>2, <1>4 DEF SendEmail, On
    <2>. DEFINE d == [c EXCEPT !.pc = "push", !.sent = mail, !.subs = {p \in Endpoints : push[p] = c.to}]
    <2>3. DOMAIN d = DeliveryFields /\ d.pc = "push" /\ d.note = c.note /\ d.left = c.left /\ d.to = c.to
        BY <1>3 DEF Goes, DeliveryFields
    <2>4. Step(e, d)
        BY <2>1
    <2>. HIDE DEF d
    <2>5. Goes(e, d)
        BY <1>3, <2>2, <2>3 DEF Goes
    <2>. QED BY <2>2, <2>4, <2>5, StepTells
<1>5. CASE Sent(e)
    <2>. DEFINE d == [c EXCEPT !.pc = "next", !.left = c.left \ {c.to}, !.to = Nobody, !.sent = {},
                               !.note = [c.note EXCEPT ![c.to] = c.note[c.to] \cup c.sent]]
    <2>1. c.pc = "push" /\ UNCHANGED gone
        BY <1>2, <1>5 DEF Sent, On
    <2>2. /\ DOMAIN d = DeliveryFields /\ d.pc = "next" /\ d.left = c.left \ {c.to}
          /\ d.note = [c.note EXCEPT ![c.to] = c.note[c.to] \cup c.sent]
        BY <1>3 DEF Goes, DeliveryFields
    <2>3. Step(e, d)
        BY <1>2, <1>5 DEF Sent
    <2>. HIDE DEF d
    <2>4. /\ d.note = [u \in Members |-> d.note[u]]
          /\ \A u \in Members : d.note[u] = IF u = c.to THEN c.note[u] \cup c.sent ELSE c.note[u]
        BY <1>3, <2>2 DEF Goes
    <2>5. Goes(e, d)
        BY <1>3, <2>1, <2>2, <2>4 DEF Goes
    <2>. QED BY <2>1, <2>3, <2>5, StepTells
<1>6. ASSUME NEW u \in Members, Skip(e, u)
      PROVE  NotificationsInv'
    <2>. DEFINE d == [c EXCEPT !.left = LeftAfter(e, u)]
    <2>1. c.pc = "next" /\ ~Concerns(e, u) /\ Step(e, d) /\ UNCHANGED gone
        BY <1>2, <1>6 DEF Skip, On
    <2>2. /\ DOMAIN d = DeliveryFields /\ d.pc = "next" /\ d.left = c.left \ {u} /\ d.note = c.note
        BY <1>2, <1>3, <2>1 DEF Goes, DeliveryFields, LeftAfter
    <2>. HIDE DEF d
    <2>3. Goes(e, d)
        BY <1>3, <2>1, <2>2 DEF Goes
    <2>. QED BY <2>1, <2>3, StepTells
<1>7. ASSUME NEW u \in Members, Persist(e, u)
      PROVE  NotificationsInv'
    <2>. DEFINE b == [c EXCEPT !.note = [c.note EXCEPT ![u] = {"IN_APP"}]]
                d == [b EXCEPT !.pc = "mail", !.to = u]
                n == [b EXCEPT !.left = b.left \ {u}]
    <2>1. c.pc = "next" /\ Concerns(e, u) /\ UNCHANGED gone
        BY <1>2, <1>7 DEF Persist, On
    <2>2. Step(e, IF Everywhere(e.kind) THEN d ELSE n)
        BY <1>2, <1>7 DEF Persist
    <2>3. PICK note : note = [c.note EXCEPT ![u] = {"IN_APP"}]
        OBVIOUS
    <2>4. /\ DOMAIN d = DeliveryFields /\ d.pc = "mail" /\ d.to = u /\ d.left = c.left /\ d.note = note
          /\ DOMAIN n = DeliveryFields /\ n.pc = c.pc /\ n.left = c.left \ {u} /\ n.note = note
        BY <1>3, <2>3 DEF Goes, DeliveryFields
    <2>. HIDE DEF b, d, n
    <2>5. /\ note = [x \in Members |-> note[x]]
          /\ \A x \in Members : note[x] = IF x = u THEN {"IN_APP"} ELSE c.note[x]
        BY <1>3, <2>3 DEF Goes
    <2>6. (Everywhere(e.kind) => Goes(e, d)) /\ Goes(e, n)
        BY <1>3, <2>1, <2>4, <2>5 DEF Goes
    <2>. QED BY <2>1, <2>2, <2>6, StepTells
<1>8. ASSUME NEW p \in Endpoints, SendPush(e, p)
      PROVE  NotificationsInv'
    <2>. DEFINE b == [c EXCEPT !.subs = c.subs \ {p}]
                x == [b EXCEPT !.pc = "broken"]
    <2>1. c.pc = "push" /\ UNCHANGED gone
        BY <1>2, <1>8 DEF SendPush, On
    <2>2. \/ \E ok \in {{}, {"WEB_PUSH"}} : Step(e, [b EXCEPT !.sent = b.sent \cup ok])
          \/ Step(e, b)
          \/ Step(e, x) /\ p \in gone
        BY <1>2, <1>8 DEF SendPush
    <2>3. DOMAIN b = DeliveryFields /\ b.pc = c.pc /\ b.left = c.left /\ b.note = c.note /\ b.to = c.to
        BY <1>3 DEF Goes, DeliveryFields
    <2>4. DOMAIN x = DeliveryFields /\ x.pc = "broken" /\ x.note = c.note
        BY <1>3 DEF Goes, DeliveryFields
    <2>5. ASSUME NEW ok, Step(e, [b EXCEPT !.sent = b.sent \cup ok])
          PROVE  NotificationsInv'
        <3>. DEFINE d == [b EXCEPT !.sent = b.sent \cup ok]
        <3>1. DOMAIN d = DeliveryFields /\ d.pc = c.pc /\ d.left = c.left /\ d.note = c.note /\ d.to = c.to
            BY <2>3 DEF DeliveryFields
        <3>2. Step(e, d)
            BY <2>5
        <3>. HIDE DEF b, d
        <3>3. Goes(e, d)
            BY <1>3, <2>1, <3>1 DEF Goes
        <3>. QED BY <2>1, <3>2, <3>3, StepTells
    <2>. HIDE DEF b, x
    <2>6. Goes(e, b) /\ (p \in gone => Goes(e, x))
        BY <1>3, <2>1, <2>3, <2>4 DEF Goes
    <2>. QED BY <2>1, <2>2, <2>5, <2>6, StepTells
<1>. QED BY <1>1, <1>4, <1>5, <1>6, <1>7, <1>8

\* What a restart leaves of the deliveries.
LEMMA InterruptedKeeps ==
    ASSUME NotificationsInv, delivery' = Interrupted, UNCHANGED gone
    PROVE  NotificationsInv'
<1>1. /\ DOMAIN delivery' = DOMAIN delivery /\ delivery' = [e \in DOMAIN delivery' |-> delivery'[e]]
      /\ \A e \in DOMAIN delivery : delivery'[e] = delivery[e] \/
            delivery'[e] = [Begun(e.kind) EXCEPT !.pc = "lost", !.left = {}, !.note = delivery[e].note]
    BY DEF Interrupted
<1>2. ASSUME NEW e \in DOMAIN delivery
      PROVE  Goes(e, delivery'[e])
    <2>1. PICK c : c = delivery[e]
        OBVIOUS
    <2>2. Goes(e, c)
        BY <2>1 DEF NotificationsInv
    <2>. DEFINE d == [Begun(e.kind) EXCEPT !.pc = "lost", !.left = {}, !.note = c.note]
    <2>3. DOMAIN d = DeliveryFields /\ d.pc = "lost" /\ d.note = c.note
        BY DEF Begun, DeliveryFields
    <2>4. delivery'[e] = c \/ delivery'[e] = d
        BY <1>1, <2>1
    <2>. HIDE DEF d
    <2>5. Goes(e, d)
        BY <2>2, <2>3 DEF Goes
    <2>. QED BY <2>2, <2>4, <2>5
<1>3. \A x, y : Goes(x, y)' <=> Goes(x, y)
    BY DEF Goes, Concerns, Everywhere
<1>. QED BY Zenon, <1>1, <1>2, <1>3 DEF NotificationsInv

\* The deliveries as they are, while the browsers change.
LEMMA DevicesKeep ==
    ASSUME NotificationsInv, UNCHANGED delivery, gone # {} => gone' # {}
    PROVE  NotificationsInv'
<1>1. \A x, y : Goes(x, y) => Goes(x, y)'
    BY DEF Goes, Concerns, Everywhere
<1>. QED BY Zenon, <1>1 DEF NotificationsInv

\* Where the steps of the household meet the deliveries.
LEMMA DeliveriesMeet ==
    ASSUME PlanningNext \/ UNCHANGED planningVars
    PROVE  \/ UNCHANGED delivery /\ (gone # {} => gone' # {})
           \/ (DeliveryStep \/ delivery' = Interrupted \/ \E events : Raise(events)) /\ UNCHANGED gone
<1>1. CASE UNCHANGED notificationVars
    BY <1>1 DEF notificationVars
<1>2. CASE BudgetStep
    <2>1. UNCHANGED gone /\ (UNCHANGED delivery \/ \E r \in Spenders : SpendEmit(r))
        BY <1>2 DEF BudgetStep
    <2>2. ASSUME NEW r \in Spenders, SpendEmit(r)
          PROVE  \E events : Raise(events)
        BY <2>2 DEF SpendEmit
    <2>. QED BY <2>1, <2>2
<1>3. CASE GoalStep
    <2>1. UNCHANGED gone /\ (UNCHANGED delivery \/ \E r \in Savers, g \in Goals : CheckWrite(r, g))
        BY <1>3 DEF GoalStep
    <2>2. ASSUME NEW r \in Savers, NEW g \in Goals, CheckWrite(r, g)
          PROVE  UNCHANGED delivery \/ \E events : Raise(events)
        BY <2>2 DEF CheckWrite
    <2>. QED BY <2>1, <2>2
<1>4. CASE ReportSteps
    <2>1. UNCHANGED gone /\ (UNCHANGED delivery \/ \E g \in Generators : EmitReady(g))
        BY <1>4 DEF ReportSteps
    <2>2. ASSUME NEW g \in Generators, EmitReady(g)
          PROVE  \E events : Raise(events)
        BY <2>2 DEF EmitReady
    <2>. QED BY <2>1, <2>2
<1>5. CASE Delivers
    BY <1>5 DEF Delivers, DeliveryStep, SendEmail, Sent, Skip, Persist, SendPush
<1>6. CASE Device
    BY <1>6 DEF Device, DeviceStep, EndpointDies, Unsubscribe, Subscribe
<1>7. CASE Restart
    BY <1>7 DEF Restart
<1>8. \/ UNCHANGED notificationVars \/ BudgetStep \/ GoalStep \/ ReportSteps \/ Delivers \/ Device \/ Restart
    BY DEF PlanningNext, planningVars, CategoryRequest, ExpenseRequest, BudgetRequest, TransferRequest, GoalRequest,
           ReportRequest, WriteRequest, CategoryStep, AuditSteps, NewMonth, Later, Idle
<1>. QED BY <1>1, <1>2, <1>3, <1>4, <1>5, <1>6, <1>7, <1>8

\* Planning's specification keeps the notifications' invariant.
THEOREM NotificationsInvariant == PlanningSpec => []NotificationsInv
<1>1. PlanningInit => NotificationsInv
    <2>1. PlanningInit => delivery = << >>
        BY DEF PlanningInit, NotificationsInit
    <2>. QED BY <2>1 DEF NotificationsInv
<1>2. NotificationsInv /\ [PlanningNext]_planningVars => NotificationsInv'
    BY DeliveriesMeet, DeliveryStepKeeps, InterruptedKeeps, DevicesKeep, RaiseTells
<1>. QED BY <1>1, <1>2, PTL DEF PlanningSpec

\* A fan-out that is done has told everyone it concerns and nobody else, and one that
\* broke lost only what a vanished subscription can cost (EveryoneToldUnlessBroken,
\* Notifications.tla).
THEOREM EveryoneTold == PlanningSpec => []EveryoneToldUnlessBroken
<1>1. NotificationsInv => EveryoneToldUnlessBroken
    BY DEF NotificationsInv, Goes, EveryoneToldUnlessBroken, Done, On, Told
<1>. QED BY <1>1, NotificationsInvariant, PTL

-----------------------------------------------------------------------------
(* The reports *)

\* A run that has claimed its report works on it alone, before anything is announced;
\* a report that is not READY has no term and no announcement, and one whose term is
\* valid is whole.
RowFields == {"status", "old", "path", "term"}
RunFits(r) ==
    \/ r = NoRun
    \/ /\ DOMAIN r = {"pc", "of", "notify"} /\ r.of \in Reports
       /\ r.pc \in {"claiming", "building", "writing", "written", "emitting"}

RunsFit == generator = [g \in Generators |-> generator[g]] /\ \A g \in Generators : RunFits(generator[g])
RowsFit == report = [x \in Reports |-> report[x]] /\ \A x \in Reports : DOMAIN report[x] = RowFields
FilesFit == file = [x \in Reports |-> file[x]]

Active(g, x) == generator[g].pc \in {"building", "writing", "written", "emitting"} /\ generator[g].of = x
Announced(x) == Same("REPORT_READY", x)

OneActive(x) == \A g, h \in Generators : Active(g, x) /\ Active(h, x) => g = h
ActiveFirst(x) ==
    \A g \in Generators : Active(g, x) =>
        /\ Announced(x) = {}
        /\ generator[g].pc = "emitting" => report[x].status = "READY"
        /\ generator[g].pc # "emitting" => report[x].status \in Pending
        /\ generator[g].pc = "writing" => file[x] = "partial"
        /\ generator[g].pc = "written" => file[x] = "whole"
TermSound(x) ==
    /\ report[x].status # "READY" => report[x].term = "none" /\ Announced(x) = {}
    /\ <<x, "file">> \in expiring => report[x].term = "past"
    /\ report[x].status = "READY" /\ report[x].term = "valid" => file[x] = "whole"
    /\ Announced(x) = {} \/ \E e : Announced(x) = {e}

ReportsInv ==
    /\ RunsFit /\ RowsFit /\ FilesFit
    /\ \A x \in Reports \ overlapped : OneActive(x) /\ ActiveFirst(x) /\ TermSound(x)

\* A run goes on.
LEMMA RunGoes ==
    ASSUME RunsFit, NEW g \in Generators, generator[g].pc # "idle", NEW pc, GenGoes(g, pc),
           pc \in {"claiming", "building", "writing", "written", "emitting"}
    PROVE  /\ RunsFit' /\ generator'[g].pc = pc /\ generator'[g].of = generator[g].of /\ generator[g].of \in Reports
           /\ \A h \in Generators : h # g => generator'[h] = generator[h]
<1>1. generator' = [h \in Generators |-> IF h = g THEN [generator[g] EXCEPT !.pc = pc] ELSE generator[h]]
    BY DEF RunsFit, GenGoes
<1>2. DOMAIN generator[g] = {"pc", "of", "notify"} /\ generator[g].of \in Reports
    BY DEF RunsFit, RunFits, NoRun
<1>. DEFINE r == [generator[g] EXCEPT !.pc = pc]
<1>3. DOMAIN r = {"pc", "of", "notify"} /\ r.pc = pc /\ r.of = generator[g].of
    BY <1>2
<1>4. generator'[g] = r /\ \A h \in Generators : h # g => generator'[h] = generator[h]
    BY <1>1
<1>5. generator' = [h \in Generators |-> generator'[h]]
    BY <1>1
<1>. HIDE DEF r
<1>6. RunFits(r)
    BY <1>2, <1>3 DEF RunFits
<1>7. \A h \in Generators : RunFits(generator'[h])
    BY <1>4, <1>6 DEF RunsFit
<1>. QED BY <1>2, <1>3, <1>4, <1>5, <1>7 DEF RunsFit

\* A run ends.
LEMMA RunEnds ==
    ASSUME RunsFit, NEW g \in Generators, GenEnds(g)
    PROVE  RunsFit' /\ generator'[g] = NoRun /\ \A h \in Generators : h # g => generator'[h] = generator[h]
<1>1. generator' = [h \in Generators |-> IF h = g THEN NoRun ELSE generator[h]]
    BY DEF RunsFit, GenEnds
<1>2. generator' = [h \in Generators |-> generator'[h]] /\ \A h \in Generators : RunFits(generator'[h])
    BY <1>1 DEF RunsFit, RunFits
<1>. QED BY <1>1, <1>2 DEF RunsFit

\* A row changes its status.
LEMMA StatusWritten ==
    ASSUME RowsFit, NEW x \in Reports, NEW s, report' = [report EXCEPT ![x].status = s]
    PROVE  /\ RowsFit' /\ report'[x].status = s /\ report'[x].term = report[x].term
           /\ \A y \in Reports : y # x => report'[y] = report[y]
<1>. DEFINE r == [report[x] EXCEPT !.status = s]
<1>1. report' = [y \in Reports |-> IF y = x THEN r ELSE report[y]]
    BY DEF RowsFit
<1>2. DOMAIN r = RowFields /\ r.status = s /\ r.term = report[x].term
    BY DEF RowsFit, RowFields
<1>3. report'[x] = r /\ \A y \in Reports : y # x => report'[y] = report[y]
    BY <1>1
<1>4. report' = [y \in Reports |-> report'[y]]
    BY <1>1
<1>. HIDE DEF r
<1>5. \A y \in Reports : DOMAIN report'[y] = RowFields
    BY <1>2, <1>3 DEF RowsFit
<1>. QED BY <1>2, <1>3, <1>4, <1>5 DEF RowsFit

\* Nothing of a report changes but what other runs do.
LEMMA ReportUntouched ==
    ASSUME NEW x, OneActive(x), ActiveFirst(x), TermSound(x),
           report'[x] = report[x], file'[x] = file[x], Announced(x)' = Announced(x),
           <<x, "file">> \in expiring' => <<x, "file">> \in expiring,
           \A g \in Generators : Active(g, x)' => Active(g, x) /\ generator'[g].pc = generator[g].pc
    PROVE  OneActive(x)' /\ ActiveFirst(x)' /\ TermSound(x)'
<1>1. OneActive(x)'
    BY DEF OneActive
<1>2. ActiveFirst(x)'
    BY DEF ActiveFirst
<1>3. TermSound(x)'
    BY DEF TermSound
<1>. QED BY <1>1, <1>2, <1>3

\* No announcement is lost or added while no event is raised.
LEMMA AnnouncedKept ==
    ASSUME DOMAIN delivery' = DOMAIN delivery
    PROVE  \A x : Announced(x)' = Announced(x)
BY DEF Announced, Same

\* A run takes its report, unless the row is settled.
LEMMA ClaimKeeps ==
    ASSUME ReportsInv, NEW g \in Generators, Claim(g), UNCHANGED delivery
    PROVE  ReportsInv'
<1>1. RunsFit /\ RowsFit /\ FilesFit /\ \A y \in Reports \ overlapped : OneActive(y) /\ ActiveFirst(y) /\ TermSound(y)
    BY DEF ReportsInv
<1>2. PICK x : x = generator[g].of
    OBVIOUS
<1>3. generator[g].pc = "claiming" /\ UNCHANGED <<file, stuck, expiring>>
    BY DEF Claim, AtGen, Jobs
<1>4. FilesFit' /\ \A y : Announced(y)' = Announced(y)
    BY <1>1, <1>3, AnnouncedKept DEF FilesFit
<1>5. CASE ~Claimable(x)
    <2>1. GenEnds(g) /\ UNCHANGED <<report, overlapped>>
        BY <1>2, <1>5 DEF Claim
    <2>2. RunsFit' /\ generator'[g] = NoRun /\ \A h \in Generators : h # g => generator'[h] = generator[h]
        BY <1>1, <2>1, RunEnds
    <2>3. RowsFit'
        BY <1>1, <2>1 DEF RowsFit
    <2>4. \A y, h : h \in Generators /\ Active(h, y)' => Active(h, y) /\ generator'[h].pc = generator[h].pc
        BY <2>2 DEF Active, NoRun
    <2>5. \A y \in Reports \ overlapped' : OneActive(y)' /\ ActiveFirst(y)' /\ TermSound(y)'
        BY <1>1, <1>3, <1>4, <2>1, <2>4, ReportUntouched
    <2>. QED BY Zenon, <1>4, <2>2, <2>3, <2>5 DEF ReportsInv
<1>6. CASE Claimable(x)
    <2>1. /\ GenGoes(g, "building") /\ report' = [report EXCEPT ![x].status = "PROCESSING"]
          /\ overlapped' = IF \E h \in RunsOf(x) \ {g} : ~AtGen(h, "claiming") THEN overlapped \cup {x} ELSE overlapped
        BY <1>2, <1>6 DEF Claim
    <2>2. /\ RunsFit' /\ generator'[g].pc = "building" /\ generator'[g].of = x /\ x \in Reports
          /\ \A h \in Generators : h # g => generator'[h] = generator[h]
        BY <1>1, <1>2, <1>3, <2>1, RunGoes
    <2>3. /\ RowsFit' /\ report'[x].status = "PROCESSING" /\ report'[x].term = report[x].term
          /\ \A y \in Reports : y # x => report'[y] = report[y]
        BY <1>1, <2>1, <2>2, StatusWritten
    <2>4. ASSUME NEW y \in Reports \ overlapped'
          PROVE  OneActive(y)' /\ ActiveFirst(y)' /\ TermSound(y)'
        <3>1. y \in Reports \ overlapped /\ OneActive(y) /\ ActiveFirst(y) /\ TermSound(y)
            BY <1>1, <2>1, <2>4
        <3>2. CASE y # x
            <4>1. \A h \in Generators : Active(h, y)' => Active(h, y) /\ generator'[h].pc = generator[h].pc
                BY <2>2, <3>2 DEF Active
            <4>. QED BY <1>3, <1>4, <2>3, <3>1, <3>2, <4>1, ReportUntouched
        <3>3. CASE y = x
            <4>1. \A h \in Generators : h # g => ~Active(h, x)
                BY <2>1, <2>4, <3>3 DEF Active, RunsOf, AtGen
            <4>2. \A h \in Generators : Active(h, x)' <=> h = g
                BY <2>2, <4>1 DEF Active
            <4>3. report[x].status \in Pending
                BY <1>6 DEF Claimable
            <4>4. report[x].term = "none" /\ Announced(x) = {}
                BY <3>1, <3>3, <4>3 DEF TermSound, Pending
            <4>5. OneActive(x)'
                BY <4>2 DEF OneActive
            <4>6. ActiveFirst(x)'
                BY <1>4, <2>2, <2>3, <4>2, <4>4 DEF ActiveFirst, Pending
            <4>7. TermSound(x)'
                BY <1>3, <1>4, <2>3, <3>1, <3>3, <4>4 DEF TermSound
            <4>. QED BY <3>3, <4>5, <4>6, <4>7
        <3>. QED BY <3>2, <3>3
    <2>. QED BY Zenon, <1>4, <2>2, <2>3, <2>4 DEF ReportsInv
<1>. QED BY <1>5, <1>6

\* A run writes the file.
LEMMA FilesKeep ==
    ASSUME ReportsInv, NEW g \in Generators, StartFile(g) \/ EndFile(g), UNCHANGED delivery
    PROVE  ReportsInv'
<1>1. RunsFit /\ RowsFit /\ FilesFit /\ \A y \in Reports \ overlapped : OneActive(y) /\ ActiveFirst(y) /\ TermSound(y)
    BY DEF ReportsInv
<1>2. PICK x : x = generator[g].of
    OBVIOUS
<1>3. UNCHANGED <<report, stuck, expiring, overlapped>>
    BY DEF StartFile, EndFile, Jobs
<1>4. RowsFit' /\ \A y : Announced(y)' = Announced(y)
    BY <1>1, <1>3, AnnouncedKept DEF RowsFit
<1>5. PICK pc \in {"writing", "written"} : /\ GenGoes(g, pc)
                                           /\ pc = "writing" => generator[g].pc = "building" /\ StartFile(g)
                                           /\ pc = "written" => generator[g].pc = "writing" /\ EndFile(g)
    BY DEF StartFile, EndFile, AtGen
<1>6. /\ RunsFit' /\ generator'[g].pc = pc /\ generator'[g].of = x /\ x \in Reports
      /\ \A h \in Generators : h # g => generator'[h] = generator[h]
    BY <1>1, <1>2, <1>5, RunGoes
<1>7. FilesFit' /\ \A y \in Reports : y # x => file'[y] = file[y]
    BY <1>1, <1>2, <1>6 DEF FilesFit, StartFile, EndFile
<1>8. ASSUME NEW y \in Reports \ overlapped'
      PROVE  OneActive(y)' /\ ActiveFirst(y)' /\ TermSound(y)'
    <2>1. OneActive(y) /\ ActiveFirst(y) /\ TermSound(y)
        BY <1>1, <1>3, <1>8
    <2>2. CASE y # x
        <3>1. \A h \in Generators : Active(h, y)' => Active(h, y) /\ generator'[h].pc = generator[h].pc
            BY <1>6, <2>2 DEF Active
        <3>. QED BY <1>3, <1>4, <1>7, <2>1, <2>2, <3>1, ReportUntouched
    <2>3. CASE y = x
        <3>1. Active(g, x) /\ \A h \in Generators : Active(h, x) <=> h = g
            BY <1>2, <1>5, <2>1, <2>3 DEF Active, OneActive
        <3>2. \A h \in Generators : Active(h, x)' <=> h = g
            BY <1>5, <1>6, <3>1 DEF Active
        <3>3. report[x].status \in Pending /\ Announced(x) = {} /\ (pc = "written" => file[x] = "partial")
            BY <1>5, <2>1, <2>3, <3>1 DEF ActiveFirst
        <3>4. file'[x] = IF pc = "writing" THEN "partial" ELSE "whole"
            <4>1. CASE pc = "writing"
                BY <1>1, <1>2, <1>5, <1>6, <4>1 DEF FilesFit, StartFile
            <4>2. CASE pc = "written"
                <5>1. Writing(x) = {g}
                    BY <1>2, <1>5, <3>1, <4>2 DEF Writing, RunsOf, Active
                <5>. QED BY <1>1, <1>2, <1>5, <1>6, <3>3, <4>2, <5>1 DEF FilesFit, EndFile
            <4>. QED BY <4>1, <4>2
        <3>5. OneActive(x)'
            BY <3>2 DEF OneActive
        <3>6. ActiveFirst(x)'
            BY <1>3, <1>4, <1>5, <1>6, <3>2, <3>3, <3>4 DEF ActiveFirst
        <3>7. TermSound(x)'
            BY <1>3, <1>4, <2>1, <2>3, <3>3 DEF TermSound, Pending
        <3>. QED BY <2>3, <3>5, <3>6, <3>7
    <2>. QED BY <2>2, <2>3
<1>. QED BY Zenon, <1>4, <1>6, <1>7, <1>8 DEF ReportsInv

\* A run ends with a report that is READY or FAILED.
LEMMA EndingsKeep ==
    ASSUME ReportsInv, NEW g \in Generators, Ready(g) \/ ReportFails(g), UNCHANGED delivery
    PROVE  ReportsInv'
<1>1. RunsFit /\ RowsFit /\ FilesFit /\ \A y \in Reports \ overlapped : OneActive(y) /\ ActiveFirst(y) /\ TermSound(y)
    BY DEF ReportsInv
<1>2. PICK x : x = generator[g].of
    OBVIOUS
<1>3. /\ UNCHANGED <<file, stuck, expiring, overlapped>> /\ generator[g].pc \in {"building", "writing", "written"}
      /\ Ready(g) => generator[g].pc = "written"
    BY DEF Ready, ReportFails, AtGen, Jobs
<1>4. FilesFit' /\ \A y : Announced(y)' = Announced(y)
    BY <1>1, <1>3, AnnouncedKept DEF FilesFit
<1>5. /\ RunsFit' /\ (generator'[g] = NoRun \/ (generator'[g].pc = "emitting" /\ generator'[g].of = x /\ Ready(g)))
      /\ \A h \in Generators : h # g => generator'[h] = generator[h]
    <2>1. CASE GenEnds(g)
        BY <1>1, <2>1, RunEnds
    <2>2. CASE Ready(g) /\ GenGoes(g, "emitting")
        BY <1>1, <1>2, <1>3, <2>2, RunGoes
    <2>. QED BY <2>1, <2>2 DEF Ready, ReportFails
<1>6. x \in Reports
    BY <1>1, <1>2, <1>3 DEF RunsFit, RunFits, NoRun
<1>7. /\ RowsFit' /\ \A y \in Reports : y # x => report'[y] = report[y]
      /\ Ready(g) => report'[x].status = "READY" /\ report'[x].term = "valid"
      /\ ~Ready(g) => report'[x].status = "FAILED" /\ report'[x].term = report[x].term
    <2>1. CASE Ready(g)
        <3>. DEFINE r == [report[x] EXCEPT !.status = "READY", !.path = TRUE, !.term = "valid"]
        <3>1. report' = [report EXCEPT ![x] = r]
            BY <1>1, <1>2, <1>6, <2>1 DEF Ready, RowsFit
        <3>2. DOMAIN r = RowFields /\ r.status = "READY" /\ r.term = "valid"
            BY <1>1, <1>6 DEF RowsFit, RowFields
        <3>. HIDE DEF r
        <3>. QED BY <1>1, <1>6, <2>1, <3>1, <3>2 DEF RowsFit
    <2>2. CASE ~Ready(g)
        <3>1. report' = [report EXCEPT ![x].status = "FAILED"]
            BY <1>2, <2>2 DEF ReportFails
        <3>. QED BY <1>1, <1>6, <2>2, <3>1, StatusWritten
    <2>. QED BY <2>1, <2>2
<1>8. ASSUME NEW y \in Reports \ overlapped'
      PROVE  OneActive(y)' /\ ActiveFirst(y)' /\ TermSound(y)'
    <2>1. OneActive(y) /\ ActiveFirst(y) /\ TermSound(y)
        BY <1>1, <1>3, <1>8
    <2>2. CASE y # x
        <3>1. \A h \in Generators : Active(h, y)' => Active(h, y) /\ generator'[h].pc = generator[h].pc
            BY <1>5, <2>2 DEF Active, NoRun
        <3>. QED BY <1>3, <1>4, <1>7, <2>1, <2>2, <3>1, ReportUntouched
    <2>3. CASE y = x
        <3>1. Active(g, x) /\ \A h \in Generators : Active(h, x) => h = g
            BY <1>2, <1>3, <2>1, <2>3 DEF Active, OneActive
        <3>2. \A h \in Generators : Active(h, x)' => h = g /\ generator'[h].pc = "emitting" /\ Ready(g)
            BY <1>5, <3>1 DEF Active, NoRun
        <3>3. report[x].status \in Pending /\ Announced(x) = {} /\ (Ready(g) => file[x] = "whole")
            BY <1>3, <2>1, <2>3, <3>1 DEF ActiveFirst
        <3>4. report[x].term = "none" /\ <<x, "file">> \notin expiring
            BY <2>1, <2>3, <3>3 DEF TermSound, Pending
        <3>5. OneActive(x)'
            BY <3>2 DEF OneActive
        <3>6. ActiveFirst(x)'
            BY <1>4, <1>7, <3>2, <3>3 DEF ActiveFirst
        <3>7. TermSound(x)'
            BY <1>3, <1>4, <1>7, <3>3, <3>4 DEF TermSound
        <3>. QED BY <2>3, <3>5, <3>6, <3>7
    <2>. QED BY <2>2, <2>3
<1>. QED BY Zenon, <1>4, <1>5, <1>7, <1>8 DEF ReportsInv

\* A report is announced.
LEMMA EmitKeeps ==
    ASSUME ReportsInv, NEW g \in Generators, EmitReady(g)
    PROVE  ReportsInv'
<1>1. RunsFit /\ RowsFit /\ FilesFit /\ \A y \in Reports \ overlapped : OneActive(y) /\ ActiveFirst(y) /\ TermSound(y)
    BY DEF ReportsInv
<1>2. PICK x : x = generator[g].of
    OBVIOUS
<1>3. /\ UNCHANGED <<report, file, stuck, expiring, overlapped>> /\ generator[g].pc = "emitting" /\ GenEnds(g)
      /\ Raise(Events("REPORT_READY", {x}))
    BY <1>2 DEF EmitReady, AtGen, Jobs
<1>4. RunsFit' /\ generator'[g] = NoRun /\ \A h \in Generators : h # g => generator'[h] = generator[h]
    BY <1>1, <1>3, RunEnds
<1>5. FilesFit' /\ RowsFit'
    BY <1>1, <1>3 DEF FilesFit, RowsFit
<1>6. PICK e : Events("REPORT_READY", {x}) = {e} /\ e.kind = "REPORT_READY" /\ e.about = x
    <2>. DEFINE e == [kind |-> "REPORT_READY", about |-> x, nth |-> Cardinality(Same("REPORT_READY", x)) + 1]
    <2>1. Events("REPORT_READY", {x}) = {e} /\ e.kind = "REPORT_READY" /\ e.about = x
        BY DEF Events
    <2>. QED BY <2>1
<1>7. Announced(x)' = Announced(x) \cup {e} /\ \A y : y # x => Announced(y)' = Announced(y)
    <2>1. DOMAIN delivery' = DOMAIN delivery \cup {e}
        BY <1>3, <1>6 DEF Raise
    <2>. QED BY <1>6, <2>1 DEF Announced, Same
<1>8. ASSUME NEW y \in Reports \ overlapped'
      PROVE  OneActive(y)' /\ ActiveFirst(y)' /\ TermSound(y)'
    <2>1. OneActive(y) /\ ActiveFirst(y) /\ TermSound(y)
        BY <1>1, <1>3, <1>8
    <2>2. \A h \in Generators : Active(h, y)' => Active(h, y) /\ generator'[h].pc = generator[h].pc
        BY <1>4 DEF Active, NoRun
    <2>3. CASE y # x
        BY <1>3, <1>7, <2>1, <2>2, <2>3, ReportUntouched
    <2>4. CASE y = x
        <3>1. Active(g, x) /\ \A h \in Generators : Active(h, x) => h = g
            BY <1>2, <1>3, <2>1, <2>4 DEF Active, OneActive
        <3>2. \A h \in Generators : ~Active(h, x)'
            BY <1>4, <2>2, <2>4, <3>1 DEF Active, NoRun
        <3>3. report[x].status = "READY" /\ Announced(x)' = {e}
            BY <1>3, <1>7, <2>1, <2>4, <3>1 DEF ActiveFirst
        <3>4. OneActive(x)' /\ ActiveFirst(x)'
            BY <3>2 DEF OneActive, ActiveFirst
        <3>5. TermSound(x)'
            BY <1>3, <2>1, <2>4, <3>3 DEF TermSound
        <3>. QED BY <2>4, <3>4, <3>5
    <2>. QED BY <2>3, <2>4
<1>. QED BY Zenon, <1>4, <1>5, <1>8 DEF ReportsInv

\* A report is asked for, or resumed.
LEMMA RequestsKeep ==
    ASSUME ReportsInv, NEW x \in Reports, NEW g \in Generators, UNCHANGED delivery,
           ResumeRow(x, g) \/ \E small \in BOOLEAN : ReportCreate(x, g, small)
    PROVE  ReportsInv'
<1>1. RunsFit /\ RowsFit /\ FilesFit /\ \A y \in Reports \ overlapped : OneActive(y) /\ ActiveFirst(y) /\ TermSound(y)
    BY DEF ReportsInv
<1>2. UNCHANGED <<file, expiring, overlapped>> /\ generator[g].pc = "idle"
    BY DEF ResumeRow, ReportCreate, AtGen, Jobs
<1>3. FilesFit' /\ \A y : Announced(y)' = Announced(y)
    BY <1>1, <1>2, AnnouncedKept DEF FilesFit
<1>4. PICK notify : generator' = [generator EXCEPT ![g] = Run("claiming", x, notify)]
    BY DEF ResumeRow, ReportCreate
<1>5. RunsFit' /\ generator'[g].pc = "claiming" /\ \A h \in Generators : h # g => generator'[h] = generator[h]
    <2>. PICK r : r = Run("claiming", x, notify)
        OBVIOUS
    <2>1. RunFits(r) /\ r.pc = "claiming"
        BY DEF Run, RunFits
    <2>2. generator' = [h \in Generators |-> IF h = g THEN r ELSE generator[h]]
        BY <1>1, <1>4 DEF RunsFit
    <2>3. generator' = [h \in Generators |-> generator'[h]]
        BY <2>2
    <2>. QED BY <1>1, <2>1, <2>2, <2>3 DEF RunsFit
<1>6. \/ UNCHANGED report
      \/ report' = [report EXCEPT ![x].status = "PENDING"] /\ report[x].status \in {"none", "PROCESSING"}
    <2>1. CASE ResumeRow(x, g)
        BY <2>1 DEF ResumeRow
    <2>2. ASSUME NEW small, ReportCreate(x, g, small)
          PROVE  report' = [report EXCEPT ![x].status = "PENDING"] /\ report[x].status = "none"
        BY <2>2 DEF ReportCreate, NoReport
    <2>. QED BY <2>1, <2>2
<1>7. /\ RowsFit' /\ \A y \in Reports : y # x => report'[y] = report[y]
      /\ \/ report'[x] = report[x]
         \/ report'[x].status = "PENDING" /\ report'[x].term = report[x].term /\ report[x].status \in {"none", "PROCESSING"}
    <2>1. CASE UNCHANGED report
        BY <1>1, <2>1 DEF RowsFit
    <2>2. CASE ~UNCHANGED report
        BY <1>1, <1>6, <2>2, StatusWritten
    <2>. QED BY <2>1, <2>2
<1>8. \A y, h : h \in Generators /\ Active(h, y)' => Active(h, y) /\ generator'[h].pc = generator[h].pc
    BY <1>5 DEF Active
<1>9. ASSUME NEW y \in Reports \ overlapped'
      PROVE  OneActive(y)' /\ ActiveFirst(y)' /\ TermSound(y)'
    <2>1. OneActive(y) /\ ActiveFirst(y) /\ TermSound(y)
        BY <1>1, <1>2, <1>9
    <2>2. CASE report'[y] = report[y]
        BY <1>2, <1>3, <1>8, <2>1, <2>2, ReportUntouched
    <2>3. CASE y = x /\ report'[x].status = "PENDING" /\ report'[x].term = report[x].term /\ report[x].status \in {"none", "PROCESSING"}
        <3>1. OneActive(x)'
            BY <1>8, <2>1, <2>3 DEF OneActive
        <3>2. ActiveFirst(x)'
            BY <1>2, <1>3, <1>8, <2>1, <2>3 DEF ActiveFirst, Pending
        <3>3. TermSound(x)'
            BY <1>2, <1>3, <2>1, <2>3 DEF TermSound
        <3>. QED BY <2>3, <3>1, <3>2, <3>3
    <2>. QED BY <1>7, <2>2, <2>3
<1>. QED BY Zenon, <1>3, <1>5, <1>7, <1>9 DEF ReportsInv

\* The jobs and the clock: a report that is past its term loses its file.
LEMMA ReportLapses ==
    ASSUME NEW x, OneActive(x), ActiveFirst(x), TermSound(x), UNCHANGED generator, Announced(x)' = Announced(x),
           report'[x].status = report[x].status,
           report'[x].term = report[x].term \/ (report[x].term = "valid" /\ report'[x].term = "past"),
           file'[x] = file[x] \/ report[x].term = "past",
           <<x, "file">> \in expiring' => report'[x].term = "past"
    PROVE  OneActive(x)' /\ ActiveFirst(x)' /\ TermSound(x)'
<1>1. \A h : Active(h, x)' <=> Active(h, x)
    BY DEF Active
<1>2. OneActive(x)'
    BY <1>1 DEF OneActive
<1>3. ActiveFirst(x)'
    BY <1>1 DEF ActiveFirst, TermSound, Pending
<1>4. TermSound(x)'
    BY DEF TermSound
<1>. QED BY <1>2, <1>3, <1>4

\* The jobs list, the cleanup deletes, time passes.
LEMMA JobsKeep ==
    ASSUME ReportsInv, UNCHANGED delivery,
           \/ ResumeList \/ CleanList
           \/ \E x \in Reports : CleanFile(x) \/ CleanRow(x) \/ ReportAges(x)
    PROVE  ReportsInv'
<1>1. RunsFit /\ RowsFit /\ FilesFit /\ \A y \in Reports \ overlapped : OneActive(y) /\ ActiveFirst(y) /\ TermSound(y)
    BY DEF ReportsInv
<1>2. UNCHANGED <<generator, overlapped>>
    BY DEF ResumeList, CleanList, CleanFile, CleanRow, ReportAges
<1>3. RunsFit' /\ \A y : Announced(y)' = Announced(y)
    BY <1>1, <1>2, AnnouncedKept DEF RunsFit
<1>. DEFINE Lapses(y) ==
                /\ report'[y].status = report[y].status
                /\ report'[y].term = report[y].term \/ (report[y].term = "valid" /\ report'[y].term = "past")
                /\ file'[y] = file[y] \/ <<y, "file">> \in expiring
                /\ <<y, "file">> \in expiring' => <<y, "file">> \in expiring \/ report'[y].term = "past"
<1>4. ASSUME ResumeList \/ CleanList
      PROVE  RowsFit' /\ FilesFit' /\ \A y \in Reports : Lapses(y)
    <2>1. UNCHANGED <<report, file>>
        BY <1>4 DEF ResumeList, CleanList
    <2>2. \A y : <<y, "file">> \in expiring' => <<y, "file">> \in expiring \/ report'[y].term = "past"
        BY <1>4, <2>1 DEF ResumeList, CleanList
    <2>3. RowsFit' /\ FilesFit' /\ \A y \in Reports : Lapses(y)
        BY <1>1, <2>1, <2>2 DEF RowsFit, FilesFit
    <2>. QED BY <2>3
<1>5. ASSUME NEW x \in Reports, CleanFile(x) \/ CleanRow(x) \/ ReportAges(x)
      PROVE  RowsFit' /\ FilesFit' /\ \A y \in Reports : Lapses(y)
    <2>1. CASE CleanFile(x)
        <3>1. UNCHANGED report /\ <<x, "file">> \in expiring /\ file' = [file EXCEPT ![x] = "none"]
              /\ expiring' = (expiring \ {<<x, "file">>}) \cup {<<x, "row">>}
            BY <2>1 DEF CleanFile
        <3>2. \A y : <<y, "file">> \in expiring' => <<y, "file">> \in expiring
            BY <3>1
        <3>. QED BY <1>1, <3>1, <3>2 DEF RowsFit, FilesFit
    <2>2. CASE CleanRow(x) \/ ReportAges(x)
        <3>1. PICK r : /\ report' = [report EXCEPT ![x] = r] /\ DOMAIN r = RowFields /\ r.status = report[x].status
                       /\ r.term = report[x].term \/ (report[x].term = "valid" /\ r.term = "past")
            <4>. DEFINE a == [report[x] EXCEPT !.path = FALSE]
                        b == [report[x] EXCEPT !.old = TRUE]
                        c == [report[x] EXCEPT !.term = "past"]
            <4>1. \/ report' = [report EXCEPT ![x] = a] \/ report' = [report EXCEPT ![x] = b]
                  \/ report' = [report EXCEPT ![x] = c] /\ report[x].term = "valid"
                BY <2>2 DEF CleanRow, ReportAges
            <4>2. /\ DOMAIN a = RowFields /\ a.status = report[x].status /\ a.term = report[x].term
                  /\ DOMAIN b = RowFields /\ b.status = report[x].status /\ b.term = report[x].term
                  /\ DOMAIN c = RowFields /\ c.status = report[x].status /\ c.term = "past"
                BY <1>1 DEF RowsFit, RowFields
            <4>. HIDE DEF a, b, c
            <4>. QED BY <4>1, <4>2
        <3>2. UNCHANGED file /\ expiring' \subseteq expiring
            BY <2>2 DEF CleanRow, ReportAges, Jobs
        <3>. QED BY <1>1, <3>1, <3>2 DEF RowsFit, FilesFit
    <2>. QED BY <1>5, <2>1, <2>2
<1>6. RowsFit' /\ FilesFit' /\ \A y \in Reports : Lapses(y)
    BY <1>4, <1>5
<1>7. ASSUME NEW y \in Reports \ overlapped'
      PROVE  OneActive(y)' /\ ActiveFirst(y)' /\ TermSound(y)'
    <2>1. OneActive(y) /\ ActiveFirst(y) /\ TermSound(y)
        BY <1>1, <1>2, <1>7
    <2>2. <<y, "file">> \in expiring => report[y].term = "past"
        BY <2>1 DEF TermSound
    <2>. QED BY <1>2, <1>3, <1>6, <2>1, <2>2, ReportLapses
<1>. QED BY Zenon, <1>3, <1>6, <1>7 DEF ReportsInv

\* What other parts raise is about no report.
LEMMA OthersRaise ==
    ASSUME ReportsInv, UNCHANGED reportVars, \A x : Announced(x)' = Announced(x)
    PROVE  ReportsInv'
<1>1. UNCHANGED <<report, file, generator, expiring, overlapped>>
    BY DEF reportVars
<1>2. RunsFit' = RunsFit /\ RowsFit' = RowsFit /\ FilesFit' = FilesFit
    BY <1>1 DEF RunsFit, RowsFit, FilesFit
<1>3. ASSUME NEW x \in Reports \ overlapped
      PROVE  OneActive(x)' /\ ActiveFirst(x)' /\ TermSound(x)'
    BY <1>1, ReportUntouched DEF ReportsInv, Active
<1>. QED BY Zenon, <1>1, <1>2, <1>3 DEF ReportsInv

\* Where the household's steps meet the reports.
LEMMA ReportsMeet ==
    ASSUME PlanningNext \/ UNCHANGED planningVars
    PROVE  \/ UNCHANGED reportVars /\ \A x : Announced(x)' = Announced(x)
           \/ UNCHANGED delivery /\ \/ ReportStep
                                    \/ \E x \in Reports : ReportAges(x)
                                    \/ \E x \in Reports, g \in Generators, small \in BOOLEAN : ReportCreate(x, g, small)
           \/ \E g \in Generators : EmitReady(g)
           \/ ReportsRestart /\ \A x : Announced(x)' = Announced(x)
<1>1. CASE UNCHANGED reportVars /\ DOMAIN delivery' = DOMAIN delivery
    BY <1>1, AnnouncedKept
<1>2. ASSUME NEW kind, NEW abouts, NEW kind2, NEW abouts2, kind # "REPORT_READY", kind2 # "REPORT_READY",
             Raise(Events(kind, abouts) \cup Events(kind2, abouts2))
      PROVE  \A x : Announced(x)' = Announced(x)
    <2>1. \A e \in Events(kind, abouts) \cup Events(kind2, abouts2) : e.kind # "REPORT_READY"
        BY <1>2 DEF Events
    <2>2. DOMAIN delivery' = DOMAIN delivery \cup (Events(kind, abouts) \cup Events(kind2, abouts2))
        BY <1>2 DEF Raise
    <2>. QED BY <2>1, <2>2 DEF Announced, Same
<1>3. CASE BudgetStep
    <2>1. UNCHANGED reportVars /\ (UNCHANGED delivery \/ \E r \in Spenders : SpendEmit(r))
        BY <1>3 DEF BudgetStep, services
    <2>2. ASSUME NEW r \in Spenders, SpendEmit(r)
          PROVE  \A x : Announced(x)' = Announced(x)
        <3>1. PICK warned, exceeded : Raise(Events("BUDGET_WARNING", warned) \cup Events("BUDGET_EXCEEDED", exceeded))
            BY <2>2 DEF SpendEmit
        <3>. QED BY <1>2, <3>1
    <2>. QED BY <1>1, <2>1, <2>2
<1>4. CASE GoalStep
    <2>1. UNCHANGED reportVars /\ (UNCHANGED delivery \/ \E r \in Savers, g \in Goals : CheckWrite(r, g))
        BY <1>4 DEF GoalStep, services
    <2>2. ASSUME NEW r \in Savers, NEW g \in Goals, CheckWrite(r, g)
          PROVE  UNCHANGED delivery \/ \A x : Announced(x)' = Announced(x)
        <3>1. UNCHANGED delivery \/ Raise(Events("SAVINGS_GOAL_COMPLETED", {g}))
            BY <2>2 DEF CheckWrite
        <3>2. Raise(Events("SAVINGS_GOAL_COMPLETED", {g})) =>
                Raise(Events("SAVINGS_GOAL_COMPLETED", {g}) \cup Events("SAVINGS_GOAL_COMPLETED", {g}))
            <4>1. \A S : S \cup S = S
                OBVIOUS
            <4>. QED BY <4>1
        <3>. QED BY <1>2, <3>1, <3>2
    <2>. QED BY <1>1, <2>1, <2>2
<1>5. CASE ReportSteps
    BY <1>5 DEF ReportSteps
<1>6. CASE Delivers
    <2>1. UNCHANGED reportVars
        BY <1>6 DEF Delivers, services
    <2>2. PICK e, d : delivery' = [delivery EXCEPT ![e] = d]
        BY <1>6 DEF Delivers, DeliveryStep, SendEmail, Sent, Skip, Persist, SendPush, Step
    <2>3. DOMAIN delivery' = DOMAIN delivery
        BY <2>2
    <2>. QED BY <1>1, <2>1, <2>3
<1>7. CASE Restart
    <2>1. DOMAIN delivery' = DOMAIN delivery
        BY <1>7 DEF Restart, Interrupted
    <2>. QED BY <1>7, <2>1, AnnouncedKept DEF Restart
<1>8. CASE ReportRequest
    BY <1>8 DEF ReportRequest, notificationVars
<1>9. CASE Later
    BY <1>9 DEF Later, notificationVars
<1>10. CASE Device
    BY <1>1, <1>10 DEF Device, DeviceStep, EndpointDies, Unsubscribe, Subscribe, services
<1>11. \/ UNCHANGED reportVars /\ UNCHANGED delivery
       \/ BudgetStep \/ GoalStep \/ ReportSteps \/ Delivers \/ Restart \/ ReportRequest \/ Later \/ Device
    BY DEF PlanningNext, planningVars, CategoryRequest, ExpenseRequest, BudgetRequest, TransferRequest, GoalRequest,
           WriteRequest, CategoryStep, AuditSteps, NewMonth, Idle, services, notificationVars
<1>. QED BY <1>1, <1>3, <1>4, <1>5, <1>6, <1>7, <1>8, <1>9, <1>10, <1>11

\* Planning's specification keeps the reports' invariant.
THEOREM ReportsInvariant == PlanningSpec => []ReportsInv
<1>1. ASSUME PlanningInit
      PROVE  ReportsInv
    <2>1. /\ report = [x \in Reports |-> NoReport] /\ file = [x \in Reports |-> "none"]
          /\ generator = [g \in Generators |-> NoRun] /\ expiring = {} /\ delivery = << >>
        BY <1>1 DEF PlanningInit, ReportsInit, NotificationsInit
    <2>2. RunsFit /\ RowsFit /\ FilesFit
        BY <2>1 DEF RunsFit, RunFits, RowsFit, FilesFit, NoReport, RowFields
    <2>3. \A g \in Generators : \A x : ~Active(g, x)
        BY <2>1 DEF Active, NoRun
    <2>4. \A x : Announced(x) = {}
        BY <2>1 DEF Announced, Same
    <2>5. ASSUME NEW x \in Reports
          PROVE  OneActive(x) /\ ActiveFirst(x) /\ TermSound(x)
        BY <2>1, <2>3, <2>4 DEF OneActive, ActiveFirst, TermSound, NoReport
    <2>. QED BY <2>2, <2>5 DEF ReportsInv
<1>2. ReportsInv /\ [PlanningNext]_planningVars => ReportsInv'
    <2>1. SUFFICES ASSUME ReportsInv, PlanningNext \/ UNCHANGED planningVars
                   PROVE  ReportsInv'
        OBVIOUS
    <2>2. CASE UNCHANGED reportVars /\ \A x : Announced(x)' = Announced(x)
        BY <2>1, <2>2, OthersRaise
    <2>3. CASE UNCHANGED delivery /\ ReportStep
        BY <2>1, <2>3, ClaimKeeps, FilesKeep, EndingsKeep, RequestsKeep, JobsKeep DEF ReportStep
    <2>4. CASE UNCHANGED delivery /\ \E x \in Reports : ReportAges(x)
        BY <2>1, <2>4, JobsKeep
    <2>5. CASE UNCHANGED delivery /\ \E x \in Reports, g \in Generators, small \in BOOLEAN : ReportCreate(x, g, small)
        BY <2>1, <2>5, RequestsKeep
    <2>6. CASE \E g \in Generators : EmitReady(g)
        BY <2>1, <2>6, EmitKeeps
    <2>7. CASE ReportsRestart /\ \A x : Announced(x)' = Announced(x)
        <3>1. generator' = [g \in Generators |-> NoRun] /\ expiring' = {} /\ UNCHANGED <<report, file, overlapped>>
            BY <2>7 DEF ReportsRestart
        <3>2. RunsFit' /\ RowsFit' /\ FilesFit'
            BY <2>1, <3>1 DEF ReportsInv, RunsFit, RunFits, RowsFit, FilesFit
        <3>3. \A g \in Generators : \A x : ~Active(g, x)'
            BY <3>1 DEF Active, NoRun
        <3>4. ASSUME NEW x \in Reports \ overlapped'
              PROVE  OneActive(x)' /\ ActiveFirst(x)' /\ TermSound(x)'
            BY <2>1, <2>7, <3>1, <3>3, ReportUntouched DEF ReportsInv
        <3>. QED BY Zenon, <3>2, <3>4 DEF ReportsInv
    <2>. QED BY <2>1, <2>2, <2>3, <2>4, <2>5, <2>6, <2>7, ReportsMeet
<1>. QED BY <1>1, <1>2, PTL DEF PlanningSpec

\* A report that can be downloaded is whole, and it is announced at most once and only
\* when it is READY for good, unless a second run of it overlapped the first
\* (ReportsKeepTheirWord, Reports.tla).
THEOREM ReportsHonest == PlanningSpec => []ReportsKeepTheirWord
<1>1. ASSUME ReportsInv, NEW x \in Reports \ overlapped
      PROVE  /\ Served(x) => file[x] = "whole"
             /\ Cardinality(Same("REPORT_READY", x)) <= 1
             /\ Same("REPORT_READY", x) # {} => report[x].status = "READY"
    <2>1. TermSound(x)
        BY <1>1 DEF ReportsInv
    <2>2. Cardinality(Same("REPORT_READY", x)) <= 1
        <3>1. Announced(x) = {} => Cardinality(Announced(x)) = 0
            BY FS_EmptySet
        <3>2. \A e : Announced(x) = {e} => Cardinality(Announced(x)) = 1
            BY FS_Singleton
        <3>. QED BY <2>1, <3>1, <3>2 DEF TermSound, Announced
    <2>. QED BY <2>1, <2>2 DEF TermSound, Served, Announced
<1>2. ReportsInv => ReportsKeepTheirWord
    BY <1>1 DEF ReportsKeepTheirWord
<1>. QED BY <1>2, ReportsInvariant, PTL

-----------------------------------------------------------------------------
(* Budgets: the inductive invariant *)

SpenderFields == {"pc", "new", "needs", "keys", "prev", "stale"}
VersionFields == {"nth", "cat", "from", "to", "limit"}
ExpenseFields == {"cat", "month", "amount"}

SpendingFits ==
    /\ spending = [r \in Spenders |-> spending[r]]
    /\ \A r \in Spenders :
        /\ DOMAIN spending[r] = SpenderFields
        /\ spending[r].pc \in {"new", "writing", "emitting"}
        /\ \A s \in DOMAIN spending[r].new : DOMAIN spending[r].new[s] = ExpenseFields /\ spending[r].new[s].cat \in Places

KeepingFits ==
    /\ keeping = [r \in Keepers |-> keeping[r]]
    /\ \A r \in Keepers : keeping[r].pc # "new" => keeping[r].cat \in Categories

\* What the foreign keys hold: rows and budgets are of categories that are there.
RowsHang ==
    /\ tree = [c \in Categories |-> tree[c]]
    /\ expense = [s \in Slots |-> expense[s]]
    /\ \A s \in Slots : /\ DOMAIN expense[s] = ExpenseFields
                        /\ expense[s].cat # NoCategory => expense[s].cat \in Categories /\ Live(expense[s].cat)
    /\ \A v \in version : DOMAIN v = VersionFields /\ v.cat \in Categories /\ Live(v.cat)

\* A snapshot that is not out of date: the tree it was read in is still the tree,
\* and until its rows are written the statuses are still those.
Fresh(r) == spending[r].pc # "new" /\ ~spending[r].stale
Looked(r) == UNION {spending[r].keys[i].above \X {spending[r].keys[i].month} : i \in DOMAIN spending[r].keys}
LooksHold(r) ==
    /\ \A i \in DOMAIN spending[r].keys :
        /\ 1..i \subseteq DOMAIN spending[r].keys
        /\ Live(spending[r].keys[i].cat)
        /\ spending[r].keys[i].above = Ancestors(spending[r].keys[i].cat)
    /\ DOMAIN spending[r].prev = Looked(r)
    /\ spending[r].pc = "writing" => \A k \in Looked(r) : spending[r].prev[k] \in StatusesOf(k[1], k[2])
SnapshotsHold == \A r \in Spenders : Fresh(r) => LooksHold(r)

\* One write at a time has a fresh snapshot of what was before it, and what it owes
\* was announced by nobody else.
OneAnnouncer ==
    \A q, r \in Spenders : Fresh(q) /\ Fresh(r) /\ spending[q].pc = "emitting" /\ spending[r].pc = "emitting" => q = r
OwedUnannounced ==
    \A r \in Spenders, k \in Keys :
        Fresh(r) /\ spending[r].pc = "emitting" /\ k \in Owed(r) /\ k \notin excused => alarms[k] = 0

HistoriesFit == alarms = [k \in Keys |-> alarms[k]] /\ excused \subseteq Keys
CalmForgets == \A k \in Keys : ~Over(k) => alarms[k] = 0 /\ k \notin excused

BudgetsInv ==
    /\ SpendingFits /\ KeepingFits /\ RowsHang /\ HistoriesFit
    /\ SnapshotsHold /\ OneAnnouncer /\ OwedUnannounced /\ CalmForgets
    /\ ExceededAnnouncedOnce

-----------------------------------------------------------------------------
(* Budgets: what a step leaves as it was *)

\* Nothing sums up to nothing.
LEMMA SumOfNone ==
    ASSUME NEW f
    PROVE  SumFunctionOnSet(f, {}) = 0
<1>. DEFINE P(g) == g = [s \in SUBSET {} |-> IF s = {} THEN 0
                                            ELSE LET x == CHOOSE x \in s : TRUE IN f[x] + g[s \ {x}]]
            sums == CHOOSE g : P(g)
<1>1. SumFunctionOnSet(f, {}) = sums[{}]
    BY DEF SumFunctionOnSet, FoldFunctionOnSet, MapThenFoldSet
<1>2. P([s \in SUBSET {} |-> 0])
    OBVIOUS
<1>3. P(sums)
    BY <1>2
<1>4. {} \in SUBSET {}
    OBVIOUS
<1>. QED BY <1>1, <1>3, <1>4

\* A budget's statuses depend on the tree, the rows and the versions only.
LEMMA StatusesStay ==
    ASSUME UNCHANGED <<tree, expense, version>>
    PROVE  /\ \A c, m : StatusesOf(c, m)' = StatusesOf(c, m)
           /\ \A k : (Over(k)' <=> Over(k)) /\ (Doubled(k)' <=> Doubled(k))
           /\ \A c : Ancestors(c)' = Ancestors(c) /\ (Live(c)' <=> Live(c))
<1>1. \A c, m : InForce(c, m)' = InForce(c, m)
    BY DEF InForce
<1>2. \A c : Ancestors(c)' = Ancestors(c) /\ (Live(c)' <=> Live(c))
    BY DEF Ancestors, Live
<1>3. \A c : Subtree(c)' = Subtree(c)
    BY <1>2 DEF Subtree
<1>4. \A c, m : Spent(c, m)' = Spent(c, m)
    BY <1>3 DEF Spent
<1>5. \A v, m : Status(v, m)' = Status(v, m)
    BY <1>4 DEF Status
<1>6. \A c, m : StatusesOf(c, m)' = StatusesOf(c, m)
    BY <1>1, <1>5 DEF StatusesOf
<1>7. \A k : (Over(k)' <=> Over(k)) /\ (Doubled(k)' <=> Doubled(k))
    BY <1>1, <1>6 DEF Over, Doubled
<1>. QED BY <1>2, <1>6, <1>7

\* A month over its limit has one status; an accurate snapshot that owes an
\* announcement was taken of a month that was not over.
LEMMA OwedWasCalm ==
    ASSUME NEW r \in Spenders, NEW k \in Owed(r), spending[r].pc = "writing", Fresh(r), LooksHold(r)
    PROVE  ~Over(k)
<1>1. spending[r].prev[k] \in StatusesOf(k[1], k[2]) /\ spending[r].prev[k] # "exceeded"
    BY DEF Owed, LooksHold
<1>. QED BY <1>1 DEF Over

\* What a step that announces nothing, or takes announcements away from no one,
\* owes to the histories.
LEMMA RecordedKeeps ==
    ASSUME BudgetsInv, NEW owed, NEW announced, NEW outdated, Recorded(owed, announced, outdated)
    PROVE  /\ HistoriesFit' /\ CalmForgets'
           /\ \A k \in Keys : k \in excused /\ Over(k)' => k \in excused'
           /\ \A k \in Keys : Over(k)' /\ k \notin excused' =>
                /\ k \notin excused /\ k \notin outdated /\ (Over(k) \/ k \in owed)
           /\ \A k \in Keys : alarms'[k] = IF ~Over(k)' THEN 0
                                           ELSE IF k \in announced /\ alarms[k] < 2 THEN alarms[k] + 1 ELSE alarms[k]
<1>. DEFINE after(k) == IF ~Over(k)' THEN 0
                        ELSE IF k \in announced /\ alarms[k] < 2 THEN alarms[k] + 1 ELSE alarms[k]
<1>1. alarms' = [k \in Keys |-> after(k)]
    BY DEF Recorded
<1>2. excused' = {k \in Keys : Over(k)' /\ (\/ k \in excused \cup outdated \/ Doubled(k)'
                                            \/ ~Over(k) /\ k \notin owed)}
    BY DEF Recorded
<1>3. \A k \in Keys : alarms'[k] = after(k)
    BY <1>1
<1>4. HistoriesFit'
    BY <1>1, <1>2 DEF HistoriesFit
<1>5. CalmForgets'
    BY <1>2, <1>3 DEF CalmForgets
<1>. QED BY <1>2, <1>3, <1>4, <1>5

\* A disturbed snapshot is out of date; what is being announced stays announced.
LEMMA DisturbedLoses ==
    ASSUME SpendingFits, spending' = Disturbed
    PROVE  /\ SpendingFits'
           /\ \A r \in Spenders : ~Fresh(r)' /\ spending'[r].pc = spending[r].pc /\ Owed(r)' = Owed(r)
<1>1. ASSUME NEW r \in Spenders
      PROVE  /\ DOMAIN spending'[r] = SpenderFields /\ spending'[r].pc = spending[r].pc
             /\ spending'[r].new = spending[r].new /\ spending'[r].prev = spending[r].prev
             /\ spending'[r].stale = (spending[r].pc # "new")
    BY DEF SpendingFits, Disturbed, SpenderFields
<1>2. SpendingFits'
    BY <1>1 DEF SpendingFits, Disturbed
<1>3. \A r \in Spenders : ~Fresh(r)' /\ Owed(r)' = Owed(r)
    BY <1>1 DEF Fresh, Owed
<1>. QED BY <1>1, <1>2, <1>3

\* A step that announces nothing keeps ExceededAnnouncedOnce, if who was announcing
\* goes on and what crosses the limit has somebody to announce it.
LEMMA AnnouncersKeep ==
    ASSUME BudgetsInv, NEW owed, Recorded(owed, {}, {}),
           \A r \in Spenders : spending[r].pc = "emitting" =>
                spending'[r].pc = "emitting" /\ Owed(r)' = Owed(r),
           \A k \in owed : ~Over(k) => \E r \in Spenders : spending'[r].pc = "emitting" /\ k \in Owed(r)'
    PROVE  ExceededAnnouncedOnce'
<1>1. ASSUME NEW k \in Keys, Over(k)', k \notin excused'
      PROVE  \/ alarms'[k] = 1
             \/ alarms'[k] = 0 /\ \E r \in Spenders : spending'[r].pc = "emitting" /\ k \in Owed(r)'
    <2>1. k \notin excused /\ (Over(k) \/ k \in owed) /\ alarms'[k] = alarms[k]
        BY <1>1, RecordedKeeps
    <2>2. CASE Over(k)
        BY <2>1, <2>2 DEF BudgetsInv, ExceededAnnouncedOnce
    <2>3. CASE ~Over(k)
        BY <2>1, <2>3 DEF BudgetsInv, CalmForgets
    <2>. QED BY <2>2, <2>3
<1>. QED BY <1>1 DEF ExceededAnnouncedOnce

-----------------------------------------------------------------------------
(* Budgets: the steps preserve the invariant *)

\* Nothing that a snapshot is about changes.
LEMMA QuietBudgets ==
    ASSUME BudgetsInv, UNCHANGED <<tree, expense, version, spending, alarms, excused>>, KeepingFits'
    PROVE  BudgetsInv'
<1>1. RowsHang' /\ SpendingFits' /\ HistoriesFit'
    BY DEF BudgetsInv, RowsHang, SpendingFits, HistoriesFit, Live
<1>2. \A r \in Spenders : Fresh(r)' = Fresh(r) /\ Owed(r)' = Owed(r) /\ Looked(r)' = Looked(r)
    BY DEF Fresh, Owed, Looked
<1>3. SnapshotsHold'
    <2>1. ASSUME NEW r \in Spenders, LooksHold(r)
          PROVE  LooksHold(r)'
        BY <1>2, <2>1, StatusesStay DEF LooksHold
    <2>. QED BY <1>2, <2>1 DEF SnapshotsHold, BudgetsInv
<1>4. OneAnnouncer' /\ OwedUnannounced'
    BY <1>2 DEF BudgetsInv, OneAnnouncer, OwedUnannounced
<1>5. CalmForgets' /\ ExceededAnnouncedOnce'
    BY <1>2, StatusesStay DEF BudgetsInv, CalmForgets, ExceededAnnouncedOnce
<1>. QED BY Zenon, <1>1, <1>3, <1>4, <1>5 DEF BudgetsInv

\* A step that announces nothing: either it disturbed the snapshots or it changed nothing.
LEMMA SilenceKeeps ==
    ASSUME BudgetsInv, Silently, RowsHang', KeepingFits',
           spending' = Disturbed \/ UNCHANGED <<spending, tree, expense, version>>
    PROVE  BudgetsInv'
<1>1. Recorded({}, {}, {})
    BY DEF Silently
<1>2. HistoriesFit' /\ CalmForgets'
    BY <1>1, RecordedKeeps
<1>3. SpendingFits' /\ \A r \in Spenders : spending'[r].pc = spending[r].pc /\ Owed(r)' = Owed(r)
    BY DisturbedLoses DEF BudgetsInv, SpendingFits, Owed
<1>4. ExceededAnnouncedOnce'
    BY <1>1, <1>3, AnnouncersKeep
<1>5. SnapshotsHold' /\ OneAnnouncer' /\ OwedUnannounced'
    <2>1. CASE spending' = Disturbed
        BY <2>1, DisturbedLoses DEF BudgetsInv, SnapshotsHold, OneAnnouncer, OwedUnannounced
    <2>2. CASE UNCHANGED <<spending, tree, expense, version>>
        <3>1. \A r \in Spenders : Fresh(r)' = Fresh(r) /\ Looked(r)' = Looked(r)
            BY <2>2 DEF Fresh, Looked
        <3>2. ASSUME NEW r \in Spenders, LooksHold(r)
              PROVE  LooksHold(r)'
            BY <2>2, <3>1, <3>2, StatusesStay DEF LooksHold
        <3>3. SnapshotsHold' /\ OneAnnouncer'
            BY <1>3, <3>1, <3>2 DEF BudgetsInv, SnapshotsHold, OneAnnouncer
        <3>4. ASSUME NEW r \in Spenders, NEW k \in Keys, Fresh(r), spending[r].pc = "emitting",
                     k \in Owed(r), k \notin excused'
              PROVE  alarms'[k] = 0
            <4>1. ~Over(k)' \/ k \notin excused
                BY <1>1, <3>4, RecordedKeeps
            <4>2. alarms'[k] = 0 \/ alarms'[k] = alarms[k]
                BY <1>1, RecordedKeeps
            <4>3. ~Over(k)' => alarms'[k] = 0
                BY <1>1, RecordedKeeps
            <4>. QED BY <3>4, <4>1, <4>2, <4>3 DEF BudgetsInv, OwedUnannounced
        <3>5. OwedUnannounced'
            BY <1>3, <3>1, <3>4 DEF OwedUnannounced
        <3>. QED BY <3>3, <3>5
    <2>. QED BY <2>1, <2>2
<1>. QED BY Zenon, <1>2, <1>3, <1>4, <1>5 DEF BudgetsInv

\* A request takes its snapshot.
LEMMA SnapshotKeeps ==
    ASSUME BudgetsInv, NEW r \in Spenders, NEW new, NEW needs, NEW n \in Nat, NEW looks,
           DOMAIN looks = 1..n, \A i \in 1..n : Live(looks[i][1]),
           \A s \in DOMAIN new : DOMAIN new[s] = ExpenseFields /\ new[s].cat \in Places,
           Snapshot(r, new, needs, looks)
    PROVE  BudgetsInv'
<1>. DEFINE keys == [i \in DOMAIN looks |-> [cat |-> looks[i][1], month |-> looks[i][2],
                                            above |-> Ancestors(looks[i][1])]]
            levels == UNION {keys[i].above \X {keys[i].month} : i \in DOMAIN keys}
            Taken(prev) == [Waiting EXCEPT !.pc = "writing", !.new = new, !.needs = needs,
                                           !.keys = keys, !.prev = prev]
<1>1. PICK prev \in Readings(levels) : spending' = [spending EXCEPT ![r] = Taken(prev)]
    BY DEF Snapshot
<1>2. spending[r].pc = "new" /\ UNCHANGED <<tree, month, expense, version, keeping, alarms, excused>>
    BY DEF Snapshot, categoryVars
<1>. DEFINE t == Taken(prev)
<1>3. /\ DOMAIN t = SpenderFields /\ t.pc = "writing" /\ t.new = new /\ t.keys = keys
      /\ t.prev = prev /\ t.stale = FALSE
    BY DEF Waiting, SpenderFields
<1>4. DOMAIN prev = levels /\ \A k \in levels : prev[k] \in StatusesOf(k[1], k[2])
    BY DEF Readings
<1>5. \A i \in DOMAIN keys : /\ 1..i \subseteq DOMAIN keys /\ Live(keys[i].cat)
                             /\ keys[i].above = Ancestors(keys[i].cat)
    OBVIOUS
<1>6. spending' = [spending EXCEPT ![r] = t]
    BY <1>1
<1>. HIDE DEF t, keys, Taken
<1>7. spending'[r] = t /\ \A q \in Spenders : q # r => spending'[q] = spending[q]
    BY <1>6 DEF BudgetsInv, SpendingFits
<1>8. RowsHang' /\ HistoriesFit' /\ KeepingFits'
    BY <1>2 DEF BudgetsInv, RowsHang, HistoriesFit, KeepingFits, Live
<1>9. SpendingFits'
    <2>1. \A q \in Spenders : /\ DOMAIN spending'[q] = SpenderFields
                              /\ spending'[q].pc \in {"new", "writing", "emitting"}
                              /\ \A s \in DOMAIN spending'[q].new :
                                    DOMAIN spending'[q].new[s] = ExpenseFields /\ spending'[q].new[s].cat \in Places
        BY <1>3, <1>7 DEF BudgetsInv, SpendingFits
    <2>2. spending' = [q \in Spenders |-> spending'[q]]
        BY <1>6 DEF BudgetsInv, SpendingFits
    <2>. QED BY <2>1, <2>2 DEF SpendingFits
<1>10. \A q \in Spenders : q # r =>
        Fresh(q)' = Fresh(q) /\ Owed(q)' = Owed(q) /\ Looked(q)' = Looked(q)
    BY <1>7 DEF Fresh, Owed, Looked
<1>11. SnapshotsHold'
    <2>1. ASSUME NEW q \in Spenders, q # r, LooksHold(q)
          PROVE  LooksHold(q)'
        BY <1>2, <1>7, <1>10, <2>1, StatusesStay DEF LooksHold
    <2>2. LooksHold(r)'
        <3>1. Looked(r)' = levels
            BY <1>3, <1>7 DEF Looked
        <3>. HIDE DEF levels
        <3>2. DOMAIN spending'[r].prev = Looked(r)'
            BY <1>3, <1>4, <1>7, <3>1
        <3>3. \A k \in Looked(r)' : spending'[r].prev[k] \in StatusesOf(k[1], k[2])'
            BY <1>2, <1>3, <1>4, <1>7, <3>1, StatusesStay
        <3>4. \A i \in DOMAIN spending'[r].keys :
                /\ 1..i \subseteq DOMAIN spending'[r].keys /\ Live(spending[r].keys[i].cat)'
                /\ spending'[r].keys[i].above = Ancestors(spending[r].keys[i].cat)'
            BY <1>2, <1>3, <1>5, <1>7, StatusesStay
        <3>. QED BY Zenon, <3>2, <3>3, <3>4 DEF LooksHold
    <2>. QED BY <1>10, <2>1, <2>2 DEF BudgetsInv, SnapshotsHold
<1>12. OneAnnouncer' /\ OwedUnannounced'
    BY <1>2, <1>3, <1>7, <1>10 DEF BudgetsInv, OneAnnouncer, OwedUnannounced
<1>13. CalmForgets' /\ ExceededAnnouncedOnce'
    BY <1>2, <1>7, <1>10, StatusesStay DEF BudgetsInv, CalmForgets, ExceededAnnouncedOnce
<1>. QED BY Zenon, <1>8, <1>9, <1>11, <1>12, <1>13 DEF BudgetsInv

\* What the requests that write expenses look at is there.
LEMMA ExpenseRequestsKeep ==
    ASSUME BudgetsInv, NEW r \in Spenders, NEW s \in Slots,
           \/ ExpenseRemove(r, s)
           \/ \E c \in Categories, m \in Months, a \in Amounts :
                \/ ExpenseCreate(r, s, c, m, a) \/ ExpenseUpdate(r, s, c, m, a)
                \/ \E t \in Slots : PlanCreate(r, s, t, c, m, a)
    PROVE  BudgetsInv'
<1>1. NoCategory \in Places /\ Categories \subseteq Places
    BY DEF Places
<1>2. expense[s].cat # NoCategory => Live(expense[s].cat)
    BY DEF BudgetsInv, RowsHang
<1>3. ASSUME ExpenseRemove(r, s)
      PROVE  BudgetsInv'
    <2>1. Snapshot(r, Rows({s}, NoRow), {s}, KeyOf(expense[s]))
        BY <1>3 DEF ExpenseRemove
    <2>2. \A x \in DOMAIN Rows({s}, NoRow) :
            DOMAIN Rows({s}, NoRow)[x] = ExpenseFields /\ Rows({s}, NoRow)[x].cat \in Places
        BY <1>1 DEF Rows, NoRow, ExpenseFields
    <2>3. CASE expense[s].cat = NoCategory
        <3>1. DOMAIN KeyOf(expense[s]) = 1..0 /\ \A i \in 1..0 : Live(KeyOf(expense[s])[i][1])
            BY <2>3 DEF KeyOf
        <3>. QED BY <2>1, <2>2, <3>1, SnapshotKeeps
    <2>4. CASE expense[s].cat # NoCategory
        <3>1. DOMAIN KeyOf(expense[s]) = 1..1 /\ Live(KeyOf(expense[s])[1][1])
            BY <1>2, <2>4 DEF KeyOf
        <3>2. \A i \in 1..1 : Live(KeyOf(expense[s])[i][1])
            BY <3>1
        <3>. QED BY <2>1, <2>2, <3>1, <3>2, SnapshotKeeps
    <2>. QED BY <2>3, <2>4
<1>4. ASSUME NEW c \in Categories, NEW m \in Months, NEW a \in Amounts,
             \/ ExpenseCreate(r, s, c, m, a) \/ ExpenseUpdate(r, s, c, m, a)
             \/ \E t \in Slots : PlanCreate(r, s, t, c, m, a)
      PROVE  BudgetsInv'
    <2>. DEFINE looks == <<<<c, m>>>>
    <2>1. Live(c)
        BY <1>4 DEF ExpenseCreate, ExpenseUpdate, PlanCreate
    <2>2. DOMAIN looks = 1..1 /\ \A i \in 1..1 : Live(looks[i][1])
        BY <2>1
    <2>3. \A x \in DOMAIN Rows({s}, RowOn(c, m, a)) :
            /\ DOMAIN Rows({s}, RowOn(c, m, a))[x] = ExpenseFields
            /\ Rows({s}, RowOn(c, m, a))[x].cat \in Places
        BY <1>1 DEF Rows, RowOn, ExpenseFields
    <2>4. CASE ExpenseCreate(r, s, c, m, a)
        <3>1. Snapshot(r, Rows({s}, RowOn(c, m, a)), {}, looks)
            BY <2>4 DEF ExpenseCreate
        <3>. QED BY <2>2, <2>3, <3>1, SnapshotKeeps
    <2>5. CASE ExpenseUpdate(r, s, c, m, a)
        <3>. DEFINE row == expense[s]
                    both == Append(KeyOf(row), <<c, m>>)
        <3>1. Snapshot(r, Rows({s}, RowOn(c, m, a)), {s}, IF KeyOf(row) \in {<< >>, looks} THEN looks ELSE both)
            BY <2>5 DEF ExpenseUpdate
        <3>2. CASE KeyOf(row) \in {<< >>, looks}
            BY <2>2, <2>3, <3>1, <3>2, SnapshotKeeps
        <3>3. CASE KeyOf(row) \notin {<< >>, looks}
            <4>1. row.cat # NoCategory /\ KeyOf(row) = <<<<row.cat, row.month>>>>
                BY <3>3 DEF KeyOf
            <4>2. \A x, y : LET two == Append(<<x>>, y) IN DOMAIN two = 1..2 /\ two[1] = x /\ two[2] = y
                OBVIOUS
            <4>3. DOMAIN both = 1..2 /\ both[1] = <<row.cat, row.month>> /\ both[2] = <<c, m>>
                BY <4>1, <4>2
            <4>4. Snapshot(r, Rows({s}, RowOn(c, m, a)), {s}, both)
                BY <3>1, <3>3
            <4>5. \A i \in 1..2 : Live(both[i][1])
                BY <1>2, <2>1, <4>1, <4>3
            <4>. HIDE DEF both
            <4>. QED BY <2>3, <4>3, <4>4, <4>5, SnapshotKeeps
        <3>. QED BY <3>2, <3>3
    <2>6. ASSUME NEW t \in Slots, PlanCreate(r, s, t, c, m, a)
          PROVE  BudgetsInv'
        <3>. DEFINE rows == [x \in {s, t} |-> RowOn(c, IF x = s THEN m ELSE m + 1, a)]
        <3>1. Snapshot(r, rows, {}, looks)
            BY <2>6 DEF PlanCreate
        <3>2. \A x \in DOMAIN rows : DOMAIN rows[x] = ExpenseFields /\ rows[x].cat \in Places
            BY <1>1 DEF RowOn, ExpenseFields
        <3>. QED BY <2>2, <3>1, <3>2, SnapshotKeeps
    <2>. QED BY <1>4, <2>4, <2>5, <2>6
<1>. QED BY <1>3, <1>4

\* A budget's versions keep their category when one of them is closed.
LEMMA ClosedHang ==
    ASSUME RowsHang, NEW old, NEW from, NEW v \in Closed(old, from)
    PROVE  DOMAIN v = VersionFields /\ v.cat \in Categories /\ Live(v.cat)
<1>1. PICK u \in version : v = IF u \in Now(old) THEN [u EXCEPT !.to = from] ELSE u
    BY DEF Closed
<1>2. DOMAIN u = VersionFields /\ u.cat \in Categories /\ Live(u.cat)
    BY DEF RowsHang
<1>3. DOMAIN v = DOMAIN u /\ v.cat = u.cat
    BY <1>1, <1>2 DEF VersionFields
<1>. QED BY <1>2, <1>3

\* The requests on budgets.
LEMMA KeepWriteKeeps ==
    ASSUME BudgetsInv, NEW r \in Keepers, ReplaceWrite(r) \/ EndWrite(r)
    PROVE  BudgetsInv'
<1>1. PICK versions : KeepWrite(r, versions) /\ versions \in {Replaced(keeping[r]), Closed(keeping[r].old, keeping[r].from)}
    BY DEF ReplaceWrite, EndWrite
<1>2. keeping[r].cat \in Categories
    BY DEF ReplaceWrite, EndWrite, BudgetsInv, KeepingFits
<1>3. ASSUME NEW v \in version'
      PROVE  DOMAIN v = VersionFields /\ v.cat \in Categories /\ Live(v.cat)
    <2>1. CASE v \in version
        BY <2>1 DEF BudgetsInv, RowsHang
    <2>2. CASE \E old, from : v \in Closed(old, from)
        BY <2>2, ClosedHang DEF BudgetsInv
    <2>3. CASE v = [nth |-> NextNumber, cat |-> keeping[r].cat, from |-> keeping[r].from,
                    to |-> Open, limit |-> keeping[r].limit] /\ Live(keeping[r].cat)
        BY <1>2, <2>3 DEF VersionFields
    <2>. QED BY <1>1, <2>1, <2>2, <2>3 DEF KeepWrite, Replaced
<1>4. UNCHANGED <<tree, expense>>
    BY <1>1 DEF KeepWrite, categoryVars
<1>5. RowsHang'
    BY <1>3, <1>4 DEF BudgetsInv, RowsHang, Live
<1>6. KeepingFits'
    BY <1>1 DEF BudgetsInv, KeepingFits, KeepWrite, Resting
<1>. QED BY <1>1, <1>5, <1>6, SilenceKeeps DEF KeepWrite

LEMMA KeepReadKeeps ==
    ASSUME BudgetsInv, NEW r \in Keepers,
           \/ \E c \in Categories, limit \in Limits : ReplaceRead(r, c, limit)
           \/ \E v \in version : EndRead(r, v)
    PROVE  BudgetsInv'
<1>1. UNCHANGED <<tree, expense, version, spending, alarms, excused>>
    BY DEF ReplaceRead, EndRead, categoryVars
<1>2. KeepingFits'
    <2>1. ASSUME NEW c \in Categories, NEW limit \in Limits, ReplaceRead(r, c, limit)
          PROVE  KeepingFits'
        BY <2>1 DEF ReplaceRead, BudgetsInv, KeepingFits
    <2>2. ASSUME NEW v \in version, EndRead(r, v)
          PROVE  KeepingFits'
        BY <2>2 DEF EndRead, BudgetsInv, KeepingFits, RowsHang
    <2>. QED BY <2>1, <2>2
<1>. QED BY <1>1, <1>2, QuietBudgets

\* The requests on categories: the foreign keys hold, and a tree that changed
\* leaves no fresh snapshot.
LEMMA CategoryChangeKeeps ==
    ASSUME BudgetsInv, NEW r \in Editors, CategoryChange(r)
    PROVE  BudgetsInv'
<1>. DEFINE c == placing[r].cat
<1>1. tree' = tree \/ tree' = [tree EXCEPT ![c] = [live |-> TRUE, parent |-> placing[r].to]]
    BY DEF CategoryChange, CategoryWrite, Settle
<1>2. UNCHANGED <<expense, version, keeping>>
    BY DEF CategoryChange
<1>3. \A x \in Categories : Live(x) => Live(x)'
    BY <1>1 DEF BudgetsInv, RowsHang, Live
<1>4. RowsHang'
    BY <1>1, <1>2, <1>3 DEF BudgetsInv, RowsHang
<1>5. KeepingFits'
    BY <1>2 DEF BudgetsInv, KeepingFits
<1>. QED BY <1>2, <1>4, <1>5, SilenceKeeps DEF CategoryChange

LEMMA CategoryGoesKeeps ==
    ASSUME BudgetsInv, NEW r \in Editors, CategoryGoes(r)
    PROVE  BudgetsInv'
<1>. DEFINE c == placing[r].cat
            Kept(s) == IF expense[s].cat # NoCategory /\ ~tree'[expense[s].cat].live
                       THEN [expense[s] EXCEPT !.cat = NoCategory] ELSE expense[s]
<1>1. tree' = tree \/ tree' = [tree EXCEPT ![c] = Missing]
    BY DEF CategoryGoes, CategoryDelete, Settle
<1>2. expense' = [s \in Slots |-> Kept(s)] /\ version' = {v \in version : tree'[v.cat].live} /\ keeping' = keeping
    BY DEF CategoryGoes
<1>3. tree' = [x \in Categories |-> tree'[x]]
    BY <1>1 DEF BudgetsInv, RowsHang
<1>4. ASSUME NEW s \in Slots
      PROVE  /\ DOMAIN expense'[s] = ExpenseFields
             /\ expense'[s].cat # NoCategory => expense'[s].cat \in Categories /\ tree'[expense'[s].cat].live
    <2>1. expense'[s] = Kept(s)
        BY <1>2
    <2>. QED BY <2>1 DEF BudgetsInv, RowsHang, ExpenseFields
<1>5. RowsHang'
    BY <1>2, <1>3, <1>4 DEF BudgetsInv, RowsHang, Live
<1>6. tree' = tree => expense' = expense /\ version' = version
    BY <1>2 DEF BudgetsInv, RowsHang, Live
<1>7. KeepingFits'
    BY <1>2 DEF BudgetsInv, KeepingFits
<1>. QED BY <1>5, <1>6, <1>7, SilenceKeeps DEF CategoryGoes

\* A spender that gives up or goes down has announced nothing; if it was to announce
\* something, nobody owes that any more.
LEMMA SpenderLeaves ==
    ASSUME SpendingFits, NEW r \in Spenders, spending' = [spending EXCEPT ![r] = Waiting]
    PROVE  /\ SpendingFits' /\ ~Fresh(r)'
           /\ \A q \in Spenders : q # r =>
                spending'[q] = spending[q] /\ Fresh(q)' = Fresh(q) /\ Owed(q)' = Owed(q) /\ Looked(q)' = Looked(q)
<1>1. spending'[r] = Waiting /\ \A q \in Spenders : q # r => spending'[q] = spending[q]
    BY DEF SpendingFits
<1>2. ~Fresh(r)'
    BY <1>1 DEF Fresh, Waiting
<1>3. \A q \in Spenders : q # r => Fresh(q)' = Fresh(q) /\ Owed(q)' = Owed(q) /\ Looked(q)' = Looked(q)
    BY <1>1 DEF Fresh, Owed, Looked
<1>4. SpendingFits'
    <2>1. ASSUME NEW q \in Spenders
          PROVE  /\ DOMAIN spending'[q] = SpenderFields
                 /\ spending'[q].pc \in {"new", "writing", "emitting"}
                 /\ \A s \in DOMAIN spending'[q].new :
                        DOMAIN spending'[q].new[s] = ExpenseFields /\ spending'[q].new[s].cat \in Places
        <3>1. CASE q = r
            BY <1>1, <3>1 DEF Waiting, SpenderFields
        <3>2. CASE q # r
            BY <1>1, <3>2 DEF SpendingFits
        <3>. QED BY <3>1, <3>2
    <2>2. spending' = [q \in Spenders |-> spending'[q]]
        BY DEF SpendingFits
    <2>. QED BY <2>1, <2>2 DEF SpendingFits
<1>. QED BY <1>1, <1>2, <1>3, <1>4

\* The snapshots of the others hold as long as nothing else changes.
LEMMA OthersHold ==
    ASSUME BudgetsInv, NEW r \in Spenders, spending' = [spending EXCEPT ![r] = Waiting],
           UNCHANGED <<tree, expense, version>>
    PROVE  SnapshotsHold' /\ OneAnnouncer'
<1>1. ASSUME NEW q \in Spenders, q # r, LooksHold(q)
      PROVE  LooksHold(q)'
    <2>1. spending'[q] = spending[q] /\ Looked(q)' = Looked(q)
        BY <1>1, SpenderLeaves DEF BudgetsInv
    <2>. QED BY <1>1, <2>1, StatusesStay DEF LooksHold
<1>2. SnapshotsHold'
    BY <1>1, SpenderLeaves DEF BudgetsInv, SnapshotsHold
<1>3. OneAnnouncer'
    BY SpenderLeaves DEF BudgetsInv, OneAnnouncer
<1>. QED BY <1>2, <1>3

\* The rows are written: every other snapshot is out of date now, and what the
\* writer's own snapshot says is what was.
LEMMA CommitSpendKeeps ==
    ASSUME BudgetsInv, NEW r \in Spenders, SpendCommit(r)
    PROVE  BudgetsInv'
<1>. DEFINE w == spending[r]
<1>1. w.pc = "writing" /\ DOMAIN w = SpenderFields
    BY DEF SpendCommit, BudgetsInv, SpendingFits
<1>2. CASE ~Possible(w)
    <2>1. /\ spending' = [spending EXCEPT ![r] = Waiting]
          /\ UNCHANGED <<tree, expense, version, keeping, alarms, excused>>
        BY <1>2 DEF SpendCommit, categoryVars
    <2>2. RowsHang' /\ KeepingFits' /\ HistoriesFit'
        BY <2>1 DEF BudgetsInv, RowsHang, KeepingFits, HistoriesFit, Live
    <2>3. SpendingFits' /\ SnapshotsHold' /\ OneAnnouncer'
        BY <2>1, SpenderLeaves, OthersHold DEF BudgetsInv
    <2>4. OwedUnannounced'
        BY <2>1, SpenderLeaves DEF BudgetsInv, OwedUnannounced
    <2>5. CalmForgets'
        BY <2>1, StatusesStay DEF BudgetsInv, CalmForgets
    <2>6. ExceededAnnouncedOnce'
        BY <1>1, <2>1, SpenderLeaves, StatusesStay DEF BudgetsInv, ExceededAnnouncedOnce
    <2>. QED BY Zenon, <2>2, <2>3, <2>4, <2>5, <2>6 DEF BudgetsInv
<1>3. CASE Possible(w)
    <2>. DEFINE after == [w EXCEPT !.pc = "emitting", !.new = << >>, !.needs = {}]
                owed == IF w.stale THEN {} ELSE Owed(r)
    <2>1. /\ expense' = [s \in Slots |-> IF s \in DOMAIN w.new THEN w.new[s] ELSE expense[s]]
          /\ spending' = [Disturbed EXCEPT ![r] = after]
          /\ UNCHANGED <<tree, version, keeping>> /\ Recorded(owed, {}, {})
        BY <1>3 DEF SpendCommit, categoryVars
    <2>2. /\ DOMAIN after = SpenderFields /\ after.pc = "emitting" /\ after.new = << >>
          /\ after.keys = w.keys /\ after.prev = w.prev /\ after.stale = w.stale
        BY <1>1 DEF SpenderFields
    <2>. HIDE DEF after
    <2>3. spending'[r] = after
        BY <2>1 DEF Disturbed
    <2>4. ASSUME NEW q \in Spenders, q # r
          PROVE  /\ DOMAIN spending'[q] = SpenderFields /\ spending'[q].pc = spending[q].pc
                 /\ spending'[q].new = spending[q].new /\ spending'[q].prev = spending[q].prev
                 /\ spending'[q].stale = (spending[q].pc # "new")
        <3>1. spending'[q] = [spending[q] EXCEPT !.stale = spending[q].pc # "new"]
            BY <2>1, <2>4 DEF Disturbed
        <3>. QED BY <3>1 DEF BudgetsInv, SpendingFits, SpenderFields
    <2>5. \A q \in Spenders : q # r => ~Fresh(q)' /\ spending'[q].pc = spending[q].pc /\ Owed(q)' = Owed(q)
        BY <2>4 DEF Fresh, Owed
    <2>6. spending'[r].pc = "emitting" /\ Owed(r)' = Owed(r) /\ Looked(r)' = Looked(r) /\ Fresh(r)' = Fresh(r)
        BY <1>1, <2>2, <2>3 DEF Fresh, Owed, Looked
    <2>7. SpendingFits'
        <3>1. ASSUME NEW q \in Spenders
              PROVE  /\ DOMAIN spending'[q] = SpenderFields
                     /\ spending'[q].pc \in {"new", "writing", "emitting"}
                     /\ \A s \in DOMAIN spending'[q].new :
                            DOMAIN spending'[q].new[s] = ExpenseFields /\ spending'[q].new[s].cat \in Places
            <4>1. CASE q = r
                BY <2>2, <2>3, <4>1
            <4>2. CASE q # r
                BY <2>4, <4>2 DEF BudgetsInv, SpendingFits
            <4>. QED BY <4>1, <4>2
        <3>2. spending' = [q \in Spenders |-> spending'[q]]
            BY <2>1 DEF Disturbed
        <3>. QED BY <3>1, <3>2 DEF SpendingFits
    <2>8. KeepingFits' /\ HistoriesFit' /\ CalmForgets'
        BY <2>1, RecordedKeeps DEF BudgetsInv, KeepingFits
    <2>9. RowsHang'
        <3>1. ASSUME NEW s \in Slots
              PROVE  /\ DOMAIN expense'[s] = ExpenseFields
                     /\ expense'[s].cat # NoCategory => expense'[s].cat \in Categories /\ Live(expense'[s].cat)
            <4>1. CASE s \in DOMAIN w.new
                <5>1. expense'[s] = w.new[s]
                    BY <2>1, <4>1
                <5>. QED BY <1>3, <4>1, <5>1 DEF BudgetsInv, SpendingFits, Possible, Places
            <4>2. CASE s \notin DOMAIN w.new
                BY <2>1, <4>2 DEF BudgetsInv, RowsHang
            <4>. QED BY <4>1, <4>2
        <3>. QED BY <2>1, <3>1 DEF BudgetsInv, RowsHang, Live
    <2>10. SnapshotsHold'
        <3>1. ASSUME LooksHold(r)
              PROVE  LooksHold(r)'
            BY <2>1, <2>2, <2>3, <2>6, <3>1 DEF LooksHold, Live, Ancestors
        <3>. QED BY <2>5, <2>6, <3>1 DEF BudgetsInv, SnapshotsHold
    <2>11. OneAnnouncer'
        BY <2>5 DEF OneAnnouncer
    <2>12. OwedUnannounced'
        <3>1. ASSUME NEW k \in Keys, Fresh(r), k \in Owed(r)
              PROVE  alarms'[k] = 0
            <4>1. ~Over(k)
                BY <1>1, <3>1, OwedWasCalm DEF BudgetsInv, SnapshotsHold
            <4>2. alarms[k] = 0
                BY <4>1 DEF BudgetsInv, CalmForgets
            <4>3. alarms'[k] = 0 \/ alarms'[k] = alarms[k]
                BY <2>1, RecordedKeeps
            <4>. QED BY <4>2, <4>3
        <3>. QED BY <2>5, <2>6, <3>1 DEF OwedUnannounced
    <2>13. ExceededAnnouncedOnce'
        <3>1. \A q \in Spenders : spending[q].pc = "emitting" =>
                spending'[q].pc = "emitting" /\ Owed(q)' = Owed(q)
            BY <1>1, <2>5
        <3>2. \A k \in owed : spending'[r].pc = "emitting" /\ k \in Owed(r)'
            BY <2>6
        <3>. QED BY <2>1, <3>1, <3>2, AnnouncersKeep
    <2>. QED BY Zenon, <2>7, <2>8, <2>9, <2>10, <2>11, <2>12, <2>13 DEF BudgetsInv
<1>. QED BY <1>2, <1>3

\* A fresh snapshot that is announced is compared level by level with what is there:
\* what was not over its limit then and is over it now is announced, and only that.
LEMMA FreshAnnounces ==
    ASSUME NEW r \in Spenders, LooksHold(r), NEW k, Over(k),
           NEW now \in Readings(UNION {Ancestors(spending[r].keys[i].cat) \X {spending[r].keys[i].month} :
                                           i \in Handled(spending[r].keys)})
    PROVE  k \in Owed(r) <=>
               \E i \in Handled(spending[r].keys) :
                   /\ k \in Ancestors(spending[r].keys[i].cat) \X {spending[r].keys[i].month}
                   /\ ShouldEmit(Before(spending[r], i, k), now[k]) /\ now[k] # "warning"
<1>. DEFINE keys == spending[r].keys
            looked(i) == Ancestors(keys[i].cat) \X {keys[i].month}
<1>1. Handled(keys) = DOMAIN keys
    BY DEF Handled, LooksHold
<1>2. \A i \in DOMAIN keys : keys[i].above = Ancestors(keys[i].cat)
    BY DEF LooksHold
<1>3. \A i \in DOMAIN keys : k \in looked(i) => now[k] = "exceeded" /\ Before(spending[r], i, k) = spending[r].prev[k]
    <2>1. ASSUME NEW i \in DOMAIN keys, k \in looked(i)
          PROVE  now[k] = "exceeded" /\ Before(spending[r], i, k) = spending[r].prev[k]
        <3>1. now[k] \in StatusesOf(k[1], k[2])
            BY <1>1, <2>1 DEF Readings
        <3>2. k[1] \in keys[i].above
            BY <1>2, <2>1
        <3>. QED BY <3>1, <3>2 DEF Over, Before
    <2>. QED BY <2>1
<1>4. DOMAIN spending[r].prev = UNION {looked(i) : i \in DOMAIN keys}
    BY <1>2 DEF LooksHold, Looked
<1>5. ASSUME k \in Owed(r)
      PROVE  \E i \in Handled(keys) :
                k \in looked(i) /\ ShouldEmit(Before(spending[r], i, k), now[k]) /\ now[k] # "warning"
    <2>1. PICK i \in DOMAIN keys : k \in looked(i)
        BY <1>4, <1>5 DEF Owed
    <2>2. spending[r].prev[k] # "exceeded"
        BY <1>5 DEF Owed
    <2>. QED BY <1>1, <1>3, <2>1, <2>2 DEF ShouldEmit
<1>6. ASSUME NEW i \in Handled(keys), k \in looked(i), ShouldEmit(Before(spending[r], i, k), now[k])
      PROVE  k \in Owed(r)
    <2>1. spending[r].prev[k] # "exceeded"
        BY <1>1, <1>3, <1>6 DEF ShouldEmit
    <2>2. k \in DOMAIN spending[r].prev
        BY <1>1, <1>4, <1>6
    <2>. QED BY <2>1, <2>2 DEF Owed
<1>. QED BY <1>5, <1>6

\* What was to be announced is announced: once, by whoever owed it, as no other fresh
\* snapshot was announced meanwhile.
LEMMA EmitSpendKeeps ==
    ASSUME BudgetsInv, NEW r \in Spenders, SpendEmit(r)
    PROVE  BudgetsInv'
<1>. DEFINE w == spending[r]
            looked(i) == Ancestors(w.keys[i].cat) \X {w.keys[i].month}
            levels == UNION {looked(i) : i \in Handled(w.keys)}
            Crossed(now) == {k \in levels : \E i \in Handled(w.keys) :
                                k \in looked(i) /\ ShouldEmit(Before(w, i, k), now[k])}
            Exceeded(now) == Crossed(now) \ {k \in Crossed(now) : now[k] = "warning"}
            Stale(now) == IF w.stale THEN Exceeded(now) \cup Owed(r) ELSE {}
<1>1. PICK now \in Readings(levels) : Recorded({}, Exceeded(now), Stale(now))
    BY DEF SpendEmit
<1>2. /\ w.pc = "emitting" /\ spending' = [spending EXCEPT ![r] = Waiting]
      /\ UNCHANGED <<tree, expense, version, keeping>>
    BY DEF SpendEmit, categoryVars
<1>3. ~w.stale => Fresh(r) /\ LooksHold(r)
    BY <1>2 DEF BudgetsInv, SnapshotsHold, Fresh, SpendingFits
<1>4. \A k : ~w.stale /\ Over(k) => (k \in Owed(r) <=> k \in Exceeded(now))
    BY <1>3, FreshAnnounces
<1>. DEFINE exceeded == Exceeded(now)
            outdated == Stale(now)
<1>5. /\ w.stale => outdated = exceeded \cup Owed(r)
      /\ Recorded({}, exceeded, outdated)
      /\ \A k : ~w.stale /\ Over(k) => (k \in Owed(r) <=> k \in exceeded)
    BY <1>1, <1>4
<1>. HIDE DEF exceeded, outdated
<1>6. RowsHang' /\ KeepingFits'
    BY <1>2 DEF BudgetsInv, RowsHang, KeepingFits, Live
<1>7. HistoriesFit' /\ CalmForgets'
    BY <1>5, RecordedKeeps
<1>8. SpendingFits' /\ SnapshotsHold' /\ OneAnnouncer'
    BY <1>2, SpenderLeaves, OthersHold DEF BudgetsInv
<1>9. \A k \in Keys :
        /\ alarms'[k] = IF ~Over(k)' THEN 0
                        ELSE IF k \in exceeded /\ alarms[k] < 2 THEN alarms[k] + 1 ELSE alarms[k]
        /\ Over(k)' /\ k \notin excused' => k \notin excused /\ k \notin outdated
        /\ Over(k)' <=> Over(k)
    BY <1>2, <1>5, RecordedKeeps, StatusesStay
<1>10. \A q \in Spenders : q # r =>
        spending'[q] = spending[q] /\ Fresh(q)' = Fresh(q) /\ Owed(q)' = Owed(q)
    BY <1>2, SpenderLeaves DEF BudgetsInv
<1>11. OwedUnannounced'
    <2>1. ASSUME NEW q \in Spenders, NEW k \in Keys, q # r, Fresh(q), spending[q].pc = "emitting",
                 k \in Owed(q), k \notin excused'
          PROVE  alarms'[k] = 0
        <3>1. CASE ~Over(k)
            BY <1>9, <3>1
        <3>2. CASE Over(k)
            <4>1. w.stale
                BY <1>2, <1>3, <2>1 DEF BudgetsInv, OneAnnouncer
            <4>2. k \notin exceeded /\ alarms[k] = 0
                BY <1>5, <1>9, <2>1, <3>2, <4>1 DEF BudgetsInv, OwedUnannounced
            <4>. QED BY <1>9, <3>2, <4>2
        <3>. QED BY <3>1, <3>2
    <2>2. ~Fresh(r)'
        BY <1>2, SpenderLeaves DEF BudgetsInv
    <2>. QED BY <1>10, <2>1, <2>2 DEF OwedUnannounced
<1>12. ExceededAnnouncedOnce'
    <2>1. ASSUME NEW k \in Keys, Over(k)', k \notin excused'
          PROVE  \/ alarms'[k] = 1
                 \/ alarms'[k] = 0 /\ \E q \in Spenders : spending'[q].pc = "emitting" /\ k \in Owed(q)'
        <3>1. Over(k) /\ k \notin excused /\ k \notin outdated
            BY <1>9, <2>1
        <3>2. \/ alarms[k] = 1
              \/ alarms[k] = 0 /\ \E q \in Spenders : spending[q].pc = "emitting" /\ k \in Owed(q)
            BY <3>1 DEF BudgetsInv, ExceededAnnouncedOnce
        <3>3. CASE k \in Owed(r)
            <4>1. ~w.stale
                BY <1>5, <3>1, <3>3
            <4>2. alarms[k] = 0
                BY <1>2, <1>3, <3>1, <3>3, <4>1 DEF BudgetsInv, OwedUnannounced
            <4>. QED BY <1>5, <1>9, <2>1, <3>1, <3>3, <4>1, <4>2
        <3>4. CASE k \notin Owed(r)
            <4>1. k \notin exceeded
                BY <1>5, <3>1, <3>4
            <4>2. alarms'[k] = alarms[k]
                BY <1>9, <2>1, <4>1
            <4>. QED BY <1>10, <3>2, <3>4, <4>2
        <3>. QED BY <3>3, <3>4
    <2>. QED BY <2>1 DEF ExceededAnnouncedOnce
<1>. QED BY Zenon, <1>6, <1>7, <1>8, <1>11, <1>12 DEF BudgetsInv

\* A restart excuses what was over its limit and not announced yet.
LEMMA BudgetsRestartKeeps ==
    ASSUME BudgetsInv, BudgetsRestart
    PROVE  BudgetsInv'
<1>1. /\ spending' = [r \in Spenders |-> Waiting] /\ keeping' = [r \in Keepers |-> Resting]
      /\ UNCHANGED <<tree, expense, version, alarms>>
      /\ excused' = excused \cup {k \in Keys : Over(k) /\ alarms[k] = 0}
    BY DEF BudgetsRestart
<1>2. RowsHang' /\ KeepingFits' /\ HistoriesFit'
    BY <1>1 DEF BudgetsInv, RowsHang, KeepingFits, HistoriesFit, Live, Resting
<1>3. SpendingFits' /\ \A r \in Spenders : ~Fresh(r)'
    BY <1>1 DEF SpendingFits, Fresh, Waiting, SpenderFields
<1>4. SnapshotsHold' /\ OneAnnouncer' /\ OwedUnannounced'
    BY <1>3 DEF SnapshotsHold, OneAnnouncer, OwedUnannounced
<1>5. CalmForgets' /\ ExceededAnnouncedOnce'
    BY <1>1, StatusesStay DEF BudgetsInv, CalmForgets, ExceededAnnouncedOnce
<1>. QED BY Zenon, <1>2, <1>3, <1>4, <1>5 DEF BudgetsInv

\* At first nothing is spent, and nothing is over its limit.
LEMMA BudgetsStart == PlanningInit => BudgetsInv
<1>. SUFFICES ASSUME PlanningInit
              PROVE  BudgetsInv
    OBVIOUS
<1>1. PICK w \in Worlds : tree = w.tree /\ version = w.version
    BY DEF PlanningInit
<1>2. /\ expense = [s \in Slots |-> NoRow] /\ spending = [r \in Spenders |-> Waiting]
      /\ keeping = [r \in Keepers |-> Resting] /\ alarms = [k \in Keys |-> 0] /\ excused = {}
    BY DEF PlanningInit, BudgetsInit
<1>3. /\ tree \in [Categories -> [live : BOOLEAN, parent : Places]]
      /\ \A v \in version : v \in [nth : Nat, cat : {c \in Categories : tree[c].live}, from : Months,
                                   to : Months \cup {Open}, limit : Limits]
    BY <1>1, WorldsAssumption
<1>4. RowsHang
    BY <1>2, <1>3 DEF RowsHang, NoRow, Live, ExpenseFields, VersionFields
<1>5. SpendingFits /\ KeepingFits /\ HistoriesFit
    BY <1>2 DEF SpendingFits, KeepingFits, HistoriesFit, Waiting, Resting, SpenderFields
<1>6. SnapshotsHold /\ OneAnnouncer /\ OwedUnannounced
    BY <1>2 DEF SnapshotsHold, OneAnnouncer, OwedUnannounced, Fresh, Waiting
<1>7. \A k \in Keys : ~Over(k)
    <2>1. ASSUME NEW c, NEW m \in Months
          PROVE  Spent(c, m) = 0
        <3>1. {s \in Slots : expense[s].cat \in Subtree(c) /\ expense[s].month = m} = {}
            BY <1>2, <2>1 DEF NoRow, Months
        <3>. QED BY <3>1, SumOfNone DEF Spent
    <2>2. ASSUME NEW c, NEW m \in Months, NEW v \in version
          PROVE  Status(v, m) # "exceeded"
        <3>1. v.limit \in Nat \ {0}
            BY <1>3, <2>2, BudgetsAssumption
        <3>. QED BY <2>1, <3>1 DEF Status
    <2>3. ASSUME NEW c, NEW m \in Months
          PROVE  "exceeded" \notin StatusesOf(c, m)
        BY <2>2, <2>3 DEF StatusesOf, InForce
    <2>. QED BY <2>3 DEF Over, Keys
<1>8. CalmForgets /\ ExceededAnnouncedOnce
    BY <1>2, <1>7 DEF CalmForgets, ExceededAnnouncedOnce
<1>. QED BY Zenon, <1>4, <1>5, <1>6, <1>8 DEF BudgetsInv

\* Where the household's steps meet the budgets.
LEMMA BudgetsMeet ==
    ASSUME PlanningNext \/ UNCHANGED planningVars
    PROVE  \/ UNCHANGED <<tree, expense, version, spending, keeping, alarms, excused>>
           \/ \E r \in Spenders, s \in Slots :
                \/ ExpenseRemove(r, s)
                \/ \E c \in Categories, m \in Months, a \in Amounts :
                      \/ ExpenseCreate(r, s, c, m, a) \/ ExpenseUpdate(r, s, c, m, a)
                      \/ \E t \in Slots : PlanCreate(r, s, t, c, m, a)
           \/ \E r \in Keepers : \/ \E c \in Categories, limit \in Limits : ReplaceRead(r, c, limit)
                                 \/ \E v \in version : EndRead(r, v)
           \/ \E r \in Editors : CategoryChange(r) \/ CategoryGoes(r)
           \/ \E r \in Spenders : SpendCommit(r) \/ SpendEmit(r)
           \/ \E r \in Keepers : ReplaceWrite(r) \/ EndWrite(r)
           \/ BudgetsRestart
<1>1. UNCHANGED budgetVars => UNCHANGED <<tree, expense, version, spending, keeping, alarms, excused>>
    BY DEF budgetVars, categoryVars, spendVars
<1>2. CASE CategoryRequest
    BY <1>2 DEF CategoryRequest, CategoryRead, CategoryCreateRead, CategoryUpdateRead, CategoryRemoveRead,
                Place, spendVars
<1>3. CASE ExpenseRequest \/ BudgetRequest
    BY <1>3 DEF ExpenseRequest, BudgetRequest
<1>4. CASE TransferRequest \/ GoalRequest \/ ReportRequest \/ WriteRequest
    BY <1>1, <1>4 DEF TransferRequest, GoalRequest, ReportRequest, WriteRequest
<1>5. CASE CategoryStep \/ BudgetStep \/ Restart
    BY <1>5 DEF CategoryStep, BudgetStep, Restart
<1>6. CASE GoalStep \/ ReportSteps \/ AuditSteps \/ Delivers \/ Device \/ Later
    BY <1>1, <1>6 DEF GoalStep, ReportSteps, AuditSteps, Delivers, Device, Later
<1>7. CASE NewMonth
    BY <1>7 DEF NewMonth, MonthEnds, categoryVars
<1>8. CASE Idle \/ UNCHANGED planningVars
    BY <1>1, <1>8 DEF Idle, planningVars
<1>. QED BY <1>2, <1>3, <1>4, <1>5, <1>6, <1>7, <1>8 DEF PlanningNext

\* Planning's specification keeps the budgets' invariant.
THEOREM BudgetsInvariant == PlanningSpec => []BudgetsInv
<1>1. BudgetsInv /\ [PlanningNext]_planningVars => BudgetsInv'
    <2>1. SUFFICES ASSUME BudgetsInv, PlanningNext \/ UNCHANGED planningVars
                   PROVE  BudgetsInv'
        OBVIOUS
    <2>2. CASE UNCHANGED <<tree, expense, version, spending, keeping, alarms, excused>>
        <3>1. KeepingFits'
            BY <2>1, <2>2 DEF BudgetsInv, KeepingFits
        <3>. QED BY <2>1, <2>2, <3>1, QuietBudgets
    <2>3. ASSUME NEW r \in Spenders, NEW s \in Slots,
                 \/ ExpenseRemove(r, s)
                 \/ \E c \in Categories, m \in Months, a \in Amounts :
                      \/ ExpenseCreate(r, s, c, m, a) \/ ExpenseUpdate(r, s, c, m, a)
                      \/ \E t \in Slots : PlanCreate(r, s, t, c, m, a)
          PROVE  BudgetsInv'
        BY <2>1, <2>3, ExpenseRequestsKeep
    <2>4. ASSUME NEW r \in Keepers,
                 \/ \E c \in Categories, limit \in Limits : ReplaceRead(r, c, limit)
                 \/ \E v \in version : EndRead(r, v)
          PROVE  BudgetsInv'
        BY <2>1, <2>4, KeepReadKeeps
    <2>5. ASSUME NEW r \in Editors, CategoryChange(r) \/ CategoryGoes(r)
          PROVE  BudgetsInv'
        BY <2>1, <2>5, CategoryChangeKeeps, CategoryGoesKeeps
    <2>6. ASSUME NEW r \in Spenders, SpendCommit(r) \/ SpendEmit(r)
          PROVE  BudgetsInv'
        BY <2>1, <2>6, CommitSpendKeeps, EmitSpendKeeps
    <2>7. ASSUME NEW r \in Keepers, ReplaceWrite(r) \/ EndWrite(r)
          PROVE  BudgetsInv'
        BY <2>1, <2>7, KeepWriteKeeps
    <2>8. CASE BudgetsRestart
        BY <2>1, <2>8, BudgetsRestartKeeps
    <2>. QED BY <2>1, <2>2, <2>3, <2>4, <2>5, <2>6, <2>7, <2>8, BudgetsMeet
<1>. QED BY <1>1, BudgetsStart, PTL DEF PlanningSpec

\* A month that went over a budget was announced once, or the writer that took it
\* there still owes it, but for what a stale snapshot, a silent path or a restart
\* excuses (ExceededAnnouncedOnce, Budgets.tla).
THEOREM AnnouncedOnce == PlanningSpec => []ExceededAnnouncedOnce
<1>1. BudgetsInv => ExceededAnnouncedOnce
    BY DEF BudgetsInv
<1>. QED BY <1>1, BudgetsInvariant, PTL

-----------------------------------------------------------------------------
(* The category tree *)

\* The three levels of a tree: the roots, their children and theirs.
First(t) == Under(t, {NoCategory})
Second(t) == Under(t, First(t))
Third(t) == Under(t, Second(t))
Trees == [Categories -> [live : BOOLEAN, parent : Places]]

\* A set of naturals has a least element.
LEMMA LeastFound ==
    ASSUME NEW T \in SUBSET Nat, T # {}
    PROVE  \E x \in T : \A y \in T : x <= y
<1>1. \A x, y \in Nat : x < y <=> <<x, y>> \in OpToRel(<, Nat)
    BY DEF OpToRel
<1>2. \E R, S : S = Nat /\ IsWellFoundedOn(R, S) /\ \A x, y \in Nat : x < y <=> <<x, y>> \in R
    BY Zenon, <1>1, NatLessThanWellFounded
<1>3. PICK R, S : S = Nat /\ IsWellFoundedOn(R, S) /\ \A x, y \in Nat : x < y <=> <<x, y>> \in R
    BY <1>2
<1>4. IsWellFoundedOn(R, S) /\ T \subseteq S
    BY <1>3
<1>5. PICK x \in T : \A y \in T : ~(<<y, x>> \in R)
    BY Zenon, <1>4, WFMin
<1>6. \A y \in T : ~(y < x)
    BY <1>3, <1>5
<1>. QED BY <1>6

\* One step up from all of X.
Climbed(t, X) == X \cup ({t[x].parent : x \in X} \ {NoCategory})

\* The climb: after two steps, or after one that was the last, nothing is added.
LEMMA ClimbEnds ==
    ASSUME NEW t, NEW c, NEW A, NEW B, NEW N \in Nat, N = Cardinality(Categories),
           A = Climbed(t, {c}), B = Climbed(t, A), B = Climbed(t, B),
           N >= 2 \/ (N >= 1 /\ A = B)
    PROVE  Above(t, c) = B
<1>. DEFINE step(X) == Climbed(t, X)
            climb == [n \in 0..N |-> IF n = 0 THEN {c} ELSE IF n = 1 THEN A ELSE B]
            up == CHOOSE f : f = [n \in 0..N |-> IF n = 0 THEN {c} ELSE
                      f[n - 1] \cup ({t[x].parent : x \in f[n - 1]} \ {NoCategory})]
<1>0. step({c}) = A /\ step(A) = B /\ step(B) = B
    OBVIOUS
<1>. HIDE DEF step
<1>1. climb = [n \in 0..N |-> IF n = 0 THEN {c} ELSE step(climb[n - 1])]
    <2>1. ASSUME NEW n \in 0..N
          PROVE  climb[n] = IF n = 0 THEN {c} ELSE step(climb[n - 1])
        <3>1. CASE n = 0
            BY <3>1
        <3>2. CASE n = 1
            <4>1. climb[1] = A /\ climb[0] = {c} /\ 1 - 1 = 0
                BY <3>2
            <4>. QED BY <3>2, <4>1, <1>0
        <3>3. CASE n > 1
            <4>1. n - 1 \in 0..N /\ n - 1 # 0 /\ n # 0 /\ n # 1
                BY <3>3
            <4>2. climb[n] = B /\ climb[n - 1] \in {A, B}
                BY <4>1
            <4>. QED BY <4>1, <4>2, <1>0, <3>3
        <3>. QED BY <3>1, <3>2, <3>3
    <2>. QED BY <2>1
<1>2. up = [n \in 0..N |-> IF n = 0 THEN {c} ELSE step(up[n - 1])]
    <2>1. \E f : f = [n \in 0..N |-> IF n = 0 THEN {c} ELSE
                      f[n - 1] \cup ({t[x].parent : x \in f[n - 1]} \ {NoCategory})]
        BY <1>1 DEF step, Climbed
    <2>. QED BY <2>1 DEF step, Climbed
<1>. HIDE DEF up, climb
<1>3. \A n \in 0..N : up[n] = IF n = 0 THEN {c} ELSE step(up[n - 1])
    BY <1>2
<1>4. \A n \in 0..N : n >= 2 => up[n] = B
    <2>. DEFINE T == {n \in 0..N : n >= 2 /\ up[n] # B}
    <2>1. ASSUME T # {}
          PROVE  FALSE
        <3>1. T \in SUBSET Nat
            OBVIOUS
        <3>2. PICK n \in T : \A m \in T : n <= m
            BY <2>1, <3>1, LeastFound
        <3>3. n \in 0..N /\ n - 1 \in 0..N /\ up[n] = step(up[n - 1])
            BY <3>2, <1>3
        <3>4. CASE n = 2
            <4>1. 0 \in 0..N /\ 1 \in 0..N
                BY <3>3, <3>4
            <4>2. up[0] = {c} /\ up[1] = step(up[0])
                BY <4>1, <1>3, 1 - 1 = 0
            <4>3. up[n] = step(up[1])
                BY <3>3, <3>4, 2 - 1 = 1
            <4>4. up[n] = B
                BY <4>2, <4>3, <1>0
            <4>. QED BY <3>2, <4>4
        <3>5. CASE n # 2
            <4>1. n - 1 >= 2 /\ n - 1 \notin T
                BY <3>2, <3>3, <3>5
            <4>2. up[n - 1] = B
                BY <4>1, <3>3
            <4>. QED BY <3>2, <3>3, <4>2, <1>0
        <3>. QED BY <3>4, <3>5
    <2>. QED BY <2>1
<1>5. up[N] = B
    <2>1. CASE N >= 2
        BY <2>1, <1>4
    <2>2. CASE N = 1 /\ A = B
        <3>0. N = 1
            BY Zenon, <2>2
        <3>1. 0 \in 0..N /\ 1 \in 0..N
            BY <3>0
        <3>2. up[0] = {c} /\ up[1] = step(up[0])
            BY <3>1, <1>3, 1 - 1 = 0
        <3>. QED BY <2>2, <3>2, <1>0
    <2>3. N >= 2 \/ (N = 1 /\ A = B)
        OBVIOUS
    <2>. QED BY <2>1, <2>2, <2>3
<1>6. Above(t, c) = up[N]
    BY DEF Above, up
<1>. QED BY <1>5, <1>6

\* Two things are two, and three are three.
LEMMA FewCounted ==
    /\ \A a : Cardinality({a}) = 1
    /\ \A a, b : a # b => Cardinality({a, b}) = 2
    /\ \A a, b, c : a # b /\ a # c /\ b # c => Cardinality({a, b, c}) = 3
<1>1. \A a : IsFiniteSet({a}) /\ Cardinality({a}) = 1
    BY FS_Singleton
<1>2. \A a, b : a # b => IsFiniteSet({a, b}) /\ Cardinality({a, b}) = 2
    <2>1. SUFFICES ASSUME NEW a, NEW b, a # b
                   PROVE  IsFiniteSet({a, b}) /\ Cardinality({a, b}) = 2
        OBVIOUS
    <2>2. {a, b} = {a} \cup {b} /\ b \notin {a}
        BY <2>1
    <2>3. /\ IsFiniteSet({a} \cup {b})
          /\ Cardinality({a} \cup {b}) = IF b \in {a} THEN Cardinality({a}) ELSE Cardinality({a}) + 1
        BY <1>1, FS_AddElement
    <2>4. Cardinality({a}) = 1
        BY <1>1
    <2>. QED BY <2>2, <2>3, <2>4
<1>3. ASSUME NEW a, NEW b, NEW c, a # b, a # c, b # c
      PROVE  Cardinality({a, b, c}) = 3
    <2>1. {a, b, c} = {a, b} \cup {c} /\ c \notin {a, b}
        BY <1>3
    <2>2. IsFiniteSet({a, b}) /\ Cardinality({a, b}) = 2
        BY <1>2, <1>3
    <2>3. Cardinality({a, b} \cup {c}) = IF c \in {a, b} THEN Cardinality({a, b}) ELSE Cardinality({a, b}) + 1
        BY <2>2, FS_AddElement
    <2>. QED BY <2>1, <2>2, <2>3
<1>4. \A a, b, c : a # b /\ a # c /\ b # c => Cardinality({a, b, c}) = 3
    BY <1>3
<1>. QED BY Zenon, <1>1, <1>2, <1>4

\* There are at least as many categories as one can name.
LEMMA EnoughCategories ==
    /\ Cardinality(Categories) \in Nat
    /\ \A a \in Categories : Cardinality(Categories) >= 1
    /\ \A a, b \in Categories : a # b => Cardinality(Categories) >= 2
<1>1. Cardinality(Categories) \in Nat
    BY CategoriesAssumption, FS_CardinalityType
<1>2. \A S \in SUBSET Categories : Cardinality(S) <= Cardinality(Categories)
    BY CategoriesAssumption, FS_Subset
<1>3. \A a \in Categories : {a} \in SUBSET Categories /\ Cardinality({a}) = 1
    BY FewCounted
<1>4. \A a, b \in Categories : a # b => {a, b} \in SUBSET Categories /\ Cardinality({a, b}) = 2
    BY FewCounted
<1>5. ASSUME NEW a \in Categories
      PROVE  Cardinality(Categories) >= 1
    BY <1>1, <1>2, <1>3
<1>6. ASSUME NEW a \in Categories, NEW b \in Categories, a # b
      PROVE  Cardinality(Categories) >= 2
    <2>1. {a, b} \in SUBSET Categories /\ Cardinality({a, b}) = 2
        BY <1>4, <1>6
    <2>2. Cardinality({a, b}) <= Cardinality(Categories)
        BY <1>2, <2>1
    <2>. QED BY <1>1, <2>1, <2>2
<1>. QED BY <1>1, <1>5, <1>6

\* No category is on two levels.
LEMMA LevelsApart ==
    ASSUME NEW t \in Trees
    PROVE  /\ First(t) \subseteq Categories /\ Second(t) \subseteq Categories /\ Third(t) \subseteq Categories
           /\ First(t) \cap Second(t) = {} /\ Second(t) \cap Third(t) = {} /\ First(t) \cap Third(t) = {}
<1>1. First(t) \subseteq Categories /\ Second(t) \subseteq Categories /\ Third(t) \subseteq Categories
    BY DEF First, Second, Third, Under
<1>2. \A c \in First(t) : t[c].parent = NoCategory
    BY DEF First, Under
<1>3. \A c \in Second(t) : t[c].parent \in First(t)
    BY DEF Second, Under
<1>4. \A c \in Third(t) : t[c].parent \in Second(t)
    BY DEF Third, Under
<1>5. NoCategory \notin Categories
    BY CategoriesAssumption
<1>6. First(t) \cap Second(t) = {}
    BY <1>1, <1>2, <1>3, <1>5
<1>. QED BY <1>1, <1>2, <1>3, <1>4, <1>5, <1>6

\* What is above a category on each level.
LEMMA AboveOnLevels ==
    ASSUME NEW t \in Trees
    PROVE  /\ \A c \in First(t) : t[c].parent = NoCategory /\ Above(t, c) = {c}
           /\ \A c \in Second(t) : t[c].parent \in First(t) /\ Above(t, c) = {c, t[c].parent}
           /\ \A c \in Third(t) : /\ t[c].parent \in Second(t) /\ t[t[c].parent].parent \in First(t)
                                  /\ Above(t, c) = {c, t[c].parent, t[t[c].parent].parent}
<1>1. /\ \A c \in First(t) : t[c].parent = NoCategory
      /\ \A c \in Second(t) : t[c].parent \in First(t)
      /\ \A c \in Third(t) : t[c].parent \in Second(t)
    BY DEF First, Second, Third, Under
<1>2. /\ First(t) \subseteq Categories /\ Second(t) \subseteq Categories /\ Third(t) \subseteq Categories
      /\ First(t) \cap Second(t) = {} /\ Second(t) \cap Third(t) = {} /\ First(t) \cap Third(t) = {}
    BY LevelsApart
<1>3. NoCategory \notin Categories
    BY CategoriesAssumption
<1>4. ASSUME NEW c \in First(t)
      PROVE  Above(t, c) = {c}
    <2>1. {c} = Climbed(t, {c})
        BY <1>1 DEF Climbed
    <2>2. Cardinality(Categories) \in Nat /\ Cardinality(Categories) >= 1
        BY <1>2, EnoughCategories
    <2>. QED BY <2>1, <2>2, ClimbEnds
<1>5. ASSUME NEW c \in Second(t)
      PROVE  Above(t, c) = {c, t[c].parent}
    <2>. DEFINE p == t[c].parent
    <2>1. p \in First(t) /\ t[p].parent = NoCategory /\ p # c /\ p # NoCategory
        BY <1>1, <1>2, <1>3
    <2>2. {c, p} = Climbed(t, {c}) /\ {c, p} = Climbed(t, {c, p})
        BY <2>1 DEF Climbed
    <2>3. Cardinality(Categories) \in Nat /\ Cardinality(Categories) >= 2
        BY <1>2, <2>1, EnoughCategories
    <2>. QED BY <2>2, <2>3, ClimbEnds
<1>6. ASSUME NEW c \in Third(t)
      PROVE  Above(t, c) = {c, t[c].parent, t[t[c].parent].parent}
    <2>. DEFINE p == t[c].parent
                g == t[p].parent
    <2>1. /\ p \in Second(t) /\ g \in First(t) /\ t[g].parent = NoCategory /\ p # c
          /\ p # NoCategory /\ g # NoCategory
        BY <1>1, <1>2, <1>3
    <2>. HIDE DEF g
    <2>2. {c, p} = Climbed(t, {c})
        BY <2>1 DEF Climbed
    <2>3. t[p].parent = g
        BY DEF g
    <2>. HIDE DEF p
    <2>4. t[c].parent = p
        BY DEF p
    <2>5. {c, p, g} = Climbed(t, {c, p}) /\ {c, p, g} = Climbed(t, {c, p, g})
        BY <2>1, <2>3, <2>4 DEF Climbed
    <2>6. Cardinality(Categories) \in Nat /\ Cardinality(Categories) >= 2
        BY <1>2, <2>1, EnoughCategories
    <2>7. Above(t, c) = {c, p, g}
        BY <2>2, <2>5, <2>6, ClimbEnds
    <2>. QED BY <2>7 DEF p, g
<1>. QED BY <1>1, <1>2, <1>4, <1>5, <1>6

\* In an orderly tree no category is below its grandchildren's children, and what
\* hangs from a category is one level lower.
LEMMA Below ==
    ASSUME tree \in Trees, Orderly(tree)
    PROVE  /\ \A c : Children(c) \subseteq Categories
           /\ \A c \in Categories : Children(c) # {} => c \in First(tree) \cup Second(tree)
           /\ \A c \in First(tree) : Children(c) \subseteq Second(tree)
           /\ \A c \in Second(tree) : Children(c) \subseteq Third(tree)
           /\ \A c \in Third(tree) : Children(c) = {}
           /\ \A c \in Categories : \A k \in Children(c) : k # c /\ \A x \in Children(k) : Children(x) = {}
<1>1. /\ First(tree) \subseteq Categories /\ Second(tree) \subseteq Categories /\ Third(tree) \subseteq Categories
      /\ First(tree) \cap Second(tree) = {} /\ Second(tree) \cap Third(tree) = {}
      /\ First(tree) \cap Third(tree) = {}
    BY LevelsApart
<1>2. \A x \in Categories : Live(x) => x \in First(tree) \cup Second(tree) \cup Third(tree)
    BY DEF Orderly, First, Second, Third, Live
<1>3. /\ \A x \in First(tree) : Parent(x) = NoCategory
      /\ \A x \in Second(tree) : Parent(x) \in First(tree)
      /\ \A x \in Third(tree) : Parent(x) \in Second(tree)
    BY DEF First, Second, Third, Under, Parent
<1>4. NoCategory \notin Categories
    BY CategoriesAssumption
<1>5. \A c : \A k \in Children(c) : k \in Categories /\ Live(k) /\ Parent(k) = c
    BY DEF Children
<1>6. ASSUME NEW c \in Categories, NEW k \in Children(c)
      PROVE  \/ c \in First(tree) /\ k \in Second(tree)
             \/ c \in Second(tree) /\ k \in Third(tree)
    BY <1>1, <1>2, <1>3, <1>4, <1>5
<1>7. \A c \in Third(tree) : Children(c) = {}
    BY <1>1, <1>6
<1>8. \A c \in First(tree) : Children(c) \subseteq Second(tree)
    BY <1>1, <1>6
<1>10. \A c \in Second(tree) : Children(c) \subseteq Third(tree)
    BY <1>1, <1>6
<1>9. ASSUME NEW c \in Categories, NEW k \in Children(c)
       PROVE  k # c /\ \A x \in Children(k) : Children(x) = {}
    <2>1. k \in Categories
        BY <1>5
    <2>2. k # c
        BY <1>1, <1>6
    <2>3. ASSUME NEW x \in Children(k)
          PROVE  x \in Third(tree)
        BY <1>1, <1>6, <2>1
    <2>. QED BY <2>2, <2>3, <1>7
<1>. QED BY <1>5, <1>6, <1>7, <1>8, <1>9, <1>10

\* The greatest of some ones and twos.
LEMMA BelowThree ==
    ASSUME NEW S \in SUBSET {1, 2}, S # {}
    PROVE  Max(S) = IF 2 \in S THEN 2 ELSE 1
<1>1. CASE 2 \in S
    <2>1. \A n \in S : 2 >= n
        OBVIOUS
    <2>2. \A m \in S : (\A n \in S : m >= n) => m = 2
        BY <1>1
    <2>. QED BY <1>1, <2>1, <2>2 DEF Max
<1>2. CASE 2 \notin S
    <2>1. S = {1}
        BY <1>2
    <2>2. \E m \in S : \A n \in S : m >= n
        BY <2>1
    <2>. QED BY <1>2, <2>1, <2>2 DEF Max
<1>. QED BY <1>1, <1>2

\* The span of a category counts its children and its grandchildren.
LEMMA SpanCounts ==
    ASSUME tree \in Trees, Orderly(tree), NEW c \in Categories
    PROVE  /\ Span(c) \in 1..3
           /\ Children(c) # {} => Span(c) >= 2
           /\ (\E k \in Children(c) : Children(k) # {}) => Span(c) = 3
<1>. DEFINE P == Categories \X SUBSET Categories
            deep(x, seen) == \E k \in Children(x) : k \notin seen \cup {x} /\ Children(k) # {}
            size(x, seen) == IF x \in seen \/ Children(x) = {} THEN 1
                             ELSE IF deep(x, seen) THEN 3 ELSE 2
            sizes == [at \in P |-> size(at[1], at[2])]
            next(f, x, seen) == IF x \in seen \/ Children(x) = {} THEN 1
                                ELSE 1 + Max({f[<<k, seen \cup {x}>>] : k \in Children(x)})
            span == CHOOSE f : f = [at \in P |-> next(f, at[1], at[2])]
<1>1. ASSUME NEW x \in Categories, NEW seen \in SUBSET Categories
      PROVE  sizes[<<x, seen>>] = size(x, seen)
    OBVIOUS
<1>2. ASSUME NEW x \in Categories, NEW seen \in SUBSET Categories
      PROVE  sizes[<<x, seen>>] = next(sizes, x, seen)
    <2>1. /\ Children(x) \subseteq Categories /\ seen \cup {x} \in SUBSET Categories
          /\ \A k \in Children(x) : k # x /\ \A y \in Children(k) : Children(y) = {}
        BY Below
    <2>2. CASE x \in seen \/ Children(x) = {}
        BY <1>1, <2>2
    <2>3. CASE x \notin seen /\ Children(x) # {}
        <3>. DEFINE S == {sizes[<<k, seen \cup {x}>>] : k \in Children(x)}
        <3>1. ASSUME NEW k \in Children(x)
              PROVE  sizes[<<k, seen \cup {x}>>] = IF k \notin seen \cup {x} /\ Children(k) # {} THEN 2 ELSE 1
            <4>1. ~deep(k, seen \cup {x})
                BY <2>1, <3>1
            <4>2. sizes[<<k, seen \cup {x}>>] = size(k, seen \cup {x})
                BY <1>1, <2>1, <3>1
            <4>. QED BY <4>1, <4>2
        <3>2. sizes[<<x, seen>>] = IF deep(x, seen) THEN 3 ELSE 2
            BY <1>1, <2>3
        <3>. HIDE DEF sizes
        <3>3. S \subseteq {1, 2}
            BY <3>1
        <3>4. deep(x, seen) => 2 \in S
            BY <3>1
        <3>5. ASSUME ~deep(x, seen)
              PROVE  2 \notin S
            <4>1. ASSUME NEW k \in Children(x)
                  PROVE  sizes[<<k, seen \cup {x}>>] # 2
                <5>1. ~(k \notin seen \cup {x} /\ Children(k) # {})
                    BY <3>5
                <5>. QED BY <3>1, <5>1
            <4>. QED BY <4>1
        <3>6. S # {}
            BY <2>3
        <3>. HIDE DEF S, deep
        <3>7. Max(S) = IF 2 \in S THEN 2 ELSE 1
            BY <3>3, <3>6, BelowThree
        <3>8. next(sizes, x, seen) = 1 + Max(S)
            BY <2>3 DEF S
        <3>. HIDE DEF next
        <3>. QED BY <3>2, <3>4, <3>5, <3>7, <3>8
    <2>. QED BY <2>2, <2>3
<1>. HIDE DEF next
<1>3. sizes = [at \in P |-> next(sizes, at[1], at[2])]
    <2>1. \A at \in P : sizes[at] = next(sizes, at[1], at[2])
        <3>1. \A at \in P : at = <<at[1], at[2]>> /\ at[1] \in Categories /\ at[2] \in SUBSET Categories
            OBVIOUS
        <3>. HIDE DEF sizes
        <3>. QED BY <1>2, <3>1
    <2>. QED BY <2>1
<1>4. span = [at \in P |-> next(span, at[1], at[2])]
    BY <1>3
<1>5. Span(c) = span[<<c, {}>>]
    BY DEF Span, span, next
<1>. HIDE DEF span, sizes
<1>6. ASSUME NEW x \in Categories, NEW seen \in SUBSET Categories
      PROVE  span[<<x, seen>>] = next(span, x, seen)
    <2>1. <<x, seen>> \in P
        OBVIOUS
    <2>. QED BY <1>4, <2>1
<1>7. ASSUME NEW x \in Categories, Children(x) = {}, NEW seen \in SUBSET Categories
      PROVE  span[<<x, seen>>] = 1
    BY <1>6, <1>7 DEF next
<1>8. ASSUME NEW x \in Categories, Children(x) # {}, \A k \in Children(x) : Children(k) = {},
             NEW seen \in SUBSET Categories, x \notin seen
      PROVE  span[<<x, seen>>] = 2
    <2>. DEFINE S == {span[<<k, seen \cup {x}>>] : k \in Children(x)}
    <2>1. Children(x) \subseteq Categories /\ seen \cup {x} \in SUBSET Categories
        BY Below
    <2>2. \A k \in Children(x) : span[<<k, seen \cup {x}>>] = 1
        BY <1>7, <1>8, <2>1
    <2>3. S \in SUBSET {1, 2} /\ 2 \notin S
        <3>1. \A y \in S : y = 1
            BY <2>2
        <3>. HIDE DEF S
        <3>. QED BY <3>1
    <2>4. S # {}
        BY <1>8
    <2>5. span[<<x, seen>>] = 1 + Max(S)
        BY <1>6, <1>8 DEF next
    <2>. HIDE DEF S
    <2>. QED BY <2>3, <2>4, <2>5, BelowThree
<1>9. ASSUME NEW x \in Categories, NEW k \in Children(x), Children(k) # {}
       PROVE  span[<<x, {}>>] = 3
    <2>. DEFINE S == {span[<<y, {} \cup {x}>>] : y \in Children(x)}
    <2>1. /\ Children(x) \subseteq Categories /\ {} \cup {x} \in SUBSET Categories
          /\ \A y \in Children(x) : y # x /\ \A z \in Children(y) : Children(z) = {}
        BY Below
    <2>2. \A y \in Children(x) : span[<<y, {} \cup {x}>>] = IF Children(y) = {} THEN 1 ELSE 2
        BY <1>7, <1>8, <2>1
    <2>3. S \in SUBSET {1, 2} /\ 2 \in S
        BY <1>9, <2>2
    <2>4. span[<<x, {}>>] = 1 + Max(S)
        <3>1. x \notin {} /\ Children(x) # {} /\ {} \in SUBSET Categories
            BY <1>9
        <3>. QED BY <1>6, <3>1 DEF next
    <2>. HIDE DEF S
    <2>5. S # {}
        BY <2>3
    <2>6. Max(S) = 2
        BY <2>3, <2>5, BelowThree
    <2>. QED BY <2>4, <2>6
<1>. QED BY <1>5, <1>7, <1>8, <1>9

-----------------------------------------------------------------------------
\* Where c may go without breaking the levels: its children and theirs come along.
Suits(t, c, p) ==
    \/ p = NoCategory \/ p = t[c].parent
    \/ p \in First(t) \ {c} /\ \A x, y \in Categories :
                                  ~(t[x].live /\ t[x].parent = c /\ t[y].live /\ t[y].parent = x)
    \/ p \in Second(t) \ {c} /\ t[p].parent # c /\ \A x \in Categories : ~(t[x].live /\ t[x].parent = c)

\* assessCategoryPlacement lets nothing else pass.
LEMMA FitsSuits ==
    ASSUME tree \in Trees, Orderly(tree), NEW c \in Categories, NEW p \in Places, Fits(c, p)
    PROVE  /\ Live(c) => Suits(tree, c, p)
           /\ ~Live(c) => p = NoCategory \/ p \in First(tree) \cup Second(tree)
<1>1. CASE p = NoCategory
    BY <1>1 DEF Suits
<1>2. CASE p # NoCategory
    <2>1. p \in Categories /\ Live(p) /\ p \notin Subtree(c) /\ Depth(p) + Span(c) <= MaxDepth
        BY <1>2 DEF Fits, Places
    <2>2. p \in First(tree) \cup Second(tree) \cup Third(tree)
        BY <2>1 DEF Orderly, First, Second, Third, Live
    <2>3. c \notin Ancestors(p) /\ p # c
        BY <2>1 DEF Subtree
    <2>4. /\ Span(c) \in 1..3
          /\ Children(c) # {} => Span(c) >= 2
          /\ (\E k \in Children(c) : Children(k) # {}) => Span(c) = 3
        BY SpanCounts
    <2>5. /\ First(tree) \subseteq Categories /\ Second(tree) \subseteq Categories /\ Third(tree) \subseteq Categories
          /\ First(tree) \cap Second(tree) = {} /\ Second(tree) \cap Third(tree) = {}
          /\ First(tree) \cap Third(tree) = {}
        BY LevelsApart
    <2>6. Depth(p) = Cardinality(Above(tree, p)) /\ Ancestors(p) = Above(tree, p)
        BY DEF Depth, Ancestors
    <2>7. CASE p \in First(tree)
        <3>1. Depth(p) = 1
            BY <2>6, <2>7, AboveOnLevels, FewCounted
        <3>2. \A k \in Children(c) : Children(k) = {}
            BY <2>1, <2>4, <3>1 DEF MaxDepth
        <3>3. \A x, y \in Categories : ~(tree[x].live /\ tree[x].parent = c /\ tree[y].live /\ tree[y].parent = x)
            BY <3>2 DEF Children, Live, Parent
        <3>. QED BY <2>3, <2>7, <3>3 DEF Suits
    <2>8. CASE p \in Second(tree)
        <3>1. tree[p].parent \in First(tree) /\ Above(tree, p) = {p, tree[p].parent}
            BY <2>8, AboveOnLevels
        <3>2. Depth(p) = 2
            <4>1. p # tree[p].parent
                BY <2>5, <2>8, <3>1
            <4>2. Cardinality({p, tree[p].parent}) = 2
                BY Zenon, <4>1, FewCounted
            <4>. QED BY <2>6, <3>1, <4>2
        <3>3. Children(c) = {}
            BY <2>1, <2>4, <3>2 DEF MaxDepth
        <3>4. \A x \in Categories : ~(tree[x].live /\ tree[x].parent = c)
            BY <3>3 DEF Children, Live, Parent
        <3>5. tree[p].parent # c
            BY <2>3, <2>6, <3>1
        <3>. QED BY <2>3, <2>8, <3>4, <3>5 DEF Suits
    <2>9. CASE p \in Third(tree)
        <3>1. /\ tree[p].parent \in Second(tree) /\ tree[tree[p].parent].parent \in First(tree)
              /\ Above(tree, p) = {p, tree[p].parent, tree[tree[p].parent].parent}
            BY <2>9, AboveOnLevels
        <3>2. Depth(p) = 3
            <4>1. p # tree[p].parent /\ p # tree[tree[p].parent].parent
                BY <2>5, <2>9, <3>1
            <4>2. tree[p].parent # tree[tree[p].parent].parent
                BY <2>5, <3>1
            <4>3. Cardinality({p, tree[p].parent, tree[tree[p].parent].parent}) = 3
                <5>. DEFINE a == tree[p].parent
                            b == tree[tree[p].parent].parent
                <5>1. p # a /\ p # b /\ a # b
                    BY <4>1, <4>2
                <5>. HIDE DEF a, b
                <5>2. Cardinality({p, a, b}) = 3
                    BY <5>1, FewCounted
                <5>. QED BY <5>2 DEF a, b
            <4>. QED BY <2>6, <3>1, <4>3
        <3>. QED BY <2>1, <2>4, <3>2 DEF MaxDepth
    <2>. QED BY <2>2, <2>7, <2>8, <2>9
<1>. QED BY <1>1, <1>2

\* A category that is created where it fits.
LEMMA NewCategory ==
    ASSUME NEW t \in Trees, Orderly(t), NEW c \in Categories, ~t[c].live, NEW p \in Places,
           p = NoCategory \/ p \in First(t) \cup Second(t)
    PROVE  Orderly([t EXCEPT ![c] = [live |-> TRUE, parent |-> p]])
<1>. DEFINE u == [t EXCEPT ![c] = [live |-> TRUE, parent |-> p]]
<1>1. /\ u[c].live /\ u[c].parent = p
      /\ \A x \in Categories \ {c} : u[x] = t[x]
    BY DEF Trees
<1>. HIDE DEF u
<1>2. \A S : Under(t, S) \subseteq Under(u, S)
    BY <1>1 DEF Under
<1>3. \A S, T : S \subseteq T => Under(u, S) \subseteq Under(u, T)
    BY DEF Under
<1>4. First(t) \subseteq First(u)
    BY <1>2 DEF First
<1>5. Second(t) \subseteq Second(u)
    BY <1>2, <1>3, <1>4 DEF Second
<1>6. Third(t) \subseteq Third(u)
    BY <1>2, <1>3, <1>5 DEF Third
<1>7. c \in First(u) \cup Second(u) \cup Third(u)
    <2>1. CASE p = NoCategory
        BY <1>1, <2>1 DEF First, Under
    <2>2. CASE p \in First(t)
        BY <1>1, <1>4, <2>2 DEF Second, Under
    <2>3. CASE p \in Second(t)
        BY <1>1, <1>5, <2>3 DEF Third, Under
    <2>. QED BY <2>1, <2>2, <2>3
<1>8. \A x \in Categories : t[x].live => x \in First(t) \cup Second(t) \cup Third(t)
    BY DEF Orderly, First, Second, Third
<1>9. \A x \in Categories : u[x].live => x \in First(u) \cup Second(u) \cup Third(u)
    BY <1>1, <1>4, <1>5, <1>6, <1>7, <1>8
<1>10. Orderly(u)
    BY <1>9 DEF Orderly, First, Second, Third
<1>. QED BY <1>10 DEF u

\* A category without children that goes.
LEMMA LeafGoes ==
    ASSUME NEW t \in Trees, Orderly(t), NEW c \in Categories,
           \A x \in Categories : ~(t[x].live /\ t[x].parent = c)
    PROVE  Orderly([t EXCEPT ![c] = Missing])
<1>. DEFINE u == [t EXCEPT ![c] = Missing]
<1>1. /\ ~u[c].live
      /\ \A x \in Categories \ {c} : u[x] = t[x]
    BY DEF Trees, Missing
<1>. HIDE DEF u
<1>2. c # NoCategory
    BY CategoriesAssumption
<1>3. First(t) \ {c} \subseteq First(u)
    BY <1>1 DEF First, Under
<1>4. Second(t) \ {c} \subseteq Second(u)
    <2>1. ASSUME NEW x \in Second(t) \ {c}
          PROVE  x \in Second(u)
        <3>1. x \in Categories /\ t[x].live /\ t[x].parent \in First(t)
            BY DEF Second, Under
        <3>2. t[x].parent \in First(u) /\ u[x] = t[x]
            BY <1>1, <1>3, <3>1
        <3>. QED BY <3>1, <3>2 DEF Second, Under
    <2>. QED BY <2>1
<1>5. Third(t) \ {c} \subseteq Third(u)
    <2>1. ASSUME NEW x \in Third(t) \ {c}
          PROVE  x \in Third(u)
        <3>1. x \in Categories /\ t[x].live /\ t[x].parent \in Second(t)
            BY DEF Third, Under
        <3>2. t[x].parent \in Second(u) /\ u[x] = t[x]
            BY <1>1, <1>4, <3>1
        <3>. QED BY <3>1, <3>2 DEF Third, Under
    <2>. QED BY <2>1
<1>6. \A x \in Categories : t[x].live => x \in First(t) \cup Second(t) \cup Third(t)
    BY DEF Orderly, First, Second, Third
<1>7. \A x \in Categories : u[x].live => x \in First(u) \cup Second(u) \cup Third(u)
    BY <1>1, <1>3, <1>4, <1>5, <1>6
<1>8. Orderly(u)
    BY <1>7 DEF Orderly, First, Second, Third
<1>. QED BY <1>8 DEF u

\* A category that moves to where it suits.
LEMMA MoveSuits ==
    ASSUME NEW t \in Trees, Orderly(t), NEW c \in Categories, t[c].live, NEW p \in Places, Suits(t, c, p)
    PROVE  Orderly([t EXCEPT ![c] = [live |-> TRUE, parent |-> p]])
<1>. DEFINE u == [t EXCEPT ![c] = [live |-> TRUE, parent |-> p]]
<1>1. /\ u \in Trees /\ u[c].live /\ u[c].parent = p
      /\ \A x \in Categories \ {c} : u[x] = t[x]
    BY DEF Trees
<1>2. p = t[c].parent => u = t
    BY DEF Trees
<1>. HIDE DEF u
<1>3. /\ First(t) \subseteq Categories /\ Second(t) \subseteq Categories /\ Third(t) \subseteq Categories
      /\ First(t) \cap Second(t) = {} /\ Second(t) \cap Third(t) = {} /\ First(t) \cap Third(t) = {}
    BY LevelsApart
<1>4. /\ \A x \in First(t) : t[x].live /\ t[x].parent = NoCategory
      /\ \A x \in Second(t) : t[x].live /\ t[x].parent \in First(t)
      /\ \A x \in Third(t) : t[x].live /\ t[x].parent \in Second(t)
    BY DEF First, Second, Third, Under
<1>5. \A x \in Categories : /\ u[x].live /\ u[x].parent = NoCategory => x \in First(u)
                            /\ u[x].live /\ u[x].parent \in First(u) => x \in Second(u)
                            /\ u[x].live /\ u[x].parent \in Second(u) => x \in Third(u)
    BY DEF First, Second, Third, Under
<1>6. First(t) \ {c} \subseteq First(u)
    BY <1>1, <1>3, <1>4, <1>5
<1>7. \A x \in Second(t) \ {c} : t[x].parent # c => x \in Second(u)
    BY <1>1, <1>3, <1>4, <1>5, <1>6
<1>8. \A x \in Third(t) \ {c} : t[x].parent # c /\ t[t[x].parent].parent # c => x \in Third(u)
    BY <1>1, <1>3, <1>4, <1>5, <1>7
<1>9. ASSUME p # t[c].parent, NEW x \in Categories, u[x].live
      PROVE  x \in First(u) \cup Second(u) \cup Third(u)
    <2>1. x # c => x \in First(t) \cup Second(t) \cup Third(t)
        BY <1>1, <1>9 DEF Orderly, First, Second, Third
    <2>2. CASE p = NoCategory
        <3>1. c \in First(u)
            BY <1>1, <1>5, <2>2
        <3>2. \A y \in Second(t) : y \in First(u) \cup Second(u)
            BY <1>1, <1>3, <1>4, <1>5, <1>7, <3>1
        <3>3. \A y \in Third(t) \ {c} : y \in Second(u) \cup Third(u)
            <4>1. SUFFICES ASSUME NEW y \in Third(t) \ {c}
                           PROVE  y \in Second(u) \cup Third(u)
                OBVIOUS
            <4>2. u[y] = t[y] /\ u[y].live /\ t[y].parent \in Second(t)
                BY <1>1, <1>3, <1>4, <4>1
            <4>. QED BY <1>3, <1>5, <3>2, <4>1, <4>2
        <3>. QED BY <1>6, <2>1, <3>1, <3>2, <3>3
    <2>3. CASE p \in First(t) \ {c} /\ \A a, b \in Categories :
                    ~(t[a].live /\ t[a].parent = c /\ t[b].live /\ t[b].parent = a)
        <3>1. c \in Second(u)
            BY <1>1, <1>5, <1>6, <2>3
        <3>2. \A y \in Second(t) \ {c} : y \in Second(u) \cup Third(u)
            BY <1>1, <1>3, <1>4, <1>5, <1>7, <3>1
        <3>3. \A y \in Third(t) \ {c} : y \in Third(u)
            <4>1. SUFFICES ASSUME NEW y \in Third(t) \ {c}
                           PROVE  y \in Third(u)
                OBVIOUS
            <4>2. u[y] = t[y] /\ u[y].live /\ t[y].live /\ y \in Categories
                BY <1>1, <1>3, <1>4, <4>1
            <4>3. CASE t[y].parent = c
                BY <1>5, <3>1, <4>2, <4>3
            <4>4. CASE t[y].parent # c
                <5>1. t[y].parent \in Categories /\ t[t[y].parent].live
                    BY <1>3, <1>4, <4>1
                <5>2. t[t[y].parent].parent # c
                    BY <2>3, <4>2, <5>1
                <5>. QED BY <1>8, <4>1, <4>4, <5>2
            <4>. QED BY <4>3, <4>4
        <3>. QED BY <1>6, <2>1, <3>1, <3>2, <3>3
    <2>4. CASE p \in Second(t) \ {c} /\ t[p].parent # c /\ \A a \in Categories : ~(t[a].live /\ t[a].parent = c)
        <3>1. c \in Third(u)
            BY <1>1, <1>5, <1>7, <2>4
        <3>2. \A y \in Second(t) \ {c} : y \in Second(u)
            BY <1>3, <1>4, <1>7, <2>4
        <3>3. \A y \in Third(t) \ {c} : y \in Third(u)
            <4>1. SUFFICES ASSUME NEW y \in Third(t) \ {c}
                           PROVE  y \in Third(u)
                OBVIOUS
            <4>2. t[y].live /\ t[y].parent \in Categories /\ t[t[y].parent].live /\ y \in Categories
                BY <1>3, <1>4, <4>1
            <4>. QED BY <1>8, <2>4, <4>1, <4>2
        <3>. QED BY <1>6, <2>1, <3>1, <3>2, <3>3
    <2>. QED BY <1>9, <2>2, <2>3, <2>4 DEF Suits
<1>10. p # t[c].parent => Orderly(u)
    BY <1>9 DEF Orderly, First, Second, Third
<1>. QED BY <1>2, <1>10 DEF u

-----------------------------------------------------------------------------
\* A place that was judged on the tree as it is still fits it.
PlaceFits(w) ==
    /\ w.pc \in {"new", "creating", "moving", "removing"} /\ w.stale \in BOOLEAN
    /\ w.pc # "new" => w.cat \in Categories /\ w.to \in Places
    /\ w.pc = "removing" => w.to = NoCategory
    /\ (w.pc = "creating" /\ ~w.stale /\ ~tangled) =>
            ~tree[w.cat].live /\ (w.to = NoCategory \/ w.to \in First(tree) \cup Second(tree))
    /\ (w.pc = "moving" /\ ~w.stale /\ ~tangled) => tree[w.cat].live /\ Suits(tree, w.cat, w.to)

TreeInv ==
    /\ tree \in Trees /\ tangled \in BOOLEAN
    /\ placing = [r \in Editors |-> placing[r]] /\ \A r \in Editors : PlaceFits(placing[r])
    /\ ~tangled => Orderly(tree)

\* However alike they are, three things are at most three.
LEMMA FewAreFew ==
    \A a, b, d : Cardinality({a}) <= 3 /\ Cardinality({a, b}) <= 3 /\ Cardinality({a, b, d}) <= 3
<1>1. SUFFICES ASSUME NEW a, NEW b, NEW d
               PROVE  Cardinality({a}) <= 3 /\ Cardinality({a, b}) <= 3 /\ Cardinality({a, b, d}) <= 3
    OBVIOUS
<1>2. Cardinality({a}) = 1
    BY FewCounted
<1>3. Cardinality({a, b}) \in {1, 2}
    <2>1. CASE a = b
        <3>1. {a, b} = {a}
            BY <2>1
        <3>. QED BY <1>2, <3>1
    <2>2. CASE a # b
        BY <2>2, FewCounted
    <2>. QED BY <2>1, <2>2
<1>4. Cardinality({a, b, d}) \in {1, 2, 3}
    <2>1. CASE d \in {a, b}
        <3>1. {a, b, d} = {a, b}
            BY <2>1
        <3>. QED BY <1>3, <3>1
    <2>2. CASE a = b /\ d # a
        <3>1. {a, b, d} = {a, d}
            BY <2>2
        <3>2. Cardinality({a, d}) = 2
            BY <2>2, FewCounted
        <3>. QED BY <3>1, <3>2
    <2>3. CASE a # b /\ d # a /\ d # b
        BY <2>3, FewCounted
    <2>. QED BY <2>1, <2>2, <2>3
<1>. QED BY <1>2, <1>3, <1>4

\* An orderly tree is sound.
LEMMA OrderlySound == TreeInv => TreeSoundUnlessOverlapped
<1>1. SUFFICES ASSUME tree \in Trees, Orderly(tree), NEW c \in Categories, Live(c)
               PROVE  /\ Depth(c) <= MaxDepth
                      /\ \E root \in Ancestors(c) : Live(root) /\ Parent(root) = NoCategory
    BY DEF TreeInv, TreeSoundUnlessOverlapped
<1>2. c \in First(tree) \cup Second(tree) \cup Third(tree)
    BY <1>1 DEF Orderly, First, Second, Third, Live
<1>3. \A x \in First(tree) : Live(x) /\ Parent(x) = NoCategory
    BY DEF First, Under, Live, Parent
<1>4. Depth(c) = Cardinality(Ancestors(c)) /\ Ancestors(c) = Above(tree, c)
    BY DEF Depth, Ancestors
<1>5. \A a, b, d : Cardinality({a}) <= 3 /\ Cardinality({a, b}) <= 3 /\ Cardinality({a, b, d}) <= 3
    BY FewAreFew
<1>6. CASE c \in First(tree)
    <2>1. Ancestors(c) = {c}
        BY <1>1, <1>4, <1>6, AboveOnLevels
    <2>. QED BY <1>3, <1>4, <1>5, <1>6, <2>1 DEF MaxDepth
<1>7. CASE c \in Second(tree)
    <2>1. Ancestors(c) = {c, tree[c].parent} /\ tree[c].parent \in First(tree)
        BY <1>1, <1>4, <1>7, AboveOnLevels
    <2>. QED BY <1>3, <1>4, <1>5, <2>1 DEF MaxDepth
<1>8. CASE c \in Third(tree)
    <2>. DEFINE b == tree[c].parent
                d == tree[tree[c].parent].parent
    <2>1. Above(tree, c) = {c, b, d} /\ d \in First(tree)
        BY <1>1, <1>8, AboveOnLevels
    <2>. HIDE DEF b, d
    <2>2. Ancestors(c) = {c, b, d} /\ d \in First(tree)
        BY <1>4, <2>1
    <2>3. Cardinality({c, b, d}) <= 3
        BY FewAreFew
    <2>4. Depth(c) <= MaxDepth
        BY <1>4, <2>2, <2>3 DEF MaxDepth
    <2>. QED BY <1>3, <2>2, <2>4
<1>. QED BY <1>2, <1>6, <1>7, <1>8

\* The other requests hold an outdated tree after a write that changed it.
LEMMA SettledFits ==
    ASSUME TreeInv, NEW r \in Editors, NEW t \in Trees, Settle(r, t), tangled' \in BOOLEAN,
           ~tangled' => ~tangled /\ Orderly(t)
    PROVE  TreeInv'
<1>1. /\ tree' = t
      /\ placing' = [q \in Editors |-> IF q = r THEN Free ELSE
                        [placing[q] EXCEPT !.stale = @ \/ (placing[q].pc # "new" /\ t # tree)]]
    BY DEF Settle
<1>2. ASSUME NEW q \in Editors
      PROVE  PlaceFits(placing[q])'
    <2>1. PlaceFits(placing[q])
        BY DEF TreeInv
    <2>2. CASE q = r
        <3>1. placing'[q] = Free
            BY <1>1, <2>2
        <3>. QED BY <3>1 DEF PlaceFits, Free
    <2>3. CASE q # r
        <3>. DEFINE w == [placing[q] EXCEPT !.stale = @ \/ (placing[q].pc # "new" /\ t # tree)]
        <3>1. placing'[q] = w
            BY <1>1, <2>3
        <3>2. w.pc = placing[q].pc /\ w.cat = placing[q].cat /\ w.to = placing[q].to
            OBVIOUS
        <3>3. w.stale = (placing[q].stale \/ (placing[q].pc # "new" /\ t # tree))
            OBVIOUS
        <3>. HIDE DEF w
        <3>. QED BY <1>1, <2>1, <3>1, <3>2, <3>3 DEF PlaceFits
    <2>. QED BY <2>2, <2>3
<1>3. placing' = [q \in Editors |-> placing'[q]]
    BY <1>1
<1>. QED BY <1>1, <1>2, <1>3 DEF TreeInv

\* The requests on categories.
LEMMA PlaceKeeps ==
    ASSUME TreeInv, NEW r \in Editors, NEW pc \in {"creating", "moving", "removing"}, NEW c \in Categories,
           NEW p \in Places, Place(r, pc, c, p), pc = "removing" => p = NoCategory,
           (pc = "creating" /\ ~tangled) => ~Live(c) /\ (p = NoCategory \/ p \in First(tree) \cup Second(tree)),
           (pc = "moving" /\ ~tangled) => Live(c) /\ Suits(tree, c, p)
    PROVE  TreeInv'
<1>. DEFINE w == [Free EXCEPT !.pc = pc, !.cat = c, !.to = p]
<1>1. placing' = [placing EXCEPT ![r] = w] /\ UNCHANGED <<tree, tangled>>
    BY DEF Place
<1>2. w.pc = pc /\ w.cat = c /\ w.to = p /\ w.stale = FALSE
    BY DEF Free
<1>. HIDE DEF w
<1>3. PlaceFits(w)'
    BY <1>1, <1>2 DEF PlaceFits, Live
<1>4. ASSUME NEW q \in Editors
      PROVE  PlaceFits(placing[q])'
    <2>1. CASE q = r
        <3>1. placing'[q] = w
            BY <1>1, <2>1 DEF TreeInv
        <3>. QED BY <1>3, <3>1 DEF PlaceFits
    <2>2. CASE q # r
        <3>1. placing'[q] = placing[q] /\ PlaceFits(placing[q])
            BY <1>1, <2>2 DEF TreeInv
        <3>. QED BY <1>1, <3>1 DEF PlaceFits
    <2>. QED BY <2>1, <2>2
<1>5. placing' = [q \in Editors |-> placing'[q]]
    BY <1>1 DEF TreeInv
<1>. QED BY <1>1, <1>4, <1>5 DEF TreeInv

\* A place is judged on the tree as it is.
LEMMA CategoryReadFits ==
    ASSUME TreeInv, NEW r \in Editors, CategoryRead(r)
    PROVE  TreeInv'
<1>1. tree \in Trees /\ (~tangled => Orderly(tree)) /\ NoCategory \in Places
    BY DEF TreeInv, Places
<1>2. ASSUME NEW c \in Categories, NEW p \in Places, CategoryCreateRead(r, c, p)
      PROVE  TreeInv'
    <2>1. ~tangled => ~Live(c) /\ (p = NoCategory \/ p \in First(tree) \cup Second(tree))
        BY <1>1, <1>2, FitsSuits DEF CategoryCreateRead
    <2>2. Place(r, "creating", c, p)
        BY <1>2 DEF CategoryCreateRead
    <2>. QED BY <2>1, <2>2, PlaceKeeps
<1>3. ASSUME NEW c \in Categories, NEW p \in Places, CategoryUpdateRead(r, c, p)
      PROVE  TreeInv'
    <2>1. Live(c) /\ (p = Parent(c) \/ Fits(c, p)) /\ Place(r, "moving", c, p)
        BY <1>3 DEF CategoryUpdateRead
    <2>2. p = Parent(c) => Suits(tree, c, p)
        BY DEF Suits, Parent
    <2>3. ~tangled => Live(c) /\ Suits(tree, c, p)
        BY <1>1, <2>1, <2>2, FitsSuits
    <2>. QED BY <2>1, <2>3, PlaceKeeps
<1>4. ASSUME NEW c \in Categories, CategoryRemoveRead(r, c)
      PROVE  TreeInv'
    <2>1. Place(r, "removing", c, NoCategory)
        BY <1>4 DEF CategoryRemoveRead
    <2>. QED BY <1>1, <2>1, PlaceKeeps
<1>. QED BY <1>2, <1>3, <1>4 DEF CategoryRead

\* Their writes: what was judged on the tree as it is keeps it orderly, and what
\* was not is remembered.
LEMMA CategoryWriteFits ==
    ASSUME TreeInv, NEW r \in Editors, CategoryWrite(r)
    PROVE  TreeInv'
<1>. DEFINE w == placing[r]
            possible == (w.to # NoCategory => Live(w.to)) /\ (w.pc = "moving" => Live(w.cat))
            moved == [tree EXCEPT ![w.cat] = [live |-> TRUE, parent |-> w.to]]
<1>1. /\ w.pc \in {"creating", "moving"}
      /\ Settle(r, IF possible THEN moved ELSE tree)
      /\ tangled' = (tangled \/ (possible /\ w.stale))
    BY DEF CategoryWrite
<1>2. PlaceFits(w) /\ tree \in Trees /\ (~tangled => Orderly(tree)) /\ tangled \in BOOLEAN
    BY DEF TreeInv
<1>3. w.cat \in Categories /\ w.to \in Places /\ w.stale \in BOOLEAN
    BY <1>1, <1>2 DEF PlaceFits
<1>. HIDE DEF w
<1>4. CASE ~possible
    <2>1. Settle(r, tree) /\ tangled' = tangled
        BY <1>1, <1>2, <1>4
    <2>. HIDE DEF possible, moved
    <2>. QED BY <1>2, <2>1, SettledFits
<1>5. CASE possible
    <2>1. Settle(r, moved) /\ tangled' = (tangled \/ w.stale)
        BY <1>1, <1>5
    <2>2. moved \in Trees
        BY <1>2, <1>3 DEF Trees
    <2>3. ASSUME ~tangled'
          PROVE  ~tangled /\ Orderly(moved)
        <3>1. ~tangled /\ ~w.stale
            BY <2>1, <2>3
        <3>2. CASE w.pc = "creating"
            <4>1. ~tree[w.cat].live /\ (w.to = NoCategory \/ w.to \in First(tree) \cup Second(tree))
                BY <1>2, <3>1, <3>2 DEF PlaceFits
            <4>. QED BY <1>2, <1>3, <3>1, <4>1, NewCategory
        <3>3. CASE w.pc = "moving"
            <4>1. tree[w.cat].live /\ Suits(tree, w.cat, w.to)
                BY <1>2, <3>1, <3>3 DEF PlaceFits
            <4>. QED BY <1>2, <1>3, <3>1, <4>1, MoveSuits
        <3>. QED BY <1>1, <3>2, <3>3
    <2>4. tangled' \in BOOLEAN
        BY <1>2, <1>3, <2>1
    <2>. HIDE DEF moved, possible
    <2>. QED BY <2>1, <2>2, <2>3, <2>4, SettledFits
<1>. QED BY <1>4, <1>5

\* A removal takes a leaf or nothing.
LEMMA CategoryDeleteFits ==
    ASSUME TreeInv, NEW r \in Editors, CategoryDelete(r)
    PROVE  TreeInv'
<1>. DEFINE c == placing[r].cat
            left == [tree EXCEPT ![c] = Missing]
<1>1. /\ placing[r].pc = "removing" /\ tangled' = tangled
      /\ Settle(r, IF Live(c) /\ Children(c) = {} THEN left ELSE tree)
    BY DEF CategoryDelete
<1>2. tree \in Trees /\ (~tangled => Orderly(tree)) /\ tangled \in BOOLEAN /\ c \in Categories
    BY <1>1 DEF TreeInv, PlaceFits
<1>. HIDE DEF c
<1>3. CASE Live(c) /\ Children(c) = {}
    <2>1. Settle(r, left)
        BY <1>1, <1>3
    <2>2. left \in Trees
        BY <1>2 DEF Trees, Missing, Places
    <2>3. \A x \in Categories : ~(tree[x].live /\ tree[x].parent = c)
        BY <1>3 DEF Children, Live, Parent
    <2>4. ~tangled => Orderly(left)
        BY <1>2, <2>3, LeafGoes
    <2>. HIDE DEF left
    <2>. QED BY <1>1, <1>2, <2>1, <2>2, <2>4, SettledFits
<1>4. CASE ~(Live(c) /\ Children(c) = {})
    <2>1. Settle(r, tree)
        BY <1>1, <1>4
    <2>. QED BY <1>1, <1>2, <2>1, SettledFits
<1>. QED BY <1>3, <1>4

\* The other steps leave the tree alone; a restart forgets the requests.
LEMMA TreesMeet ==
    ASSUME PlanningNext \/ UNCHANGED planningVars
    PROVE  \/ UNCHANGED <<tree, placing, tangled>>
           \/ UNCHANGED <<tree, tangled>> /\ placing' = [r \in Editors |-> Free]
           \/ \E r \in Editors : CategoryRead(r) \/ CategoryWrite(r) \/ CategoryDelete(r)
<1>1. UNCHANGED budgetVars \/ UNCHANGED planningVars => UNCHANGED <<tree, placing, tangled>>
    BY DEF planningVars, budgetVars, categoryVars
<1>2. CASE UNCHANGED planningVars
    BY <1>1, <1>2
<1>3. CASE CategoryRequest
    BY <1>3 DEF CategoryRequest
<1>4. CASE ExpenseRequest
    <2>1. ASSUME NEW r, NEW new, NEW needs, NEW looks, Snapshot(r, new, needs, looks)
          PROVE  UNCHANGED <<tree, placing, tangled>>
        BY <2>1 DEF Snapshot, categoryVars
    <2>2. ASSUME NEW r, NEW s, ExpenseRemove(r, s)
          PROVE  UNCHANGED <<tree, placing, tangled>>
        BY <2>1, <2>2 DEF ExpenseRemove
    <2>3. ASSUME NEW r, NEW s, NEW c, NEW m, NEW a, ExpenseCreate(r, s, c, m, a) \/ ExpenseUpdate(r, s, c, m, a)
          PROVE  UNCHANGED <<tree, placing, tangled>>
        BY <2>1, <2>3 DEF ExpenseCreate, ExpenseUpdate
    <2>4. ASSUME NEW r, NEW s, NEW t, NEW c, NEW m, NEW a, PlanCreate(r, s, t, c, m, a)
          PROVE  UNCHANGED <<tree, placing, tangled>>
        BY <2>1, <2>4 DEF PlanCreate
    <2>. QED BY <1>4, <2>2, <2>3, <2>4 DEF ExpenseRequest
<1>5. CASE BudgetRequest
    BY <1>5 DEF BudgetRequest, ReplaceRead, EndRead, categoryVars
<1>6. CASE TransferRequest \/ GoalRequest \/ ReportRequest \/ WriteRequest \/ Later \/ Idle \/ GoalStep
           \/ ReportSteps \/ AuditSteps \/ Delivers \/ Device
    BY <1>1, <1>6 DEF TransferRequest, GoalRequest, ReportRequest, WriteRequest, Later, Idle, GoalStep,
                      ReportSteps, AuditSteps, Delivers, Device
<1>7. CASE CategoryStep
    BY <1>7 DEF CategoryStep, CategoryChange, CategoryGoes
<1>8. CASE BudgetStep
    <2>1. ASSUME NEW r \in Spenders, SpendCommit(r) \/ SpendEmit(r)
          PROVE  UNCHANGED <<tree, placing, tangled>>
        BY <2>1 DEF SpendCommit, SpendEmit, categoryVars
    <2>2. ASSUME NEW r \in Keepers, ReplaceWrite(r) \/ EndWrite(r)
          PROVE  UNCHANGED <<tree, placing, tangled>>
        BY <2>2 DEF ReplaceWrite, EndWrite, KeepWrite, categoryVars
    <2>. QED BY <1>8, <2>1, <2>2 DEF BudgetStep
<1>9. CASE NewMonth
    BY <1>9 DEF NewMonth, MonthEnds, categoryVars
<1>10. CASE Restart
    BY <1>10 DEF Restart, BudgetsRestart
<1>. QED BY <1>2, <1>3, <1>4, <1>5, <1>6, <1>7, <1>8, <1>9, <1>10 DEF PlanningNext

\* The inductive invariant of the tree: unless a place was taken that had been judged
\* on an outdated tree, the categories are on three levels, and every place that was
\* judged on the tree as it is keeps them there.
THEOREM TreeInvariant == PlanningSpec => []TreeInv
<1>1. ASSUME PlanningInit
      PROVE  TreeInv
    <2>1. PICK w \in Worlds : tree = w.tree
        BY <1>1 DEF PlanningInit
    <2>2. tree \in Trees /\ Orderly(tree)
        BY <2>1, WorldsAssumption DEF Trees
    <2>3. placing = [r \in Editors |-> Free] /\ tangled = FALSE
        BY <1>1 DEF PlanningInit
    <2>4. PlaceFits(Free)
        BY DEF PlaceFits, Free
    <2>. QED BY <2>2, <2>3, <2>4 DEF TreeInv
<1>2. TreeInv /\ [PlanningNext]_planningVars => TreeInv'
    <2>1. SUFFICES ASSUME TreeInv, PlanningNext \/ UNCHANGED planningVars
                   PROVE  TreeInv'
        OBVIOUS
    <2>2. CASE UNCHANGED <<tree, placing, tangled>>
        <3>1. \A r \in Editors : PlaceFits(placing[r])'
            BY <2>1, <2>2 DEF TreeInv, PlaceFits
        <3>. QED BY <2>1, <2>2, <3>1 DEF TreeInv
    <2>3. CASE UNCHANGED <<tree, tangled>> /\ placing' = [r \in Editors |-> Free]
        <3>1. PlaceFits(Free)'
            BY DEF PlaceFits, Free
        <3>2. \A r \in Editors : placing'[r] = Free
            BY <2>3
        <3>3. \A r \in Editors : PlaceFits(placing[r])'
            BY <3>1, <3>2 DEF PlaceFits
        <3>. QED BY <2>1, <2>3, <3>2, <3>3 DEF TreeInv
    <2>. QED BY <2>1, <2>2, <2>3, TreesMeet, CategoryReadFits, CategoryWriteFits, CategoryDeleteFits
<1>. QED BY <1>1, <1>2, PTL DEF PlanningSpec

\* Every category hangs from a root and at most three levels down, in any tree and with
\* any number of requests at once, unless a place was taken that had been judged on an
\* outdated tree (TreeSoundUnlessOverlapped, Categories.tla).
THEOREM TreeStaysSound == PlanningSpec => []TreeSoundUnlessOverlapped
BY TreeInvariant, OrderlySound, PTL

-----------------------------------------------------------------------------
(* The savings goals *)

\* sums adds up f over each part of S.
SumsOf(sums, S, f) ==
    sums = [s \in SUBSET S |-> IF s = {} THEN 0
                               ELSE LET x == CHOOSE x \in s : TRUE IN f[x] + sums[s \ {x}]]

LEMMA SavedIsSum == Saved = (CHOOSE sums : SumsOf(sums, TransferSlots, transfer))[TransferSlots]
BY DEF Saved, MapThenSumSet, MapThenFoldSet, SumsOf

\* One fewer.
LEMMA OneTaken ==
    ASSUME NEW S, IsFiniteSet(S)
    PROVE  /\ Cardinality(S) \in Nat
           /\ \A s \in SUBSET S : Cardinality(s) \in 0..Cardinality(S)
           /\ \A s \in SUBSET S : s # {} =>
                 LET x == CHOOSE x \in s : TRUE IN
                 /\ x \in s /\ s \ {x} \in SUBSET S
                 /\ Cardinality(s) >= 1 /\ Cardinality(s \ {x}) = Cardinality(s) - 1
<1>1. Cardinality(S) \in Nat
    BY FS_CardinalityType
<1>2. \A s \in SUBSET S : IsFiniteSet(s) /\ Cardinality(s) <= Cardinality(S) /\ Cardinality(s) \in Nat
    BY FS_Subset, FS_CardinalityType
<1>3. ASSUME NEW s \in SUBSET S, s # {}, NEW x, x \in s
      PROVE  Cardinality(s) >= 1 /\ Cardinality(s \ {x}) = Cardinality(s) - 1
    <2>1. IsFiniteSet(s) /\ Cardinality(s) \in Nat /\ Cardinality(s \ {x}) \in Nat
        <3>1. s \ {x} \in SUBSET S
            OBVIOUS
        <3>. QED BY <1>2, <3>1
    <2>2. Cardinality(s \ {x}) = IF x \in s THEN Cardinality(s) - 1 ELSE Cardinality(s)
        BY <2>1, FS_RemoveElement
    <2>. QED BY <1>3, <2>1, <2>2
<1>4. \A s : s # {} => (CHOOSE x \in s : TRUE) \in s
    OBVIOUS
<1>5. \A s \in SUBSET S : Cardinality(s) \in 0..Cardinality(S)
    <2>1. SUFFICES ASSUME NEW s \in SUBSET S
                   PROVE  Cardinality(s) \in 0..Cardinality(S)
        OBVIOUS
    <2>2. Cardinality(s) <= Cardinality(S) /\ Cardinality(s) \in Nat
        BY <1>2
    <2>. QED BY <1>1, <2>2
<1>6. ASSUME NEW s \in SUBSET S, s # {}
      PROVE  LET x == CHOOSE x \in s : TRUE IN
             /\ x \in s /\ s \ {x} \in SUBSET S
             /\ Cardinality(s) >= 1 /\ Cardinality(s \ {x}) = Cardinality(s) - 1
    <2>. DEFINE x == CHOOSE x \in s : TRUE
    <2>1. x \in s
        BY <1>4, <1>6
    <2>. HIDE DEF x
    <2>2. s \ {x} \in SUBSET S /\ Cardinality(s) >= 1 /\ Cardinality(s \ {x}) = Cardinality(s) - 1
        BY <1>3, <1>6, <2>1
    <2>. QED BY <2>1, <2>2 DEF x
<1>. QED BY <1>1, <1>5, <1>6

LEMMA SetsAddUp ==
    ASSUME NEW S, IsFiniteSet(S), NEW f \in [S -> Int]
    PROVE  \E sums : SumsOf(sums, S, f)
<1>. DEFINE pick(s) == CHOOSE x \in s : TRUE
            sum(g, s) == IF s = {} THEN 0 ELSE f[pick(s)] + g[s \ {pick(s)}]
            Adds(k, g) == g \in [SUBSET S -> Int] /\ \A s \in SUBSET S : Cardinality(s) <= k => g[s] = sum(g, s)
            N == Cardinality(S)
            Unreached == {k \in 0..N : \A g : ~Adds(k, g)}
<1>1. N \in Nat /\ \A s \in SUBSET S : Cardinality(s) \in 0..N
    BY OneTaken
<1>2. \A s \in SUBSET S : s # {} => /\ pick(s) \in s /\ s \ {pick(s)} \in SUBSET S
                                    /\ Cardinality(s) >= 1 /\ Cardinality(s \ {pick(s)}) = Cardinality(s) - 1
    BY OneTaken
<1>. HIDE DEF pick, N
<1>3. Unreached = {}
    <2>1. SUFFICES ASSUME Unreached # {} PROVE FALSE
        OBVIOUS
    <2>2. PICK k \in Unreached : \A m \in Unreached : k <= m
        <3>. HIDE DEF Adds
        <3>1. Unreached \in SUBSET Nat
            BY <1>1
        <3>. QED BY <2>1, <3>1, LeastFound
    <2>3. Adds(0, [s \in SUBSET S |-> 0])
        <3>1. ASSUME NEW s \in SUBSET S, Cardinality(s) <= 0
              PROVE  s = {}
            <4>1. Cardinality(s) \in Nat
                BY <1>1
            <4>2. s # {} => Cardinality(s) >= 1
                BY <1>2
            <4>. QED BY <3>1, <4>1, <4>2
        <3>. QED BY <3>1
    <2>4. k \in 1..N /\ \E g : Adds(k - 1, g)
        <3>. HIDE DEF Adds
        <3>1. k # 0 /\ k \in 0..N
            BY <2>2, <2>3
        <3>2. k - 1 \in 0..N /\ ~(k <= k - 1)
            BY <1>1, <3>1
        <3>. QED BY <2>2, <3>1, <3>2
    <2>5. PICK g : Adds(k - 1, g)
        BY <2>4
    <2>. DEFINE h == [s \in SUBSET S |-> sum(g, s)]
    <2>6. ASSUME NEW s \in SUBSET S
          PROVE  sum(g, s) \in Int
        BY <1>2, <2>5
    <2>7. h \in [SUBSET S -> Int] /\ \A s \in SUBSET S : h[s] = sum(g, s)
        BY <2>6
    <2>. HIDE DEF h
    <2>8. ASSUME NEW s \in SUBSET S, Cardinality(s) <= k
          PROVE  h[s] = sum(h, s)
        <3>1. CASE s = {}
            BY <2>7, <3>1
        <3>2. CASE s # {}
            <4>. DEFINE r == s \ {pick(s)}
            <4>1. r \in SUBSET S /\ Cardinality(r) <= k - 1
                BY <1>1, <1>2, <2>4, <2>8, <3>2
            <4>2. h[r] = sum(g, r) /\ g[r] = sum(g, r)
                BY <2>5, <2>7, <4>1
            <4>3. h[s] = f[pick(s)] + g[r]
                BY <2>7, <3>2
            <4>. QED BY <3>2, <4>2, <4>3
        <3>. QED BY <3>1, <3>2
    <2>9. Adds(k, h)
        BY <2>7, <2>8
    <2>. QED BY <2>2, <2>9
<1>4. PICK g : Adds(N, g)
    <2>1. N \in 0..N
        BY <1>1
    <2>. HIDE DEF Adds
    <2>. QED BY <1>3, <2>1
<1>5. ASSUME NEW s \in SUBSET S
      PROVE  g[s] = sum(g, s)
    <2>1. Cardinality(s) <= N
        <3>1. Cardinality(s) \in 0..N
            BY <1>1
        <3>. QED BY <1>1, <3>1
    <2>. QED BY <1>4, <2>1
<1>6. g = [s \in SUBSET S |-> g[s]]
    BY <1>4
<1>7. g = [s \in SUBSET S |-> sum(g, s)]
    BY <1>5, <1>6
<1>. QED BY <1>7 DEF SumsOf, pick

\* What is nowhere less sums up to no less.
LEMMA SumsCompared ==
    ASSUME NEW S, IsFiniteSet(S), NEW e \in [S -> Int], NEW f \in [S -> Int], \A x \in S : e[x] <= f[x],
           NEW g, NEW h, SumsOf(g, S, e), SumsOf(h, S, f)
    PROVE  g[S] \in Int /\ h[S] \in Int /\ g[S] <= h[S]
<1>. DEFINE pick(s) == CHOOSE x \in s : TRUE
            Less(s) == g[s] \in Int /\ h[s] \in Int /\ g[s] <= h[s]
            N == Cardinality(S)
            Wrong == {k \in 0..N : \E s \in SUBSET S : Cardinality(s) = k /\ ~Less(s)}
<1>1. N \in Nat /\ \A s \in SUBSET S : Cardinality(s) \in 0..N
    BY OneTaken
<1>2. \A s \in SUBSET S : s # {} => /\ pick(s) \in s /\ s \ {pick(s)} \in SUBSET S
                                    /\ Cardinality(s) >= 1 /\ Cardinality(s \ {pick(s)}) = Cardinality(s) - 1
    BY OneTaken
<1>3. \A s \in SUBSET S : /\ g[s] = IF s = {} THEN 0 ELSE e[pick(s)] + g[s \ {pick(s)}]
                          /\ h[s] = IF s = {} THEN 0 ELSE f[pick(s)] + h[s \ {pick(s)}]
    BY DEF SumsOf
<1>. HIDE DEF pick, N
<1>4. Wrong = {}
    <2>1. SUFFICES ASSUME Wrong # {} PROVE FALSE
        OBVIOUS
    <2>2. PICK k \in Wrong : \A m \in Wrong : k <= m
        <3>. HIDE DEF Less
        <3>1. Wrong \in SUBSET Nat
            BY <1>1
        <3>. QED BY <2>1, <3>1, LeastFound
    <2>3. PICK s \in SUBSET S : Cardinality(s) = k /\ ~Less(s)
        BY <2>2
    <2>4. s # {}
        <3>1. s = {} => g[s] = 0 /\ h[s] = 0
            BY <1>3
        <3>. QED BY <2>3, <3>1
    <2>. DEFINE r == s \ {pick(s)}
    <2>5. r \in SUBSET S /\ Cardinality(r) = k - 1 /\ k - 1 \in 0..N /\ pick(s) \in S
        BY <1>1, <1>2, <2>3, <2>4
    <2>6. Less(r)
        <3>1. k - 1 \notin Wrong
            BY <2>2, <2>5
        <3>. HIDE DEF Less
        <3>. QED BY <2>5, <3>1
    <2>7. g[s] = e[pick(s)] + g[r] /\ h[s] = f[pick(s)] + h[r]
        BY <1>3, <2>4
    <2>8. e[pick(s)] \in Int /\ f[pick(s)] \in Int /\ e[pick(s)] <= f[pick(s)]
        BY <2>5
    <2>. QED BY <2>3, <2>6, <2>7, <2>8
<1>5. \A s \in SUBSET S : Less(s)
    <2>. HIDE DEF Less
    <2>. QED BY <1>1, <1>4
<1>. QED BY <1>5

\* What is saved is a number, and no more of it when no transfer brings more.
LEMMA SavedFound ==
    ASSUME transfer \in [TransferSlots -> Int]
    PROVE  Saved \in Int
<1>1. Saved = (CHOOSE sums : SumsOf(sums, TransferSlots, transfer))[TransferSlots]
    BY SavedIsSum
<1>2. \E sums : SumsOf(sums, TransferSlots, transfer)
    BY GoalsAssumption, SetsAddUp
<1>3. PICK sums : SumsOf(sums, TransferSlots, transfer) /\ Saved = sums[TransferSlots]
    BY <1>1, <1>2
<1>. QED BY <1>3, GoalsAssumption, SumsCompared

LEMMA SavedNoMore ==
    ASSUME transfer \in [TransferSlots -> Int], transfer' \in [TransferSlots -> Int],
           \A s \in TransferSlots : transfer'[s] <= transfer[s]
    PROVE  Saved' \in Int /\ Saved' <= Saved
<1>1. Saved = (CHOOSE sums : SumsOf(sums, TransferSlots, transfer))[TransferSlots]
    BY SavedIsSum
<1>2. Saved' = (CHOOSE sums : SumsOf(sums, TransferSlots, transfer'))[TransferSlots]
    BY DEF Saved, MapThenSumSet, MapThenFoldSet, SumsOf
<1>3. \E sums : SumsOf(sums, TransferSlots, transfer)
    BY GoalsAssumption, SetsAddUp
<1>4. \E sums : SumsOf(sums, TransferSlots, transfer')
    BY GoalsAssumption, SetsAddUp
<1>5. PICK h : SumsOf(h, TransferSlots, transfer) /\ Saved = h[TransferSlots]
    BY <1>1, <1>3
<1>6. PICK g : SumsOf(g, TransferSlots, transfer') /\ Saved' = g[TransferSlots]
    BY <1>2, <1>4
<1>7. g[TransferSlots] \in Int /\ h[TransferSlots] \in Int /\ g[TransferSlots] <= h[TransferSlots]
    BY <1>5, <1>6, GoalsAssumption, SumsCompared
<1>. QED BY <1>5, <1>6, <1>7

LEMMA SavedStays ==
    ASSUME UNCHANGED transfer
    PROVE  Saved' = Saved
<1>1. Saved = (CHOOSE sums : SumsOf(sums, TransferSlots, transfer))[TransferSlots]
    BY SavedIsSum
<1>2. Saved' = (CHOOSE sums : SumsOf(sums, TransferSlots, transfer'))[TransferSlots]
    BY DEF Saved, MapThenSumSet, MapThenFoldSet, SumsOf
<1>. QED BY <1>1, <1>2

LEMMA SavedNothing ==
    ASSUME transfer = [s \in TransferSlots |-> 0]
    PROVE  Saved = 0
<1>1. transfer \in [TransferSlots -> Int]
    OBVIOUS
<1>2. Saved = (CHOOSE sums : SumsOf(sums, TransferSlots, transfer))[TransferSlots]
    BY SavedIsSum
<1>3. PICK g : SumsOf(g, TransferSlots, transfer) /\ Saved = g[TransferSlots]
    BY <1>1, <1>2, GoalsAssumption, SetsAddUp
<1>. DEFINE zero == [s \in SUBSET TransferSlots |-> 0]
<1>4. SumsOf(zero, TransferSlots, transfer)
    <2>1. ASSUME NEW s \in SUBSET TransferSlots
          PROVE  zero[s] = IF s = {} THEN 0 ELSE LET x == CHOOSE x \in s : TRUE IN transfer[x] + zero[s \ {x}]
        OBVIOUS
    <2>. HIDE DEF zero
    <2>2. zero = [s \in SUBSET TransferSlots |-> zero[s]]
        BY DEF zero
    <2>. QED BY <2>1, <2>2 DEF SumsOf
<1>5. zero[TransferSlots] = 0
    OBVIOUS
<1>. HIDE DEF zero
<1>6. \A s \in TransferSlots : transfer[s] <= transfer[s]
    OBVIOUS
<1>7. /\ g[TransferSlots] \in Int /\ zero[TransferSlots] \in Int
      /\ g[TransferSlots] <= zero[TransferSlots] /\ zero[TransferSlots] <= g[TransferSlots]
    BY <1>1, <1>3, <1>4, <1>6, GoalsAssumption, SumsCompared
<1>. QED BY <1>3, <1>5, <1>7

-----------------------------------------------------------------------------
SaverFields == {"pc", "todo", "goal", "status", "value", "slot", "stale"}

\* A check that nobody overtook goes over active goals as they are, and completes one
\* that is reached; a goal that was read as no longer active does not become so again.
SaverFits(w) ==
    /\ DOMAIN w = SaverFields /\ w.stale \in BOOLEAN /\ w.value \in Int
    /\ DOMAIN w.todo \subseteq Goals /\ \A g \in DOMAIN w.todo : w.todo[g].target \in Int
    /\ w.pc = "editing" => w.value \in Targets
    /\ \A g \in Goals : w.pc = "editing" /\ w.goal = {g} /\ w.status # "ACTIVE" => goal[g].status # "ACTIVE"
    /\ w.pc = "writing" => \E g \in DOMAIN w.todo : w.goal = {g} /\ (~w.stale => Reached(w.todo[g]))
    /\ (w.pc \in {"next", "writing"} /\ ~w.stale) =>
            \A g \in DOMAIN w.todo : w.todo[g] = goal[g] /\ goal[g].status = "ACTIVE"

\* A check that is still to come to g, and knows its target.
Checks(w, g) ==
    \/ w.pc = "check"
    \/ w.pc \in {"next", "writing"} /\ g \in DOMAIN w.todo /\ w.todo[g].target = goal[g].target

GoalsTypes ==
    /\ goal \in [Goals -> GoalType] /\ transfer \in [TransferSlots -> Int] /\ unchecked \in BOOLEAN
    /\ saving = [r \in Savers |-> saving[r]]

Awaited(g) == goal[g].status = "ACTIVE" /\ Reached(goal[g]) /\ ~unchecked
AwaitedChecked == \A g \in Goals : Awaited(g) => \E r \in Savers : Checks(saving[r], g)

GoalsInv == GoalsTypes /\ (\A r \in Savers : SaverFits(saving[r])) /\ AwaitedChecked

LEMMA AwaitedGetCompleted == GoalsInv => ReachedGoalsGetCompleted
BY DEF GoalsInv, AwaitedChecked, Awaited, Checks, ReachedGoalsGetCompleted

LEMMA TargetsAreNumbers == \A g \in Goals, t \in [Goals -> GoalType] : t[g].target \in Int /\ t[g] \in GoalType
<1>1. ASSUME NEW x \in GoalType
      PROVE  x.target \in Int
    <2>1. x.target \in Targets \cup {0}
        BY DEF GoalType
    <2>2. \A n \in Targets \cup {0} : n \in Int
        BY GoalsAssumption
    <2>. QED BY <2>1, <2>2
<1>. HIDE DEF GoalType
<1>. QED BY <1>1

\* A request that starts or ends a check, and one that has nothing to say.
LEMMA RestFits == SaverFits(AtRest) /\ SaverFits(Check) /\ AtRest.pc = "new" /\ Check.pc = "check"
<1>1. /\ DOMAIN AtRest = SaverFields /\ AtRest.stale = FALSE /\ AtRest.value = 0 /\ DOMAIN AtRest.todo = {}
      /\ AtRest.pc = "new"
    BY DEF AtRest, SaverFields
<1>2. /\ DOMAIN Check = SaverFields /\ Check.stale = FALSE /\ Check.value = 0 /\ DOMAIN Check.todo = {}
      /\ Check.pc = "check"
    BY <1>1 DEF Check, AtRest, SaverFields
<1>3. ASSUME NEW w, DOMAIN w = SaverFields, w.stale = FALSE, w.value = 0, DOMAIN w.todo = {},
             w.pc \in {"new", "check"}
      PROVE  SaverFits(w)
    <2>1. w.stale \in BOOLEAN
        BY Zenon, <1>3
    <2>2. DOMAIN w.todo \subseteq Goals /\ w.value \in Int /\ w.pc \notin {"editing", "writing", "next"}
        BY <1>3
    <2>. QED BY <1>3, <2>1, <2>2 DEF SaverFits
<1>. QED BY <1>1, <1>2, <1>3

\* A request goes on by itself.
LEMMA BecomeFits ==
    ASSUME GoalsInv, NEW r \in Savers, NEW w, SaverFits(w), Become(r, w), UNCHANGED <<goal, transfer>>,
           unchecked' \in BOOLEAN, unchecked => unchecked',
           \A g \in Goals : Awaited(g) /\ ~unchecked' /\ Checks(saving[r], g) => Checks(w, g)
    PROVE  GoalsInv'
<1>1. /\ saving' = [q \in Savers |-> saving'[q]]
      /\ \A q \in Savers : saving'[q] = IF q = r THEN w ELSE saving[q]
    BY DEF GoalsInv, GoalsTypes, Become
<1>2. /\ \A v : SaverFits(v)' <=> SaverFits(v)
      /\ \A v, g : Checks(v, g)' <=> Checks(v, g)
      /\ \A g : Reached(g)' <=> Reached(g)
    <2>1. \A g : Reached(g)' <=> Reached(g)
        BY SavedStays DEF Reached
    <2>2. \A v, g : Checks(v, g)' <=> Checks(v, g)
        BY DEF Checks
    <2>3. ASSUME NEW v
          PROVE  SaverFits(v)' <=> SaverFits(v)
        BY <2>1 DEF SaverFits
    <2>. QED BY <2>1, <2>2, <2>3
<1>3. \A q \in Savers : SaverFits(saving'[q])
    BY <1>1 DEF GoalsInv
<1>4. ASSUME NEW g \in Goals, Awaited(g)'
      PROVE  \E q \in Savers : Checks(saving'[q], g)
    <2>1. Awaited(g) /\ ~unchecked'
        BY <1>2, <1>4 DEF Awaited
    <2>2. PICK q \in Savers : Checks(saving[q], g)
        BY <2>1 DEF GoalsInv, AwaitedChecked
    <2>. QED BY <1>1, <2>1, <2>2
<1>5. GoalsTypes'
    BY <1>1 DEF GoalsInv, GoalsTypes
<1>6. (\A q \in Savers : SaverFits(saving[q]))'
    BY <1>2, <1>3 DEF SaverFits
<1>7. AwaitedChecked'
    BY <1>2, <1>4 DEF AwaitedChecked, Checks
<1>. QED BY Zenon, <1>5, <1>6, <1>7 DEF GoalsInv

\* A check that was overtaken asks for little.
LEMMA StaleFits ==
    ASSUME NEW o, SaverFits(o), NEW v, v.stale = (o.pc \in {"next", "writing"}), DOMAIN v = SaverFields,
           v.pc = o.pc, v.todo = o.todo, v.goal = o.goal, v.status = o.status, v.value = o.value,
           \A g \in Goals : o.goal = {g} /\ goal'[g].status = "ACTIVE" => goal[g].status = "ACTIVE"
    PROVE  SaverFits(v)'
<1>1. v.stale \in BOOLEAN /\ (v.pc \in {"next", "writing"} => v.stale)
    <2>1. CASE o.pc \in {"next", "writing"}
        <3>1. v.stale = TRUE
            BY <2>1
        <3>. QED BY Zenon, <3>1
    <2>2. CASE ~(o.pc \in {"next", "writing"})
        <3>0. (o.pc \in {"next", "writing"}) = FALSE
            BY <2>2
        <3>1. v.stale = FALSE
            BY Zenon, <3>0
        <3>2. v.stale \in BOOLEAN
            BY Zenon, <3>1
        <3>3. ~(v.pc \in {"next", "writing"})
            BY Zenon, <2>2
        <3>. QED BY Zenon, <3>2, <3>3
    <2>. QED BY Zenon, <2>1, <2>2
<1>2. v.pc = "writing" => v.stale /\ \E g \in DOMAIN v.todo : v.goal = {g}
    BY <1>1 DEF SaverFits
<1>. QED BY <1>1, <1>2 DEF SaverFits

\* A request writes, and the checks under way are out of date.
LEMMA OvertakeFits ==
    ASSUME GoalsInv, NEW r \in Savers, NEW w, SaverFits(w)', Overtake(r, w), unchecked' \in BOOLEAN,
           goal' \in [Goals -> GoalType], transfer' \in [TransferSlots -> Int],
           \A g \in Goals : goal'[g].status = "ACTIVE" =>
                goal[g].status = "ACTIVE" \/ \A q \in Savers : saving[q].goal # {g},
           \A g \in Goals : Awaited(g)' =>
                \/ w.pc = "check"
                \/ Awaited(g) /\ goal'[g].target = goal[g].target /\ (Checks(saving[r], g) => Checks(w, g)')
    PROVE  GoalsInv'
<1>1. saving' = [q \in Savers |-> IF q = r THEN w ELSE
                    [saving[q] EXCEPT !.stale = saving[q].pc \in {"next", "writing"}]]
    BY DEF Overtake
<1>2. saving' = [q \in Savers |-> saving'[q]] /\ saving'[r] = w
    BY <1>1
<1>3. ASSUME NEW q \in Savers, q # r
      PROVE  /\ saving'[q].stale = (saving[q].pc \in {"next", "writing"}) /\ DOMAIN saving'[q] = SaverFields
             /\ saving'[q].pc = saving[q].pc /\ saving'[q].todo = saving[q].todo /\ saving'[q].goal = saving[q].goal
             /\ saving'[q].status = saving[q].status /\ saving'[q].value = saving[q].value
    <2>1. DOMAIN saving[q] = SaverFields
        BY DEF GoalsInv, SaverFits
    <2>2. saving'[q] = [saving[q] EXCEPT !.stale = saving[q].pc \in {"next", "writing"}]
        BY <1>1, <1>3
    <2>. QED BY <2>1, <2>2 DEF SaverFields
<1>4. ASSUME NEW q \in Savers
      PROVE  SaverFits(saving[q])'
    <2>1. CASE q = r
        BY <1>2, <2>1 DEF SaverFits
    <2>2. CASE q # r
        <3>1. SaverFits(saving[q])
            BY DEF GoalsInv
        <3>2. \A g \in Goals : saving[q].goal = {g} /\ goal'[g].status = "ACTIVE" => goal[g].status = "ACTIVE"
            OBVIOUS
        <3>3. PICK v, o : v = saving'[q] /\ o = saving[q]
            OBVIOUS
        <3>4. SaverFits(v)'
            BY <1>3, <2>2, <3>1, <3>2, <3>3, StaleFits
        <3>. QED BY <3>3, <3>4 DEF SaverFits
    <2>. QED BY <2>1, <2>2
<1>5. ASSUME NEW g \in Goals, Awaited(g)'
      PROVE  \E q \in Savers : Checks(saving[q], g)'
    <2>1. CASE w.pc = "check"
        BY <1>2, <2>1 DEF Checks
    <2>2. CASE Awaited(g) /\ goal'[g].target = goal[g].target /\ (Checks(saving[r], g) => Checks(w, g)')
        <3>1. PICK q \in Savers : Checks(saving[q], g)
            BY <2>2 DEF GoalsInv, AwaitedChecked
        <3>2. CASE q = r
            BY <1>2, <2>2, <3>1, <3>2 DEF Checks
        <3>3. CASE q # r
            BY <1>3, <2>2, <3>1, <3>3 DEF Checks
        <3>. QED BY <3>2, <3>3
    <2>. QED BY <1>5, <2>1, <2>2
<1>6. GoalsTypes'
    BY <1>2 DEF GoalsTypes
<1>7. AwaitedChecked'
    BY <1>5 DEF AwaitedChecked
<1>. QED BY Zenon, <1>4, <1>6, <1>7 DEF GoalsInv

\* A request begins.
LEMMA GoalsRead ==
    ASSUME GoalsInv, NEW r \in Savers,
           \/ \E s \in TransferSlots, sum \in Sums \cup {0} : TransferRead(r, s, sum)
           \/ \E g \in Goals, target \in Targets : GoalRead(r, g, "editing", target)
           \/ \E g \in Goals, pc \in {"abandoning", "removing"} : GoalRead(r, g, pc, 0)
    PROVE  GoalsInv'
<1>1. ASSUME NEW w, Become(r, w), UNCHANGED <<goal, transfer, unchecked>>, saving[r].pc = "new",
             DOMAIN w = SaverFields, w.stale = FALSE, DOMAIN w.todo = {}, w.value \in Int,
             w.pc \in {"sending", "changing", "editing", "abandoning", "removing"},
             w.pc = "editing" => w.value \in Targets /\ \E g \in Goals : w.goal = {g} /\ w.status = goal[g].status
      PROVE  GoalsInv'
    <2>1. w.stale \in BOOLEAN
        BY Zenon, <1>1
    <2>2. SaverFits(w)
        <3>1. \A g, h : {g} = {h} => g = h
            OBVIOUS
        <3>2. DOMAIN w.todo \subseteq Goals /\ w.pc \notin {"next", "writing"}
            BY <1>1
        <3>3. \A g \in Goals : w.pc = "editing" /\ w.goal = {g} /\ w.status # "ACTIVE" => goal[g].status # "ACTIVE"
            BY <1>1, <3>1
        <3>. QED BY <1>1, <2>1, <3>2, <3>3 DEF SaverFits
    <2>3. \A g : ~Checks(saving[r], g)
        BY <1>1 DEF Checks
    <2>4. unchecked' \in BOOLEAN /\ (unchecked => unchecked')
        BY Zenon, <1>1 DEF GoalsInv, GoalsTypes
    <2>. QED BY <1>1, <2>2, <2>3, <2>4, BecomeFits
<1>2. ASSUME NEW s \in TransferSlots, NEW sum \in Sums \cup {0}, TransferRead(r, s, sum)
      PROVE  GoalsInv'
    <2>1. PICK w : w = [AtRest EXCEPT !.pc = IF transfer[s] = 0 THEN "sending" ELSE "changing",
                                      !.value = sum, !.slot = {s}]
        OBVIOUS
    <2>2. /\ DOMAIN w = SaverFields /\ w.stale = FALSE /\ DOMAIN w.todo = {} /\ w.value = sum
          /\ w.pc \in {"sending", "changing"}
        BY <2>1 DEF AtRest, SaverFields
    <2>3. sum \in Int
        BY GoalsAssumption
    <2>4. Become(r, w) /\ UNCHANGED <<goal, transfer, unchecked>> /\ saving[r].pc = "new"
        BY Zenon, <1>2, <2>1 DEF TransferRead
    <2>. QED BY <1>1, <2>2, <2>3, <2>4
<1>3. ASSUME NEW g \in Goals, NEW pc \in {"editing", "abandoning", "removing"}, NEW target \in Targets \cup {0},
             pc = "editing" => target \in Targets, GoalRead(r, g, pc, target)
      PROVE  GoalsInv'
    <2>1. PICK w : w = [AtRest EXCEPT !.pc = pc, !.goal = {g}, !.status = goal[g].status, !.value = target]
        OBVIOUS
    <2>2. /\ DOMAIN w = SaverFields /\ w.stale = FALSE /\ DOMAIN w.todo = {} /\ w.value = target
          /\ w.pc = pc /\ w.goal = {g} /\ w.status = goal[g].status
        BY <2>1 DEF AtRest, SaverFields
    <2>3. target \in Int
        BY GoalsAssumption
    <2>4. Become(r, w) /\ UNCHANGED <<goal, transfer, unchecked>> /\ saving[r].pc = "new"
        BY Zenon, <1>3, <2>1 DEF GoalRead
    <2>. QED BY <1>1, <1>3, <2>2, <2>3, <2>4
<1>. QED BY <1>2, <1>3

\* A check reads the active goals, looks at one, and ends.
LEMMA ChecksGoOn ==
    ASSUME GoalsInv, NEW r \in Savers,
           CheckRead(r) \/ CheckEnds(r) \/ \E g \in Goals : CheckProgress(r, g)
    PROVE  GoalsInv'
<1>1. ASSUME UNCHANGED unchecked
      PROVE  unchecked' \in BOOLEAN /\ (unchecked => unchecked')
    BY Zenon, <1>1 DEF GoalsInv, GoalsTypes
<1>2. CASE CheckRead(r)
    <2>1. PICK w : w = [AtRest EXCEPT !.pc = "next", !.todo = [g \in ActiveGoals |-> goal[g]]]
        OBVIOUS
    <2>2. /\ DOMAIN w = SaverFields /\ w.stale = FALSE /\ w.value = 0 /\ w.pc = "next"
          /\ w.todo = [g \in ActiveGoals |-> goal[g]]
        BY <2>1 DEF AtRest, SaverFields
    <2>3. /\ DOMAIN w.todo = ActiveGoals
          /\ \A g \in ActiveGoals : g \in Goals /\ w.todo[g] = goal[g] /\ goal[g].status = "ACTIVE"
        BY <2>2 DEF ActiveGoals
    <2>4. \A g \in ActiveGoals : w.todo[g].target \in Int
        BY <2>3, TargetsAreNumbers DEF GoalsInv, GoalsTypes
    <2>5. w.stale \in BOOLEAN
        BY Zenon, <2>2
    <2>6. SaverFits(w)
        BY <2>2, <2>3, <2>4, <2>5 DEF SaverFits
    <2>7. Become(r, w) /\ UNCHANGED <<goal, transfer, unchecked>>
        BY <1>2, <2>1 DEF CheckRead
    <2>8. \A g \in Goals : Awaited(g) => Checks(w, g)
        BY <2>2, <2>3 DEF Awaited, Checks, ActiveGoals
    <2>. QED BY <1>1, <2>6, <2>7, <2>8, BecomeFits
<1>3. CASE CheckEnds(r)
    <2>1. \A g : ~Checks(saving[r], g)
        BY <1>3 DEF CheckEnds, Checks
    <2>2. Become(r, AtRest) /\ UNCHANGED <<goal, transfer, unchecked>>
        BY <1>3 DEF CheckEnds
    <2>. QED BY <1>1, <2>1, <2>2, RestFits, BecomeFits
<1>4. ASSUME NEW g \in Goals, CheckProgress(r, g)
      PROVE  GoalsInv'
    <2>1. PICK o : o = saving[r]
        OBVIOUS
    <2>2. /\ o.pc = "next" /\ g \in DOMAIN o.todo /\ SaverFits(o) /\ DOMAIN o = SaverFields
          /\ o.todo[g].target \in Int
        BY <1>4, <2>1 DEF CheckProgress, GoalsInv, SaverFits
    <2>3. UNCHANGED <<goal, transfer, unchecked>>
        BY <1>4 DEF CheckProgress
    <2>4. CASE Reached(o.todo[g])
        <3>1. PICK w : w = [o EXCEPT !.pc = "writing", !.goal = {g}]
            OBVIOUS
        <3>2. Become(r, w)
            BY <1>4, <2>1, <2>4, <3>1 DEF CheckProgress
        <3>3. /\ DOMAIN w = SaverFields /\ w.pc = "writing" /\ w.goal = {g} /\ w.todo = o.todo
              /\ w.stale = o.stale /\ w.value = o.value
            BY <2>2, <3>1 DEF SaverFields
        <3>4. w.stale \in BOOLEAN
            BY Zenon, <2>2, <3>3 DEF SaverFits
        <3>5. SaverFits(w)
            BY <2>2, <2>4, <3>3, <3>4 DEF SaverFits
        <3>6. \A h \in Goals : Checks(saving[r], h) => Checks(w, h)
            BY <2>1, <2>2, <3>3 DEF Checks
        <3>. QED BY <1>1, <2>3, <3>2, <3>5, <3>6, BecomeFits
    <2>5. CASE ~Reached(o.todo[g])
        <3>1. PICK w : w = [o EXCEPT !.todo = Drop(@, g)]
            OBVIOUS
        <3>2. Become(r, w)
            BY <1>4, <2>1, <2>5, <3>1 DEF CheckProgress
        <3>3. /\ DOMAIN w = SaverFields /\ w.pc = "next" /\ w.todo = Drop(o.todo, g)
              /\ w.stale = o.stale /\ w.value = o.value
            BY <2>2, <3>1 DEF SaverFields
        <3>4. DOMAIN w.todo = DOMAIN o.todo \ {g} /\ \A h \in DOMAIN o.todo \ {g} : w.todo[h] = o.todo[h]
            BY <3>3 DEF Drop
        <3>5. w.stale \in BOOLEAN
            BY Zenon, <2>2, <3>3 DEF SaverFits
        <3>6. SaverFits(w)
            BY <2>2, <3>3, <3>4, <3>5 DEF SaverFits
        <3>7. ASSUME NEW h \in Goals, Awaited(h), Checks(saving[r], h)
              PROVE  Checks(w, h)
            <4>1. h \in DOMAIN o.todo /\ o.todo[h].target = goal[h].target
                BY <2>1, <2>2, <3>7 DEF Checks
            <4>2. h # g
                BY <2>5, <3>7, <4>1 DEF Awaited, Reached
            <4>. QED BY <3>3, <3>4, <4>1, <4>2 DEF Checks
        <3>. QED BY <1>1, <2>3, <3>2, <3>6, <3>7, BecomeFits
    <2>. QED BY <2>4, <2>5
<1>. QED BY <1>2, <1>3, <1>4

\* A transfer is written.
LEMMA TransferKeeps ==
    ASSUME GoalsInv, NEW r \in Savers, NEW s \in TransferSlots, TransferWrite(r, s)
    PROVE  GoalsInv'
<1>1. PICK o : o = saving[r]
    OBVIOUS
<1>2. SaverFits(o) /\ o.value \in Int /\ o.pc \in {"sending", "changing"} /\ UNCHANGED goal
    BY <1>1 DEF TransferWrite, GoalsInv, SaverFits
<1>3. \A g : ~Checks(saving[r], g)
    BY <1>1, <1>2 DEF Checks
<1>4. CASE o.pc = "changing" /\ transfer[s] = 0
    <2>1. Become(r, AtRest) /\ UNCHANGED <<goal, transfer, unchecked>>
        BY <1>1, <1>4 DEF TransferWrite
    <2>2. unchecked' \in BOOLEAN /\ (unchecked => unchecked')
        BY Zenon, <2>1 DEF GoalsInv, GoalsTypes
    <2>. QED BY <1>3, <2>1, <2>2, RestFits, BecomeFits
<1>5. CASE ~(o.pc = "changing" /\ transfer[s] = 0)
    <2>1. PICK w : w = IF o.value > 0 THEN Check ELSE AtRest
        OBVIOUS
    <2>2. /\ transfer' = [transfer EXCEPT ![s] = o.value] /\ Overtake(r, w)
          /\ unchecked' = (unchecked \/ (o.value <= 0 /\ o.value > transfer[s]))
        BY <1>1, <1>5, <2>1 DEF TransferWrite
    <2>3. unchecked' \in BOOLEAN
        BY Zenon, <2>2
    <2>4. transfer' \in [TransferSlots -> Int]
        BY <1>2, <2>2 DEF GoalsInv, GoalsTypes
    <2>5. SaverFits(w)'
        <3>1. /\ DOMAIN w = SaverFields /\ w.stale = FALSE /\ w.value = 0 /\ DOMAIN w.todo = {}
              /\ w.pc \in {"new", "check"}
            BY <2>1 DEF Check, AtRest, SaverFields
        <3>2. w.stale \in BOOLEAN
            BY Zenon, <3>1
        <3>. QED BY <3>1, <3>2 DEF SaverFits
    <2>6. ASSUME NEW g \in Goals, Awaited(g)'
          PROVE  w.pc = "check" \/ Awaited(g)
        <3>1. CASE o.value > 0
            BY <2>1, <3>1, RestFits
        <3>2. CASE ~(o.value > 0)
            <4>1. o.value <= 0
                BY <1>2, <3>2
            <4>2. ~unchecked /\ ~(o.value > transfer[s])
                BY <2>2, <2>6, <4>1 DEF Awaited
            <4>3. transfer \in [TransferSlots -> Int]
                BY DEF GoalsInv, GoalsTypes
            <4>4. \A x \in TransferSlots : transfer'[x] <= transfer[x]
                BY <1>2, <2>2, <4>2, <4>3
            <4>5. Saved' \in Int /\ Saved' <= Saved /\ Saved \in Int
                BY <2>4, <4>3, <4>4, SavedNoMore, SavedFound
            <4>6. goal[g].target \in Int
                BY TargetsAreNumbers DEF GoalsInv, GoalsTypes
            <4>7. goal[g].status = "ACTIVE" /\ Saved' >= goal[g].target
                BY <1>2, <2>6 DEF Awaited, Reached
            <4>. QED BY <4>2, <4>5, <4>6, <4>7 DEF Awaited, Reached
        <3>. QED BY <3>1, <3>2
    <2>7. goal' \in [Goals -> GoalType]
        BY <1>2 DEF GoalsInv, GoalsTypes
    <2>. QED BY <1>2, <1>3, <2>2, <2>3, <2>4, <2>5, <2>6, <2>7, OvertakeFits
<1>. QED BY <1>4, <1>5

\* A goal is created.
LEMMA CreateKeeps ==
    ASSUME GoalsInv, NEW r \in Savers, NEW g \in Goals, NEW target \in Targets, GoalCreate(r, g, target)
    PROVE  GoalsInv'
<1>1. /\ goal' = [goal EXCEPT ![g] = [status |-> "ACTIVE", target |-> target]] /\ Overtake(r, Check)
      /\ UNCHANGED <<transfer, unchecked>> /\ \A q \in Savers : saving[q].goal # {g}
    BY DEF GoalCreate
<1>2. goal' \in [Goals -> GoalType]
    <2>1. [status |-> "ACTIVE", target |-> target] \in GoalType
        BY DEF GoalType
    <2>. QED BY <1>1, <2>1 DEF GoalsInv, GoalsTypes
<1>3. transfer' \in [TransferSlots -> Int]
    BY <1>1 DEF GoalsInv, GoalsTypes
<1>4. unchecked' \in BOOLEAN
    BY Zenon, <1>1 DEF GoalsInv, GoalsTypes
<1>5. PICK w : w = Check
    OBVIOUS
<1>6. SaverFits(w)' /\ w.pc = "check"
    <2>1. DOMAIN w = SaverFields /\ w.stale = FALSE /\ w.value = 0 /\ DOMAIN w.todo = {} /\ w.pc = "check"
        BY <1>5 DEF Check, AtRest, SaverFields
    <2>2. w.stale \in BOOLEAN
        BY Zenon, <2>1
    <2>. QED BY <2>1, <2>2 DEF SaverFits
<1>7. \A h \in Goals : goal'[h].status = "ACTIVE" =>
            goal[h].status = "ACTIVE" \/ \A q \in Savers : saving[q].goal # {h}
    BY <1>1 DEF GoalsInv, GoalsTypes
<1>. QED BY <1>1, <1>2, <1>3, <1>4, <1>5, <1>6, <1>7, OvertakeFits

\* A goal is edited, abandoned or removed.
LEMMA EditKeeps ==
    ASSUME GoalsInv, NEW r \in Savers, NEW g \in Goals, GoalWrite(r, g)
    PROVE  GoalsInv'
<1>1. PICK o : o = saving[r]
    OBVIOUS
<1>2. /\ SaverFits(o) /\ o.pc \in {"editing", "abandoning", "removing"} /\ o.goal = {g}
      /\ UNCHANGED <<transfer, unchecked>>
    BY <1>1 DEF GoalWrite, GoalsInv
<1>3. \A h : ~Checks(saving[r], h)
    BY <1>1, <1>2 DEF Checks
<1>4. unchecked' \in BOOLEAN /\ (unchecked => unchecked')
    BY Zenon, <1>2 DEF GoalsInv, GoalsTypes
<1>5. CASE ~Exists(g)
    <2>1. Become(r, AtRest) /\ UNCHANGED <<goal, transfer>>
        BY <1>2, <1>5 DEF GoalWrite
    <2>. QED BY <1>3, <1>4, <2>1, RestFits, BecomeFits
<1>6. CASE Exists(g)
    <2>1. PICK w : w = IF o.pc = "editing" /\ o.status = "ACTIVE" THEN Check ELSE AtRest
        OBVIOUS
    <2>2. PICK row : /\ goal' = [goal EXCEPT ![g] = row]
                     /\ o.pc = "editing" => row = [goal[g] EXCEPT !.target = o.value]
                     /\ o.pc = "abandoning" => row = [goal[g] EXCEPT !.status = "ABANDONED"]
                     /\ o.pc = "removing" => row = NoGoal
        <3>1. goal' = [goal EXCEPT ![g] = [editing |-> [goal[g] EXCEPT !.target = o.value],
                                           abandoning |-> [goal[g] EXCEPT !.status = "ABANDONED"],
                                           removing |-> NoGoal][o.pc]]
            BY <1>1, <1>6 DEF GoalWrite
        <3>2. PICK row : row = [editing |-> [goal[g] EXCEPT !.target = o.value],
                                abandoning |-> [goal[g] EXCEPT !.status = "ABANDONED"],
                                removing |-> NoGoal][o.pc]
            OBVIOUS
        <3>3. /\ o.pc = "editing" => row = [goal[g] EXCEPT !.target = o.value]
              /\ o.pc = "abandoning" => row = [goal[g] EXCEPT !.status = "ABANDONED"]
              /\ o.pc = "removing" => row = NoGoal
            BY <3>2
        <3>. QED BY <3>1, <3>2, <3>3
    <2>3. Overtake(r, w)
        BY <1>1, <1>6, <2>1 DEF GoalWrite
    <2>4. /\ row \in GoalType
          /\ row.status = "ACTIVE" => o.pc = "editing" /\ goal[g].status = "ACTIVE"
        <3>1. goal[g] \in GoalType
            BY DEF GoalsInv, GoalsTypes
        <3>2. o.pc = "editing" => o.value \in Targets
            BY <1>2 DEF SaverFits
        <3>. QED BY <1>2, <2>2, <3>1, <3>2 DEF GoalType, NoGoal
    <2>5. goal' \in [Goals -> GoalType]
        BY <2>2, <2>4 DEF GoalsInv, GoalsTypes
    <2>6. transfer' \in [TransferSlots -> Int]
        BY <1>2 DEF GoalsInv, GoalsTypes
    <2>7. SaverFits(w)'
        <3>1. /\ DOMAIN w = SaverFields /\ w.stale = FALSE /\ w.value = 0 /\ DOMAIN w.todo = {}
              /\ w.pc \in {"new", "check"}
            BY <2>1 DEF Check, AtRest, SaverFields
        <3>2. w.stale \in BOOLEAN
            BY Zenon, <3>1
        <3>. QED BY <3>1, <3>2 DEF SaverFits
    <2>8. goal'[g] = row /\ \A h \in Goals : h # g => goal'[h] = goal[h]
        BY <2>2 DEF GoalsInv, GoalsTypes
    <2>9. ASSUME NEW h \in Goals, Awaited(h)'
          PROVE  w.pc = "check" \/ (Awaited(h) /\ goal'[h].target = goal[h].target)
        <3>1. CASE h = g
            <4>1. o.pc = "editing" /\ goal[g].status = "ACTIVE"
                BY <2>4, <2>8, <2>9, <3>1 DEF Awaited
            <4>2. o.status = "ACTIVE"
                BY <1>2, <4>1 DEF SaverFits
            <4>. QED BY <2>1, <4>1, <4>2, RestFits
        <3>2. CASE h # g
            <4>1. Saved' = Saved
                BY <1>2, SavedStays
            <4>. QED BY <1>2, <2>8, <2>9, <3>2, <4>1 DEF Awaited, Reached
        <3>. QED BY <3>1, <3>2
    <2>10. \A h \in Goals : goal'[h].status = "ACTIVE" => goal[h].status = "ACTIVE"
        BY <2>4, <2>8
    <2>. QED BY <1>3, <1>4, <2>3, <2>5, <2>6, <2>7, <2>9, <2>10, OvertakeFits
<1>. QED BY <1>5, <1>6

\* A check completes a goal.
LEMMA CompletionKeeps ==
    ASSUME GoalsInv, NEW r \in Savers, NEW g \in Goals, CheckWrite(r, g)
    PROVE  GoalsInv'
<1>1. PICK o : o = saving[r]
    OBVIOUS
<1>2. SaverFits(o) /\ DOMAIN o = SaverFields /\ o.pc = "writing" /\ o.goal = {g} /\ UNCHANGED transfer
    BY <1>1 DEF CheckWrite, GoalsInv, SaverFits
<1>3. Saved' = Saved
    BY <1>2, SavedStays
<1>4. CASE ~Exists(g)
    <2>1. Become(r, AtRest) /\ UNCHANGED <<goal, transfer>> /\ unchecked' = TRUE
        BY <1>2, <1>4 DEF CheckWrite
    <2>2. unchecked' \in BOOLEAN /\ unchecked'
        BY Zenon, <2>1
    <2>. QED BY <2>1, <2>2, RestFits, BecomeFits
<1>5. CASE Exists(g)
    <2>1. PICK w : w = [o EXCEPT !.pc = "next", !.goal = {}, !.todo = Drop(@, g)]
        OBVIOUS
    <2>2. goal' = [goal EXCEPT ![g].status = "COMPLETED"] /\ Overtake(r, w) /\ UNCHANGED unchecked
        BY <1>1, <1>5, <2>1 DEF CheckWrite
    <2>3. unchecked' \in BOOLEAN
        BY Zenon, <2>2 DEF GoalsInv, GoalsTypes
    <2>4. /\ goal' \in [Goals -> GoalType] /\ goal'[g].status = "COMPLETED"
          /\ \A h \in Goals : h # g => goal'[h] = goal[h]
        <3>1. goal \in [Goals -> GoalType]
            BY DEF GoalsInv, GoalsTypes
        <3>. QED BY <2>2, <3>1 DEF GoalType
    <2>5. transfer' \in [TransferSlots -> Int]
        BY <1>2 DEF GoalsInv, GoalsTypes
    <2>6. /\ DOMAIN w = SaverFields /\ w.pc = "next" /\ w.goal = {} /\ w.todo = Drop(o.todo, g)
          /\ w.stale = o.stale /\ w.value = o.value
        BY <1>2, <2>1 DEF SaverFields
    <2>7. DOMAIN w.todo = DOMAIN o.todo \ {g} /\ \A h \in DOMAIN o.todo \ {g} : w.todo[h] = o.todo[h]
        BY <2>6 DEF Drop
    <2>8. w.stale \in BOOLEAN
        BY Zenon, <1>2, <2>6 DEF SaverFits
    <2>9. SaverFits(w)'
        BY <1>2, <2>4, <2>6, <2>7, <2>8 DEF SaverFits
    <2>10. \A h \in Goals : goal'[h].status = "ACTIVE" => goal[h].status = "ACTIVE"
        BY <2>4
    <2>11. ASSUME NEW h \in Goals, Awaited(h)'
           PROVE  /\ Awaited(h) /\ goal'[h].target = goal[h].target
                  /\ Checks(saving[r], h) => Checks(w, h)'
        <3>1. h # g /\ goal'[h] = goal[h]
            BY <2>4, <2>11 DEF Awaited
        <3>2. Awaited(h)
            BY <1>3, <2>2, <2>11, <3>1 DEF Awaited, Reached
        <3>. QED BY <1>1, <1>2, <2>6, <2>7, <3>1, <3>2 DEF Checks
    <2>. QED BY <2>2, <2>3, <2>4, <2>5, <2>9, <2>10, <2>11, OvertakeFits
<1>. QED BY <1>4, <1>5

\* The process goes down and the checks with it.
LEMMA GoalsRestartKeeps ==
    ASSUME GoalsInv, GoalsRestart
    PROVE  GoalsInv'
<1>1. /\ saving' = [r \in Savers |-> AtRest] /\ UNCHANGED <<goal, transfer>>
      /\ unchecked' = (unchecked \/ \E r \in Savers : saving[r].pc \in {"check", "next", "writing"})
    BY DEF GoalsRestart
<1>2. unchecked' \in BOOLEAN
    BY Zenon, <1>1
<1>3. GoalsTypes'
    BY <1>1, <1>2 DEF GoalsInv, GoalsTypes
<1>4. PICK w : w = AtRest
    OBVIOUS
<1>5. SaverFits(w)'
    <2>1. DOMAIN w = SaverFields /\ w.stale = FALSE /\ w.value = 0 /\ DOMAIN w.todo = {} /\ w.pc = "new"
        BY <1>4 DEF AtRest, SaverFields
    <2>2. w.stale \in BOOLEAN
        BY Zenon, <2>1
    <2>. QED BY <2>1, <2>2 DEF SaverFits
<1>6. \A r \in Savers : saving'[r] = w
    BY <1>1, <1>4
<1>7. (\A r \in Savers : SaverFits(saving[r]))'
    BY <1>5, <1>6 DEF SaverFits
<1>8. \A g \in Goals : ~Awaited(g)'
    <2>1. SUFFICES ASSUME NEW g \in Goals, Awaited(g)'
                   PROVE  FALSE
        OBVIOUS
    <2>2. ~unchecked /\ \A r \in Savers : saving[r].pc \notin {"check", "next", "writing"}
        <3>1. ~unchecked'
            BY Zenon, <2>1 DEF Awaited
        <3>2. (unchecked \/ \E r \in Savers : saving[r].pc \in {"check", "next", "writing"}) => unchecked'
            BY Zenon, <1>1
        <3>. QED BY Zenon, <3>1, <3>2
    <2>3. Awaited(g)
        BY <1>1, <2>1, <2>2, SavedStays DEF Awaited, Reached
    <2>4. PICK r \in Savers : Checks(saving[r], g)
        BY <2>3 DEF GoalsInv, AwaitedChecked
    <2>. QED BY <2>2, <2>4 DEF Checks
<1>9. AwaitedChecked'
    BY <1>8 DEF AwaitedChecked
<1>. QED BY Zenon, <1>3, <1>7, <1>9 DEF GoalsInv

\* The household's first day.
LEMMA GoalsStart == PlanningInit => GoalsInv
<1>1. SUFFICES ASSUME PlanningInit
               PROVE  GoalsInv
    OBVIOUS
<1>2. /\ transfer = [s \in TransferSlots |-> 0] /\ saving = [r \in Savers |-> AtRest] /\ unchecked = FALSE
      /\ \E w \in Worlds : goal = w.goal
    BY <1>1 DEF PlanningInit, GoalsInit
<1>3. goal \in [Goals -> GoalType] /\ \A g \in Goals : goal[g].status = "ACTIVE" => goal[g].target \in Targets
    BY <1>2, WorldsAssumption
<1>4. unchecked \in BOOLEAN
    BY Zenon, <1>2
<1>5. GoalsTypes
    BY <1>2, <1>3, <1>4 DEF GoalsTypes
<1>6. \A r \in Savers : SaverFits(saving[r])
    BY <1>2, RestFits
<1>7. \A g \in Goals : ~Awaited(g)
    <2>1. Saved = 0
        BY <1>2, SavedNothing
    <2>2. \A n \in Targets : n \in Int /\ ~(0 >= n)
        BY GoalsAssumption
    <2>. QED BY <1>3, <2>1, <2>2 DEF Awaited, Reached
<1>. QED BY Zenon, <1>5, <1>6, <1>7 DEF GoalsInv, AwaitedChecked

Completions(g) == Same("SAVINGS_GOAL_COMPLETED", g)

\* Where the household's steps meet the goals.
LEMMA GoalsMeet ==
    ASSUME PlanningNext \/ UNCHANGED planningVars
    PROVE  \/ UNCHANGED goalVars /\ \A g : Completions(g)' = Completions(g)
           \/ /\ UNCHANGED delivery
              /\ \E r \in Savers :
                    \/ \E s \in TransferSlots, sum \in Sums \cup {0} : TransferRead(r, s, sum)
                    \/ \E g \in Goals, target \in Targets : GoalRead(r, g, "editing", target)
                    \/ \E g \in Goals, pc \in {"abandoning", "removing"} : GoalRead(r, g, pc, 0)
                    \/ \E g \in Goals, target \in Targets : GoalCreate(r, g, target)
                    \/ \E s \in TransferSlots : TransferWrite(r, s)
                    \/ \E g \in Goals : GoalWrite(r, g)
                    \/ CheckRead(r) \/ CheckEnds(r) \/ \E g \in Goals : CheckProgress(r, g)
           \/ \E r \in Savers, g \in Goals : CheckWrite(r, g)
           \/ GoalsRestart /\ \A g : Completions(g)' = Completions(g)
<1>1. ASSUME DOMAIN delivery' = DOMAIN delivery
      PROVE  \A g : Completions(g)' = Completions(g)
    BY <1>1 DEF Completions, Same
<1>2. ASSUME NEW events, \A e \in events : e.kind # "SAVINGS_GOAL_COMPLETED", Raise(events)
      PROVE  \A g : Completions(g)' = Completions(g)
    <2>1. DOMAIN delivery' = DOMAIN delivery \cup events
        BY <1>2 DEF Raise
    <2>. QED BY <1>2, <2>1 DEF Completions, Same
<1>3. CASE BudgetStep
    <2>1. UNCHANGED goalVars /\ (UNCHANGED delivery \/ \E r \in Spenders : SpendEmit(r))
        BY <1>3 DEF BudgetStep
    <2>2. ASSUME NEW r \in Spenders, SpendEmit(r)
          PROVE  \A g : Completions(g)' = Completions(g)
        <3>1. PICK warned, exceeded : Raise(Events("BUDGET_WARNING", warned) \cup Events("BUDGET_EXCEEDED", exceeded))
            BY <2>2 DEF SpendEmit
        <3>2. \A e \in Events("BUDGET_WARNING", warned) \cup Events("BUDGET_EXCEEDED", exceeded) :
                    e.kind # "SAVINGS_GOAL_COMPLETED"
            BY DEF Events
        <3>. QED BY <1>2, <3>1, <3>2
    <2>. QED BY <1>1, <2>1, <2>2
<1>4. CASE GoalStep
    BY <1>4 DEF GoalStep
<1>5. CASE ReportSteps
    <2>1. UNCHANGED goalVars /\ (UNCHANGED delivery \/ \E x \in Generators : EmitReady(x))
        BY <1>5 DEF ReportSteps
    <2>2. ASSUME NEW x \in Generators, EmitReady(x)
          PROVE  \A g : Completions(g)' = Completions(g)
        <3>1. UNCHANGED delivery \/ Raise(Events("REPORT_READY", {generator[x].of}))
            BY <2>2 DEF EmitReady
        <3>2. \A e \in Events("REPORT_READY", {generator[x].of}) : e.kind # "SAVINGS_GOAL_COMPLETED"
            BY DEF Events
        <3>. QED BY <1>1, <1>2, <3>1, <3>2
    <2>. QED BY <1>1, <2>1, <2>2
<1>6. CASE Delivers
    <2>1. UNCHANGED goalVars
        BY <1>6 DEF Delivers
    <2>2. PICK e, d : delivery' = [delivery EXCEPT ![e] = d]
        BY <1>6 DEF Delivers, DeliveryStep, SendEmail, Sent, Skip, Persist, SendPush, Step
    <2>3. DOMAIN delivery' = DOMAIN delivery
        BY <2>2
    <2>. QED BY <1>1, <2>1, <2>3
<1>7. CASE Restart
    <2>1. DOMAIN delivery' = DOMAIN delivery
        BY <1>7 DEF Restart, Interrupted
    <2>. QED BY <1>1, <1>7, <2>1 DEF Restart
<1>8. CASE TransferRequest
    BY <1>8 DEF TransferRequest, notificationVars
<1>9. CASE GoalRequest
    BY <1>9 DEF GoalRequest, notificationVars
<1>10. CASE Device
    BY <1>1, <1>10 DEF Device, DeviceStep, EndpointDies, Unsubscribe, Subscribe
<1>11. \/ UNCHANGED goalVars /\ UNCHANGED delivery
       \/ BudgetStep \/ GoalStep \/ ReportSteps \/ Delivers \/ Restart \/ TransferRequest \/ GoalRequest \/ Device
    BY DEF PlanningNext, planningVars, CategoryRequest, ExpenseRequest, BudgetRequest, ReportRequest, Later,
           WriteRequest, CategoryStep, AuditSteps, NewMonth, Idle, services, notificationVars
<1>12. UNCHANGED goalVars /\ UNCHANGED delivery => UNCHANGED goalVars /\ \A g : Completions(g)' = Completions(g)
    BY <1>1
<1>. QED BY <1>3, <1>4, <1>5, <1>6, <1>7, <1>8, <1>9, <1>10, <1>11, <1>12

\* Planning's specification keeps the goals' invariant.
THEOREM GoalsInvariant == PlanningSpec => []GoalsInv
<1>1. GoalsInv /\ [PlanningNext]_planningVars => GoalsInv'
    <2>1. SUFFICES ASSUME GoalsInv, PlanningNext \/ UNCHANGED planningVars
                   PROVE  GoalsInv'
        OBVIOUS
    <2>2. CASE UNCHANGED goalVars
        <3>1. UNCHANGED <<goal, transfer, saving, unchecked>>
            BY <2>2 DEF goalVars
        <3>2. Saved' = Saved
            BY <3>1, SavedStays
        <3>3. GoalsTypes' = GoalsTypes
            BY <3>1 DEF GoalsTypes
        <3>4. ASSUME NEW r \in Savers
              PROVE  SaverFits(saving[r])'
            BY <2>1, <3>1, <3>2 DEF GoalsInv, SaverFits, Reached
        <3>5. AwaitedChecked'
            BY <2>1, <3>1, <3>2 DEF GoalsInv, AwaitedChecked, Awaited, Checks, Reached
        <3>. QED BY Zenon, <2>1, <3>3, <3>4, <3>5 DEF GoalsInv
    <2>3. CASE \E r \in Savers, g \in Goals : CheckWrite(r, g)
        BY <2>1, <2>3, CompletionKeeps
    <2>4. CASE GoalsRestart
        BY <2>1, <2>4, GoalsRestartKeeps
    <2>5. ASSUME NEW r \in Savers,
                 \/ \E s \in TransferSlots, sum \in Sums \cup {0} : TransferRead(r, s, sum)
                 \/ \E g \in Goals, target \in Targets : GoalRead(r, g, "editing", target)
                 \/ \E g \in Goals, pc \in {"abandoning", "removing"} : GoalRead(r, g, pc, 0)
                 \/ \E g \in Goals, target \in Targets : GoalCreate(r, g, target)
                 \/ \E s \in TransferSlots : TransferWrite(r, s)
                 \/ \E g \in Goals : GoalWrite(r, g)
                 \/ CheckRead(r) \/ CheckEnds(r) \/ \E g \in Goals : CheckProgress(r, g)
          PROVE  GoalsInv'
        BY Zenon, <2>1, <2>5, GoalsRead, CreateKeeps, TransferKeeps, EditKeeps, ChecksGoOn
    <2>. QED BY <2>1, <2>2, <2>3, <2>4, <2>5, GoalsMeet
<1>. QED BY <1>1, GoalsStart, PTL DEF PlanningSpec

\* A goal whose target is saved is completed or a check is on its way to it, and it is
\* completed and announced only while it is active with its target saved, unless its
\* check was overtaken (GoalsCompletedWhenReached, SavingsGoals.tla).
THEOREM GoalsCompleted == PlanningSpec => GoalsCompletedWhenReached
<1>1. ASSUME GoalsInv, PlanningNext \/ UNCHANGED planningVars, NEW g \in Goals,
             Same("SAVINGS_GOAL_COMPLETED", g)' # Same("SAVINGS_GOAL_COMPLETED", g)
      PROVE  \/ goal[g].status = "ACTIVE" /\ Reached(goal[g])
             \/ \E r \in Savers : saving[r].stale /\ saving'[r] # saving[r]
    <2>1. Completions(g)' # Completions(g)
        BY <1>1 DEF Completions
    <2>2. UNCHANGED delivery => Completions(g)' = Completions(g)
        BY DEF Completions, Same
    <2>3. PICK r \in Savers, h \in Goals : CheckWrite(r, h)
        BY <1>1, <2>1, <2>2, GoalsMeet
    <2>4. PICK o : o = saving[r]
        OBVIOUS
    <2>5. SaverFits(o) /\ o.pc = "writing" /\ o.goal = {h}
        BY <1>1, <2>3, <2>4 DEF CheckWrite, GoalsInv
    <2>6. Exists(h) /\ Raise(Events("SAVINGS_GOAL_COMPLETED", {h}))
        BY <2>2, <2>1, <2>3 DEF CheckWrite
    <2>7. h = g
        <3>1. DOMAIN delivery' = DOMAIN delivery \cup Events("SAVINGS_GOAL_COMPLETED", {h})
            BY <2>6 DEF Raise
        <3>2. \A e \in Events("SAVINGS_GOAL_COMPLETED", {h}) : e.about = h
            BY DEF Events
        <3>. QED BY <2>1, <3>1, <3>2 DEF Completions, Same
    <2>8. CASE o.stale
        <3>1. Overtake(r, [o EXCEPT !.pc = "next", !.goal = {}, !.todo = Drop(@, h)])
            BY <2>3, <2>4, <2>6 DEF CheckWrite
        <3>2. PICK w : w = [o EXCEPT !.pc = "next", !.goal = {}, !.todo = Drop(@, h)]
            OBVIOUS
        <3>3. DOMAIN o = SaverFields
            BY <2>5 DEF SaverFits
        <3>4. w.pc = "next" /\ saving'[r] = w
            BY <3>1, <3>2, <3>3 DEF Overtake, SaverFields
        <3>5. saving'[r] # saving[r]
            BY <2>4, <2>5, <3>4
        <3>. QED BY Zenon, <2>4, <2>8, <3>5
    <2>9. CASE ~o.stale
        <3>1. g \in DOMAIN o.todo /\ Reached(o.todo[g]) /\ o.todo[g] = goal[g] /\ goal[g].status = "ACTIVE"
            <4>1. \A x : {x} = {h} => x = h
                OBVIOUS
            <4>. QED BY <2>5, <2>7, <2>9, <4>1 DEF SaverFits
        <3>. QED BY <3>1
    <2>. QED BY <2>8, <2>9
<1>2. GoalsInv /\ [PlanningNext]_planningVars =>
        [\A g \in Goals : Same("SAVINGS_GOAL_COMPLETED", g)' # Same("SAVINGS_GOAL_COMPLETED", g) =>
            \/ goal[g].status = "ACTIVE" /\ Reached(goal[g])
            \/ \E r \in Savers : saving[r].stale /\ saving'[r] # saving[r]]_<<goalVars, delivery>>
    BY Zenon, <1>1
<1>. QED BY <1>2, GoalsInvariant, AwaitedGetCompleted, PTL DEF PlanningSpec, GoalsCompletedWhenReached
=============================================================================
