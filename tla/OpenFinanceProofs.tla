--------------------------- MODULE OpenFinanceProofs ---------------------------
(***************************************************************************)
(* What the theorems about Open Finance rest on: that a connection of a     *)
(* provider keeps its word whatever syncs run, fail and overlap             *)
(* (Connections.tla).                                                       *)
(***************************************************************************)
EXTENDS OpenFinance, MatchingProofs, Connections, FiniteSetTheorems, TLAPS

-----------------------------------------------------------------------------
(* Connections: what holds of a sync at each of its steps. *)

Words == {"ACTIVE", "EXPIRED", "REVOKED"}
Statuses == Words \cup {"UPDATING", "LOGIN_ERROR"}
Steps == {"idle", "mark", "ask", "look", "tie", "read", "write", "store", "failed"}

RunRecord == [pc : Steps, id : Nat, status : Statuses, last : Int, wants : {NoAccount, 1},
              said : Words, saw : {NoAccount, 1, 2}, found : SUBSET Movements]

ConnRecord == [there : BOOLEAN, id : Nat, status : Statuses, last : Int]

PastRecord == [starts : Nat, slips : Nat, why : SUBSET {"crash", "overlap", "failed"},
               word : Statuses, early : SUBSET Movements]

ConnTypes ==
    /\ clock \in Nat
    /\ conn \in ConnRecord /\ conn.last <= clock
    /\ bank \in [status : Words, open : BOOLEAN]
    /\ dated \in [Movements -> Int] /\ books \subseteq Movements
    /\ link \in {NoAccount, 1, 2}
    /\ run \in [Runs -> RunRecord]
    /\ past \in PastRecord
    /\ \A s \in Running : run[s].id <= conn.id

\* One sync runs at most, and of the connection that is there.
Alone == \A s \in Running : Still(s) /\ \A t \in Running : s = t

\* While none crashed and none overlapped, no sync has read UPDATING.
NeverStuck ==
    past.why \cap {"crash", "overlap"} = {} =>
        /\ Alone
        /\ \A s \in Running : /\ run[s].status # "UPDATING"
                              /\ run[s].pc = "mark" => conn.status # "UPDATING"
        /\ conn.there /\ Running = {} => conn.status # "UPDATING"

\* While nothing went wrong, the sync that runs holds the provider's last word.
WordKept ==
    past.why = {} =>
        /\ conn.there /\ Running = {} => conn.status = past.word
        /\ \A s \in Running : run[s].pc \in {"look", "tie", "read", "write", "store"} => run[s].said = past.word

\* What the books lack is in the hands of the sync, or was shown too late for it.
ReadOn ==
    \A s \in Running : Still(s) =>
        /\ run[s].last <= conn.last
        /\ run[s].pc = "write" => \A e \in Shown \ books : e \in run[s].found \cup past.early
        /\ run[s].pc = "store" => Shown \ books \subseteq past.early

ConnInv == ConnTypes /\ NeverStuck /\ WordKept /\ NothingLeftBetween /\ ReadOn

\* A step of s writes its own record only.
LEMMA RunWritten ==
    ASSUME ConnTypes, NEW s \in Runs, NEW q \in RunRecord, run' = [run EXCEPT ![s] = q]
    PROVE  /\ run' \in [Runs -> RunRecord] /\ run'[s] = q
           /\ \A t \in Runs : t # s => run'[t] = run[t]
           /\ Running' = IF q.pc = "idle" THEN Running \ {s} ELSE Running \cup {s}
<1>1. run' \in [Runs -> RunRecord] /\ run'[s] = q /\ \A t \in Runs : t # s => run'[t] = run[t]
    BY DEF ConnTypes
<1>. QED BY <1>1 DEF Running

LEMMA RunTurned ==
    ASSUME ConnTypes, NEW s \in Runs, NEW pc \in Steps, Turn(s, pc)
    PROVE  /\ [run[s] EXCEPT !.pc = pc] \in RunRecord
           /\ run' = [run EXCEPT ![s] = [run[s] EXCEPT !.pc = pc]]
<1>1. run[s] \in RunRecord
    BY DEF ConnTypes
<1>. QED BY <1>1 DEF Turn, RunRecord, ConnTypes

LEMMA IdleRunFits == IdleRun \in RunRecord /\ IdleRun.pc = "idle"
BY DEF IdleRun, RunRecord, Steps, Statuses, Words, NoHour, NoAccount

\* A sync goes on: the connection keeps its hour, and the books only grow.
LEMMA SyncGoesOn ==
    ASSUME ConnInv, NEW s \in Running, NEW q \in RunRecord, run' = [run EXCEPT ![s] = q],
           q.pc \notin {"idle", "mark"}, q.id = run[s].id, q.status = run[s].status, q.last = run[s].last,
           ConnTypes', UNCHANGED <<clock, bank, dated>>, books \subseteq books',
           conn'.there = conn.there, conn'.id = conn.id, conn'.last = conn.last,
           past'.why = past.why, past'.early = past.early,
           past.why = {} /\ q.pc \in {"look", "tie", "read", "write", "store"} => q.said = past'.word,
           Still(s) /\ q.pc = "write" => \A e \in Shown \ books' : e \in q.found \cup past.early,
           Still(s) /\ q.pc = "store" => Shown \ books' \subseteq past.early
    PROVE  ConnInv'
<1>1. /\ run'[s] = q /\ \A t \in Runs : t # s => run'[t] = run[t]
      /\ Running' = Running /\ Shown' = Shown
      /\ \A t \in Running : Still(t)' = Still(t)
    <2>1. s \in Runs /\ ConnTypes
        BY DEF Running, ConnInv
    <2>2. /\ run'[s] = q /\ \A t \in Runs : t # s => run'[t] = run[t]
          /\ Running' = Running \cup {s}
        BY <2>1, RunWritten
    <2>3. Running' = Running /\ Shown' = Shown
        BY <2>2 DEF Shown
    <2>4. ASSUME NEW t \in Running
          PROVE  Still(t)' = Still(t)
        <3>1. run'[t].id = run[t].id
            BY <2>2 DEF Running
        <3>. QED BY <3>1 DEF Still
    <2>. QED BY <2>2, <2>3, <2>4
<1>2. NeverStuck'
    BY <1>1 DEF ConnInv, NeverStuck, Alone
<1>3. WordKept'
    <2>1. past.why = {} => \A t \in Running : t = s
        BY DEF ConnInv, NeverStuck, Alone
    <2>2. ASSUME past'.why = {}, NEW t \in Running',
                 run'[t].pc \in {"look", "tie", "read", "write", "store"}
          PROVE  run'[t].said = past'.word
        BY <1>1, <2>1, <2>2
    <2>3. Running' # {}
        BY <1>1
    <2>. QED BY <2>2, <2>3 DEF WordKept
<1>4. NothingLeftBetween'
    BY <1>1 DEF ConnInv, NothingLeftBetween
<1>5. ReadOn'
    <2>1. ASSUME NEW t \in Running, Still(t)'
          PROVE  /\ run'[t].last <= conn'.last
                 /\ run'[t].pc = "write" => \A e \in Shown' \ books' : e \in run'[t].found \cup past'.early
                 /\ run'[t].pc = "store" => Shown' \ books' \subseteq past'.early
        <3>1. CASE t = s
            BY <1>1, <2>1, <3>1 DEF ConnInv, ReadOn
        <3>2. CASE t # s
            <4>1. run'[t] = run[t] /\ Still(t)
                BY <1>1, <2>1, <3>2 DEF Running
            <4>. QED BY <1>1, <4>1 DEF ConnInv, ReadOn
        <3>. QED BY <3>1, <3>2
    <2>. QED BY <1>1, <2>1 DEF ReadOn
<1>. QED BY <1>2, <1>3, <1>4, <1>5 DEF ConnInv

\* A sync ends: what it leaves in the connection is the provider's word, unless
\* something went wrong, and no hour after which a movement was passed over.
LEMMA SyncEnds ==
    ASSUME ConnInv, NEW s \in Running, run' = [run EXCEPT ![s] = IdleRun],
           ConnTypes', UNCHANGED <<clock, bank, dated, books>>,
           conn'.there = conn.there, conn'.id = conn.id, conn'.last >= conn.last,
           past.why \subseteq past'.why, past'.early = past.early,
           conn.there /\ past'.why \cap {"crash", "overlap"} = {} => conn'.status # "UPDATING",
           conn.there /\ past'.why = {} => conn'.status = past'.word,
           conn.there /\ conn'.last # conn.last => Shown \ books \subseteq past.early
    PROVE  ConnInv'
<1>1. /\ \A t \in Runs : t # s => run'[t] = run[t]
      /\ Running' = Running \ {s} /\ Shown' = Shown
      /\ \A t \in Running' : t \in Running /\ run'[t] = run[t] /\ Still(t)' = Still(t)
    <2>1. /\ \A t \in Runs : t # s => run'[t] = run[t]
          /\ Running' = Running \ {s} /\ Shown' = Shown
        BY RunWritten, IdleRunFits DEF Running, Shown, ConnInv
    <2>. QED BY <2>1 DEF Running, Still
<1>2. past'.why \cap {"crash", "overlap"} = {} => Running' = {}
    BY <1>1 DEF ConnInv, NeverStuck, Alone
<1>3. NeverStuck'
    BY <1>1, <1>2 DEF NeverStuck, Alone
<1>4. WordKept'
    BY <1>1, <1>2 DEF WordKept
<1>5. NothingLeftBetween'
    BY <1>1 DEF ConnInv, NothingLeftBetween
<1>6. ReadOn'
    <2>1. ASSUME NEW t \in Running', Still(t)'
          PROVE  /\ run'[t].last <= conn'.last
                 /\ run'[t].pc = "write" => \A e \in Shown' \ books' : e \in run'[t].found \cup past'.early
                 /\ run'[t].pc = "store" => Shown' \ books' \subseteq past'.early
        <3>1. t \in Running /\ run'[t] = run[t] /\ Still(t)
            BY <1>1, <2>1
        <3>2. run[t].last <= conn.last /\ run[t].last \in Int /\ conn.last \in Int /\ conn'.last \in Int
            BY <3>1 DEF ConnInv, ReadOn, ConnTypes, ConnRecord, RunRecord, Running
        <3>. QED BY <1>1, <3>1, <3>2 DEF ConnInv, ReadOn
    <2>. QED BY <2>1 DEF ReadOn
<1>. QED BY <1>3, <1>4, <1>5, <1>6 DEF ConnInv

\* The connection as a sync stores a status in it.
LEMMA Stored ==
    ASSUME ConnTypes, NEW s \in Runs, NEW status \in Statuses, Stores(s, status)
    PROVE  /\ conn' \in ConnRecord
           /\ conn'.there = conn.there /\ conn'.id = conn.id /\ conn'.last = conn.last
           /\ Still(s) => conn'.status = status
           /\ ~Still(s) => conn' = conn
BY DEF ConnTypes, Stores, ConnRecord

\* The types of a step that leaves the others' records alone.
LEMMA TypesOfStep ==
    ASSUME ConnTypes, NEW s \in Runs, NEW q \in RunRecord, run' = [run EXCEPT ![s] = q],
           q.id <= conn.id \/ q.pc = "idle", UNCHANGED <<clock, bank, dated>>,
           conn' \in ConnRecord,
           conn'.id = conn.id, conn'.last <= clock, books' \subseteq Movements, link' \in {NoAccount, 1, 2},
           past' \in PastRecord
    PROVE  ConnTypes'
<1>1. /\ run' \in [Runs -> RunRecord] /\ run'[s] = q
      /\ \A t \in Runs : t # s => run'[t] = run[t]
    BY RunWritten
<1>2. \A t \in Running' : run'[t].id <= conn'.id
    BY <1>1 DEF Running, ConnTypes
<1>. QED BY <1>1, <1>2 DEF ConnTypes

LEMMA FindKeeps ==
    ASSUME ConnInv, NEW s \in Runs, NEW wants \in {NoAccount, 1}, Find(s, wants)
    PROVE  ConnInv'
<1> DEFINE q == [IdleRun EXCEPT !.pc = "mark", !.id = conn.id, !.status = conn.status,
                                !.last = conn.last, !.wants = wants]
<1>1. /\ ConnTypes /\ q \in RunRecord /\ run' = [run EXCEPT ![s] = q]
      /\ q.pc = "mark" /\ q.id = conn.id /\ q.status = conn.status /\ q.last = conn.last
    BY DEF ConnInv, Find, ConnTypes, ConnRecord, RunRecord, IdleRun, Steps, Words, NoAccount
<1> HIDE DEF q
<1>2. ConnTypes'
    <2>1. past.why \cup Overlapping \in SUBSET {"crash", "overlap", "failed"}
        BY <1>1 DEF ConnTypes, PastRecord, Overlapping
    <2>2. past.starts + 1 \in Nat /\ past \in PastRecord
        BY <1>1 DEF ConnTypes, PastRecord
    <2>3. past' \in PastRecord
        BY <2>1, <2>2 DEF Find, PastRecord
    <2>4. /\ conn' \in ConnRecord /\ conn'.id = conn.id /\ conn'.last <= clock /\ q.id <= conn.id
          /\ books' \subseteq Movements /\ link' \in {NoAccount, 1, 2} /\ UNCHANGED <<clock, bank, dated>>
        BY <1>1 DEF Find, ConnTypes, ConnRecord
    <2>. QED BY <1>1, <2>3, <2>4, TypesOfStep
<1>3. /\ run'[s] = q /\ \A t \in Runs : t # s => run'[t] = run[t]
      /\ Running' = Running \cup {s} /\ s \notin Running
    <2>1. /\ run'[s] = q /\ \A t \in Runs : t # s => run'[t] = run[t]
          /\ Running' = Running \cup {s}
        BY <1>1, RunWritten
    <2>2. s \notin Running
        BY DEF Find, Running
    <2>. QED BY <2>1, <2>2
<1>4. /\ past'.why = past.why \cup Overlapping /\ past'.early = past.early /\ past'.word = past.word
      /\ conn.there /\ UNCHANGED <<conn, books, dated>>
    BY <1>1 DEF Find, ConnTypes, PastRecord
<1>5. /\ Still(s)' /\ Shown' = Shown
      /\ \A t \in Running : t # s /\ run'[t] = run[t] /\ Still(t)' = Still(t)
    BY <1>1, <1>3, <1>4 DEF Still, Shown, Running
<1>6. past'.why \cap {"crash", "overlap"} = {} => past.why \cap {"crash", "overlap"} = {} /\ Running = {}
    BY <1>4 DEF Overlapping
<1>7. NeverStuck'
    <2>1. SUFFICES ASSUME past'.why \cap {"crash", "overlap"} = {}
                   PROVE  Running' = {s} /\ conn.status # "UPDATING"
        BY <1>1, <1>3, <1>4, <1>5 DEF NeverStuck, Alone
    <2>. QED BY <1>3, <1>4, <1>6, <2>1 DEF ConnInv, NeverStuck
<1>8. WordKept'
    <2>1. past'.why = {} => Running' = {s}
        BY <1>3, <1>6
    <2>. QED BY <1>1, <1>3, <2>1 DEF WordKept
<1>9. NothingLeftBetween'
    BY <1>4, <1>5 DEF ConnInv, NothingLeftBetween
<1>10. ReadOn'
    <2>1. ASSUME NEW t \in Running', Still(t)'
          PROVE  /\ run'[t].last <= conn'.last
                 /\ run'[t].pc = "write" => \A e \in Shown' \ books' : e \in run'[t].found \cup past'.early
                 /\ run'[t].pc = "store" => Shown' \ books' \subseteq past'.early
        <3>1. CASE t = s
            BY <1>1, <1>3, <1>4, <3>1 DEF ConnTypes, ConnRecord
        <3>2. CASE t # s
            BY <1>3, <1>4, <1>5, <2>1, <3>2 DEF ConnInv, ReadOn
        <3>. QED BY <3>1, <3>2
    <2>. QED BY <2>1 DEF ReadOn
<1>. QED BY <1>2, <1>7, <1>8, <1>9, <1>10 DEF ConnInv

LEMMA MarkKeeps ==
    ASSUME ConnInv, NEW s \in Runs, MarkUpdating(s)
    PROVE  ConnInv'
<1>1. ConnTypes /\ s \in Running /\ run[s] \in RunRecord /\ run[s].id <= conn.id
    BY DEF ConnInv, ConnTypes, MarkUpdating, Running
<1>2. /\ conn' \in ConnRecord
      /\ conn'.there = conn.there /\ conn'.id = conn.id /\ conn'.last = conn.last
      /\ ~Still(s) => conn' = conn
    BY <1>1, Stored DEF MarkUpdating, Statuses
<1>3. CASE Still(s)
    <2> DEFINE q == [run[s] EXCEPT !.pc = "ask"]
    <2>1. q \in RunRecord /\ run' = [run EXCEPT ![s] = q]
        BY <1>1, <1>3, RunTurned DEF MarkUpdating, Steps
    <2>2. q.pc = "ask" /\ q.id = run[s].id /\ q.status = run[s].status /\ q.last = run[s].last
        BY <1>1 DEF RunRecord
    <2>3. ConnTypes'
        BY <1>1, <1>2, <2>1, <2>2, TypesOfStep DEF MarkUpdating, ConnTypes
    <2> HIDE DEF q
    <2>4. UNCHANGED <<clock, bank, dated, books, past>>
        BY DEF MarkUpdating
    <2>. QED BY <1>1, <1>2, <2>1, <2>2, <2>3, <2>4, SyncGoesOn
<1>4. CASE ~Still(s)
    <2>1. run' = [run EXCEPT ![s] = IdleRun] /\ conn' = conn
        BY <1>2, <1>4 DEF MarkUpdating
    <2>2. ConnTypes'
        BY <1>1, <1>2, <2>1, TypesOfStep, IdleRunFits DEF MarkUpdating, ConnTypes
    <2>3. past.why \cap {"crash", "overlap"} # {}
        BY <1>1, <1>4 DEF ConnInv, NeverStuck, Alone
    <2>4. UNCHANGED <<clock, bank, dated, books, past>> /\ conn.last >= conn.last
        BY <1>1 DEF MarkUpdating, ConnTypes, ConnRecord
    <2>5. past.why # {}
        BY <2>3
    <2>. QED BY <1>1, <2>1, <2>2, <2>3, <2>4, <2>5, SyncEnds
<1>. QED BY <1>3, <1>4

\* What every step of a sync that runs knows.
LEMMA AtStep ==
    ASSUME ConnInv, NEW s \in Runs, run[s].pc # "idle"
    PROVE  /\ ConnTypes /\ s \in Running /\ run[s] \in RunRecord
           /\ run[s].id \in Nat /\ conn.id \in Nat /\ run[s].id <= conn.id
           /\ clock \in Nat /\ conn \in ConnRecord /\ conn.last \in Int /\ conn.last <= clock
           /\ past \in PastRecord /\ past.slips + 1 \in Nat
           /\ past.why \cap {"crash", "overlap"} = {} => Still(s)
           /\ past.why = {} /\ run[s].pc \in {"look", "tie", "read", "write", "store"} => run[s].said = past.word
<1>1. ConnTypes /\ s \in Running /\ run[s] \in RunRecord
    BY DEF ConnInv, ConnTypes, Running
<1>2. run[s].id \in Nat /\ conn.id \in Nat /\ run[s].id <= conn.id
    BY <1>1 DEF ConnTypes, RunRecord, ConnRecord
<1>3. /\ clock \in Nat /\ conn \in ConnRecord /\ conn.last \in Int /\ conn.last <= clock
      /\ past \in PastRecord /\ past.slips + 1 \in Nat
    BY <1>1 DEF ConnTypes, ConnRecord, PastRecord
<1>4. past.why \cap {"crash", "overlap"} = {} => Still(s)
    BY <1>1 DEF ConnInv, NeverStuck, Alone
<1>5. past.why = {} /\ run[s].pc \in {"look", "tie", "read", "write", "store"} => run[s].said = past.word
    BY <1>1 DEF ConnInv, WordKept
<1>. QED BY <1>1, <1>2, <1>3, <1>4, <1>5

\* A step that reads nothing of the provider and writes nothing to the books.
LEMMA QuietStepKeeps ==
    ASSUME ConnInv, NEW s \in Runs, Look(s) \/ Tie(s) \/ TieRefused(s) \/ Fails(s)
    PROVE  ConnInv'
<1> DEFINE q == run'[s]
<1>1. run[s].pc \in {"ask", "look", "tie", "read", "write", "store"}
    BY DEF Look, Tie, TieRefused, Fails
<1>2. s \in Running /\ run[s] \in RunRecord /\ ConnTypes
    BY <1>1, AtStep
<1>3. /\ q \in RunRecord /\ run' = [run EXCEPT ![s] = q]
      /\ q.id = run[s].id /\ q.status = run[s].status /\ q.last = run[s].last /\ q.said = run[s].said
      /\ q.pc \in {"tie", "read", "failed"}
      /\ q.pc \in {"tie", "read"} => run[s].pc \in {"look", "tie"}
    <2>1. CASE Look(s)
        <3> DEFINE p == [run[s] EXCEPT !.pc = "tie", !.saw = link]
        <3>1. run' = [run EXCEPT ![s] = p] /\ link \in {NoAccount, 1, 2} /\ run[s].pc = "look"
            BY <1>2, <2>1 DEF Look, ConnTypes
        <3>2. /\ p \in RunRecord /\ p.pc = "tie"
              /\ p.id = run[s].id /\ p.status = run[s].status /\ p.last = run[s].last /\ p.said = run[s].said
            BY <1>2, <3>1 DEF RunRecord, Steps
        <3>3. q = p
            BY <1>2, <3>1 DEF ConnTypes
        <3>. QED BY <3>1, <3>2, <3>3
    <2>2. CASE Tie(s) \/ TieRefused(s) \/ Fails(s)
        <3>1. PICK pc \in {"read", "failed"} : Turn(s, pc) /\ (pc = "read" => run[s].pc = "tie")
            BY <2>2 DEF Tie, TieRefused, Fails
        <3> DEFINE p == [run[s] EXCEPT !.pc = pc]
        <3>2. run' = [run EXCEPT ![s] = p] /\ p \in RunRecord
            BY <1>2, <3>1, RunTurned DEF Steps
        <3>3. /\ p.pc = pc
              /\ p.id = run[s].id /\ p.status = run[s].status /\ p.last = run[s].last /\ p.said = run[s].said
            BY <1>2 DEF RunRecord
        <3>4. q = p
            BY <1>2, <3>2 DEF ConnTypes
        <3>. QED BY <3>1, <3>2, <3>3, <3>4
    <2>. QED BY <2>1, <2>2
<1>4. /\ UNCHANGED <<clock, conn, bank, dated, books>> /\ link' \in {NoAccount, 1, 2} /\ past' \in PastRecord
      /\ past'.why = past.why /\ past'.early = past.early /\ past'.word = past.word
    <2>1. CASE Look(s) \/ TieRefused(s)
        BY <1>2, <2>1 DEF Look, TieRefused, ConnTypes
    <2>2. CASE Tie(s)
        <3>1. run[s].wants \in {NoAccount, 1} /\ run[s].saw \in {NoAccount, 1, 2}
            BY <1>2 DEF RunRecord
        <3>. QED BY <1>2, <2>2, <3>1 DEF Tie, Tied, ConnTypes
    <2>3. CASE Fails(s)
        BY <1>1, <1>2, <2>3, AtStep DEF Fails, Slip, ConnTypes, PastRecord
    <2>. QED BY <2>1, <2>2, <2>3
<1> HIDE DEF q
<1>5. ConnTypes'
    BY <1>1, <1>2, <1>3, <1>4, AtStep, TypesOfStep DEF ConnTypes
<1>6. past.why = {} /\ q.pc \in {"look", "tie", "read", "write", "store"} => q.said = past'.word
    BY <1>1, <1>3, <1>4, AtStep
<1>. QED BY <1>2, <1>3, <1>4, <1>5, <1>6, SyncGoesOn

LEMMA AskKeeps ==
    ASSUME ConnInv, NEW s \in Runs, AskOpen(s) \/ AskRefused(s)
    PROVE  ConnInv'
<1>1. run[s].pc = "ask"
    BY DEF AskOpen, AskRefused
<1>2. s \in Running /\ run[s] \in RunRecord /\ ConnTypes /\ past \in PastRecord /\ conn.last <= clock
    BY <1>1, AtStep
<1>3. CASE AskOpen(s)
    <2> DEFINE q == [run[s] EXCEPT !.pc = "look", !.said = bank.status]
    <2>1. /\ q \in RunRecord /\ run' = [run EXCEPT ![s] = q]
          /\ q.id = run[s].id /\ q.status = run[s].status /\ q.last = run[s].last
          /\ q.pc = "look" /\ q.said = bank.status
        BY <1>2, <1>3 DEF AskOpen, ConnTypes, RunRecord, Steps
    <2>2. /\ past' \in PastRecord /\ past'.why = past.why /\ past'.early = past.early
          /\ past'.word = bank.status
        BY <1>2, <1>3 DEF AskOpen, ConnTypes, PastRecord, Statuses
    <2>3. /\ UNCHANGED <<clock, conn, bank, dated, books, link>> /\ conn' \in ConnRecord
          /\ books' \subseteq Movements /\ link' \in {NoAccount, 1, 2}
        BY <1>2, <1>3 DEF AskOpen, ConnTypes
    <2> HIDE DEF q
    <2>4. ConnTypes'
        BY <1>1, <1>2, <2>1, <2>2, <2>3, AtStep, TypesOfStep
    <2>. QED BY <1>2, <2>1, <2>2, <2>3, <2>4, SyncGoesOn
<1>4. CASE AskRefused(s)
    <2>1. /\ conn' \in ConnRecord
          /\ conn'.there = conn.there /\ conn'.id = conn.id /\ conn'.last = conn.last
          /\ Still(s) => conn'.status = "LOGIN_ERROR"
        BY <1>2, <1>4, Stored DEF AskRefused, WordOfRefusal, Statuses
    <2>2. /\ past' \in PastRecord /\ past'.why = past.why /\ past'.early = past.early
          /\ past'.word = "LOGIN_ERROR"
        BY <1>2, <1>4 DEF AskRefused, PastRecord, Statuses
    <2>3. UNCHANGED <<clock, bank, dated, books, link>> /\ run' = [run EXCEPT ![s] = IdleRun]
        BY <1>4 DEF AskRefused
    <2>4. ConnTypes'
        BY <1>1, <1>2, <2>1, <2>2, <2>3, TypesOfStep, IdleRunFits DEF ConnTypes
    <2>5. past.why \cap {"crash", "overlap"} = {} => Still(s)
        BY <1>1, AtStep
    <2>6. conn'.last >= conn.last
        BY <1>1, <2>1, AtStep
    <2>7. past'.why = {} => past.why \cap {"crash", "overlap"} = {}
        BY <2>2
    <2>. QED BY <1>2, <2>1, <2>2, <2>3, <2>4, <2>5, <2>6, <2>7, SyncEnds
<1>. QED BY <1>3, <1>4

\* A sync that reads has in hand, or shown too late, all that the books lack:
\* what lies before its first hour lies before the connection's.
LEMMA ReadKeeps ==
    ASSUME ConnInv, NEW s \in Runs, Read(s)
    PROVE  ConnInv'
<1> DEFINE q == [run[s] EXCEPT !.pc = "write", !.found = {e \in Shown \ books : dated[e] >= RangeStart(run[s].last)}]
<1>1. s \in Running /\ run[s] \in RunRecord /\ ConnTypes /\ run[s].pc = "read"
    BY AtStep DEF Read
<1>2. {e \in Shown \ books : dated[e] >= RangeStart(run[s].last)} \in SUBSET Movements
    BY DEF Shown
<1>3. /\ q \in RunRecord /\ run' = [run EXCEPT ![s] = q]
      /\ q.id = run[s].id /\ q.status = run[s].status /\ q.last = run[s].last /\ q.said = run[s].said
      /\ q.pc = "write" /\ q.found = {e \in Shown \ books : dated[e] >= RangeStart(run[s].last)}
    BY <1>1, <1>2 DEF Read, RunRecord, Steps, ConnTypes
<1>4. UNCHANGED <<clock, conn, bank, dated, books, link, past>>
    BY DEF Read
<1>5. ASSUME Still(s), NEW e \in Shown \ books
      PROVE  e \in q.found \cup past.early
    <2>1. /\ dated[e] \in Int /\ run[s].last \in Int /\ conn.last \in Int
          /\ run[s].last <= conn.last /\ conn.there
        BY <1>1, <1>5 DEF ConnInv, ReadOn, ConnTypes, ConnRecord, RunRecord, Shown, Still
    <2>2. CASE dated[e] >= run[s].last
        BY <1>3, <1>5, <2>2 DEF RangeStart
    <2>3. CASE dated[e] < run[s].last
        <3>1. dated[e] < conn.last
            BY <2>1, <2>3
        <3>. QED BY <1>5, <2>1, <3>1 DEF ConnInv, NothingLeftBetween
    <2>. QED BY <2>1, <2>2, <2>3
<1> HIDE DEF q
<1>6. ConnTypes'
    BY <1>1, <1>3, <1>4, AtStep, TypesOfStep DEF ConnTypes
<1>7. past.why = {} => q.said = past.word
    BY <1>1, <1>3, AtStep
<1>. QED BY <1>1, <1>3, <1>4, <1>5, <1>6, <1>7, SyncGoesOn

LEMMA ImportKeeps ==
    ASSUME ConnInv, NEW s \in Runs, Import(s)
    PROVE  ConnInv'
<1>1. s \in Running /\ run[s] \in RunRecord /\ ConnTypes /\ run[s].pc = "write"
    BY AtStep DEF Import
<1>2. PICK pc \in {"store", "failed"} :
          /\ Turn(s, pc)
          /\ pc = "store" => books' = books \cup run[s].found
          /\ pc = "failed" => books' = books
    BY DEF Import
<1> DEFINE q == [run[s] EXCEPT !.pc = pc]
<1>3. q \in RunRecord /\ run' = [run EXCEPT ![s] = q]
    BY <1>1, <1>2, RunTurned DEF Steps
<1>4. /\ q.id = run[s].id /\ q.status = run[s].status /\ q.last = run[s].last /\ q.said = run[s].said
      /\ q.pc = pc
    BY <1>1 DEF RunRecord
<1>5. books \subseteq books' /\ books' \subseteq Movements /\ UNCHANGED <<clock, conn, bank, dated, link, past>>
    BY <1>1, <1>2 DEF Import, ConnTypes, RunRecord
<1>6. Still(s) /\ pc = "store" => Shown \ books' \subseteq past.early
    BY <1>1, <1>2 DEF ConnInv, ReadOn
<1> HIDE DEF q
<1>7. ConnTypes'
    BY <1>1, <1>3, <1>4, <1>5, AtStep, TypesOfStep DEF ConnTypes
<1>8. past.why = {} => q.said = past.word
    BY <1>1, <1>4, AtStep
<1>. QED BY <1>1, <1>2, <1>3, <1>4, <1>5, <1>6, <1>7, <1>8, SyncGoesOn

LEMMA PutBackKeeps ==
    ASSUME ConnInv, NEW s \in Runs, PutBack(s)
    PROVE  ConnInv'
<1>1. /\ s \in Running /\ run[s] \in RunRecord /\ ConnTypes /\ past \in PastRecord
      /\ conn.last \in Int /\ conn.last <= clock
      /\ past.why \cap {"crash", "overlap"} = {} => Still(s)
    BY AtStep DEF PutBack
<1>2. /\ conn' \in ConnRecord
      /\ conn'.there = conn.there /\ conn'.id = conn.id /\ conn'.last = conn.last
      /\ Still(s) => conn'.status = run[s].status
    BY <1>1, Stored DEF PutBack, RunRecord
<1>3. past.why \cup {"failed"} \in SUBSET {"crash", "overlap", "failed"}
    BY <1>1 DEF PastRecord
<1>4. past' \in PastRecord /\ past'.why = past.why \cup {"failed"} /\ past'.early = past.early
    BY <1>1, <1>3 DEF PutBack, PastRecord
<1>5. UNCHANGED <<clock, bank, dated, books, link>> /\ run' = [run EXCEPT ![s] = IdleRun]
    BY DEF PutBack
<1>6. ConnTypes'
    BY <1>1, <1>2, <1>4, <1>5, TypesOfStep, IdleRunFits DEF ConnTypes
<1>7. past'.why \cap {"crash", "overlap"} = {} => conn'.status # "UPDATING"
    <2>1. past'.why \cap {"crash", "overlap"} = {} => past.why \cap {"crash", "overlap"} = {}
        BY <1>4
    <2>2. past.why \cap {"crash", "overlap"} = {} => run[s].status # "UPDATING"
        BY <1>1 DEF ConnInv, NeverStuck
    <2>. QED BY <1>1, <1>2, <2>1, <2>2
<1>8. past'.why # {} /\ past.why \subseteq past'.why /\ conn'.last >= conn.last
    BY <1>1, <1>2, <1>4
<1>. QED BY <1>1, <1>2, <1>4, <1>5, <1>6, <1>7, <1>8, SyncEnds

LEMMA StoreKeeps ==
    ASSUME ConnInv, NEW s \in Runs, Store(s)
    PROVE  ConnInv'
<1>1. /\ s \in Running /\ run[s] \in RunRecord /\ ConnTypes /\ run[s].pc = "store"
      /\ conn \in ConnRecord /\ conn.last \in Int /\ conn.last <= clock /\ clock \in Int
      /\ past.why \cap {"crash", "overlap"} = {} => Still(s)
      /\ past.why = {} => run[s].said = past.word
    BY AtStep DEF Store
<1>2. run[s].said \in Words
    BY <1>1 DEF RunRecord
<1>3. /\ conn' \in ConnRecord /\ conn'.there = conn.there /\ conn'.id = conn.id
      /\ Still(s) => conn'.status = run[s].said /\ conn'.last = clock
      /\ ~Still(s) => conn' = conn
    BY <1>1, <1>2 DEF Store, ConnRecord, Statuses
<1>4. UNCHANGED <<clock, bank, dated, books, link, past>> /\ run' = [run EXCEPT ![s] = IdleRun]
    BY DEF Store
<1>5. conn'.last <= clock /\ conn'.last >= conn.last
    BY <1>1, <1>3
<1>6. ConnTypes'
    BY <1>1, <1>3, <1>4, <1>5, TypesOfStep, IdleRunFits DEF ConnTypes
<1>7. past.why \cap {"crash", "overlap"} = {} => conn'.status # "UPDATING"
    BY <1>1, <1>2, <1>3 DEF Words
<1>8. past.why = {} => conn'.status = past.word
    BY <1>1, <1>3
<1>9. conn'.last # conn.last => Shown \ books \subseteq past.early
    BY <1>1, <1>3 DEF ConnInv, ReadOn
<1>. QED BY <1>1, <1>3, <1>4, <1>5, <1>6, <1>7, <1>8, <1>9, SyncEnds

\* A connection registered anew is none of the syncs' that still run.
LEMMA RegisterKeeps ==
    ASSUME ConnInv, NEW last \in {NoHour} \cup 0..clock, Register(last)
    PROVE  ConnInv'
<1>1. /\ ConnTypes /\ clock \in Nat /\ conn.id \in Nat /\ last \in Int /\ last <= clock
      /\ bank.status \in Words /\ past \in PastRecord
    BY DEF ConnInv, ConnTypes, ConnRecord, NoHour
<1>2. /\ conn' = [there |-> TRUE, id |-> conn.id + 1, status |-> bank.status, last |-> last]
      /\ UNCHANGED <<clock, bank, dated, books, link, run>>
    BY DEF Register
<1>3. /\ past'.word = bank.status /\ past'.why = Overlapping
      /\ past'.early = {e \in Shown \ books : dated[e] < last}
    BY <1>1 DEF Register, PastRecord
<1>4. Running' = Running /\ Shown' = Shown /\ bank.status # "UPDATING"
    BY <1>1, <1>2 DEF Running, Shown, Words
<1>5. \A s \in Running : ~Still(s)'
    BY <1>1, <1>2 DEF ConnTypes, Still, RunRecord, Running
<1>6. ConnTypes'
    <2>1. Overlapping \in SUBSET {"crash", "overlap", "failed"}
        BY DEF Overlapping
    <2>2. {e \in Shown \ books : dated[e] < last} \in SUBSET Movements
        BY DEF Shown
    <2>3. past' \in PastRecord
        BY <1>1, <2>1, <2>2 DEF Register, PastRecord, Statuses
    <2>4. conn' \in ConnRecord /\ conn'.last <= clock
        BY <1>1, <1>2 DEF ConnRecord, Statuses
    <2>5. \A s \in Running : run[s].id <= conn.id + 1
        BY <1>1 DEF ConnTypes, RunRecord, Running
    <2>. QED BY <1>1, <1>2, <1>4, <2>3, <2>4, <2>5 DEF ConnTypes
<1>7. past'.why \cap {"crash", "overlap"} = {} => Running = {}
    BY <1>3 DEF Overlapping
<1>8. NeverStuck' /\ WordKept'
    BY <1>2, <1>3, <1>4, <1>7 DEF NeverStuck, WordKept, Alone
<1>9. NothingLeftBetween'
    BY <1>2, <1>3, <1>4 DEF NothingLeftBetween
<1>10. ReadOn'
    BY <1>4, <1>5 DEF ReadOn
<1>. QED BY <1>6, <1>8, <1>9, <1>10 DEF ConnInv

LEMMA RevokeKeeps ==
    ASSUME ConnInv, Revoke
    PROVE  ConnInv'
<1>1. ConnTypes /\ past \in PastRecord /\ conn \in ConnRecord
    BY DEF ConnInv, ConnTypes
<1>2. /\ UNCHANGED <<clock, dated, books, link, run>>
      /\ conn' \in ConnRecord /\ conn'.id = conn.id /\ conn'.last = conn.last
      /\ conn'.there => conn.there /\ conn'.status = "LOGIN_ERROR" /\ past'.word = "LOGIN_ERROR"
      /\ bank' \in [status : Words, open : BOOLEAN]
    <2>1. CASE bank.open
        <3>1. conn' = [conn EXCEPT !.there = FALSE] /\ bank' = [bank EXCEPT !.status = "REVOKED"]
            BY <2>1 DEF Revoke
        <3>. QED BY <1>1, <3>1 DEF Revoke, ConnTypes, ConnRecord, Words
    <2>2. CASE ~bank.open
        <3>1. conn' = [conn EXCEPT !.status = "LOGIN_ERROR"] /\ bank' = bank
            BY <2>2 DEF Revoke
        <3>2. past'.word = "LOGIN_ERROR"
            BY <1>1, <2>2 DEF Revoke, PastRecord
        <3>. QED BY <1>1, <3>1, <3>2 DEF Revoke, ConnTypes, ConnRecord, Statuses
    <2>. QED BY <2>1, <2>2
<1>3. /\ past'.why = past.why \cup Overlapping /\ past'.early = past.early
      /\ past' \in PastRecord
    <2>1. past.why \cup Overlapping \in SUBSET {"crash", "overlap", "failed"} /\ past.slips + 1 \in Nat
        BY <1>1 DEF Overlapping, PastRecord
    <2>2. (IF bank.open THEN "REVOKED" ELSE "LOGIN_ERROR") \in Statuses
        BY DEF Statuses, Words
    <2>. QED BY <1>1, <2>1, <2>2 DEF Revoke, PastRecord
<1>4. Running' = Running /\ Shown' = Shown /\ \A s \in Running : Still(s)' => Still(s)
    BY <1>2 DEF Running, Shown, Still
<1>5. ConnTypes'
    BY <1>1, <1>2, <1>3, <1>4 DEF ConnTypes
<1>6. past'.why \cap {"crash", "overlap"} = {} => Running = {}
    BY <1>3 DEF Overlapping
<1>7. NeverStuck' /\ WordKept'
    BY <1>2, <1>4, <1>6 DEF NeverStuck, WordKept, Alone
<1>8. NothingLeftBetween'
    BY <1>2, <1>3, <1>4 DEF ConnInv, NothingLeftBetween
<1>9. ReadOn'
    BY <1>2, <1>3, <1>4 DEF ConnInv, ReadOn
<1>. QED BY <1>5, <1>7, <1>8, <1>9 DEF ConnInv

LEMMA CrashKeeps ==
    ASSUME ConnInv, Crash
    PROVE  ConnInv'
<1>1. ConnTypes /\ past \in PastRecord
    BY DEF ConnInv, ConnTypes
<1>2. /\ UNCHANGED <<clock, conn, bank, dated, books, link>>
      /\ run' = [s \in Runs |-> IdleRun]
    BY DEF Crash
<1>3. past' \in PastRecord /\ "crash" \in past'.why /\ past'.early = past.early
    <2>1. past.why \cup {"crash"} \in SUBSET {"crash", "overlap", "failed"} /\ past.slips + 1 \in Nat
        BY <1>1 DEF PastRecord
    <2>. QED BY <1>1, <2>1 DEF Crash, Slipping, PastRecord
<1>4. Running' = {} /\ Shown' = Shown /\ run' \in [Runs -> RunRecord]
    BY <1>2, IdleRunFits DEF Running, Shown
<1>5. ConnTypes'
    BY <1>1, <1>2, <1>3, <1>4 DEF ConnTypes
<1>6. NeverStuck' /\ WordKept' /\ ReadOn'
    BY <1>3, <1>4 DEF NeverStuck, WordKept, ReadOn
<1>7. NothingLeftBetween'
    BY <1>2, <1>3, <1>4 DEF ConnInv, NothingLeftBetween
<1>. QED BY <1>5, <1>6, <1>7 DEF ConnInv

\* What the provider shows while a sync has its answer in hand is late for it.
LEMMA ShowKeeps ==
    ASSUME ConnInv, NEW e \in Movements, NEW hour \in 0..clock, Show(e, hour)
    PROVE  ConnInv'
<1>1. ConnTypes /\ past \in PastRecord /\ hour \in Int /\ hour # NoHour
    BY DEF ConnInv, ConnTypes, NoHour
<1>2. UNCHANGED <<clock, conn, bank, books, link, run>> /\ dated' = [dated EXCEPT ![e] = hour]
    BY DEF Show
<1>3. /\ past' \in PastRecord /\ past'.why = past.why /\ past'.word = past.word
      /\ past.early \subseteq past'.early
      /\ hour < conn.last \/ (\E s \in Runs : run[s].pc \in {"write", "store"}) => e \in past'.early
    <2>1. past.early \cup {e} \in SUBSET Movements
        BY <1>1 DEF PastRecord
    <2>. QED BY <1>1, <2>1 DEF Show, PastRecord
<1>4. /\ Running' = Running /\ Shown' = Shown \cup {e} /\ \A s \in Running : Still(s)' = Still(s)
      /\ \A d \in Shown : d # e => dated'[d] = dated[d]
      /\ dated'[e] = hour /\ dated' \in [Movements -> Int]
    BY <1>1, <1>2 DEF Running, Shown, Still, ConnTypes
<1>5. ConnTypes'
    BY <1>1, <1>2, <1>3, <1>4 DEF ConnTypes
<1>6. NeverStuck' /\ WordKept'
    BY <1>2, <1>3, <1>4 DEF ConnInv, NeverStuck, WordKept, Alone
<1>7. NothingLeftBetween'
    BY <1>2, <1>3, <1>4 DEF ConnInv, NothingLeftBetween
<1>8. ReadOn'
    <2>1. ASSUME NEW s \in Running, run[s].pc \in {"write", "store"}
          PROVE  e \in past'.early
        BY <1>3, <2>1 DEF Running
    <2>. QED BY <1>2, <1>3, <1>4, <2>1 DEF ConnInv, ReadOn
<1>. QED BY <1>5, <1>6, <1>7, <1>8 DEF ConnInv

LEMMA TurnsKeep ==
    ASSUME ConnInv, BankTurns \/ Hour \/ UNCHANGED connVars
    PROVE  ConnInv'
<1>1. ConnTypes /\ past \in PastRecord
    BY DEF ConnInv, ConnTypes
<1>2. /\ UNCHANGED <<conn, dated, books, link, run>>
      /\ past'.why = past.why /\ past'.early = past.early /\ past'.word = past.word /\ past' \in PastRecord
      /\ bank' \in [status : Words, open : BOOLEAN]
      /\ clock' \in Nat /\ clock <= clock'
    <2>1. CASE BankTurns
        <3>1. past' = [past EXCEPT !.slips = past.slips + 1] /\ past.slips + 1 \in Nat
            BY <1>1, <2>1 DEF BankTurns, Slip, PastRecord
        <3>2. \/ bank' = [bank EXCEPT !.open = ~bank.open]
              \/ \E status \in Words : bank' = [bank EXCEPT !.status = status]
            BY <2>1 DEF BankTurns, Words
        <3>3. bank' \in [status : Words, open : BOOLEAN]
            BY <1>1, <3>2 DEF ConnTypes
        <3>. QED BY <1>1, <2>1, <3>1, <3>3 DEF BankTurns, ConnTypes, PastRecord
    <2>2. CASE Hour \/ UNCHANGED connVars
        BY <1>1, <2>2 DEF Hour, connVars, ConnTypes
    <2>. QED BY <2>1, <2>2
<1>3. Running' = Running /\ Shown' = Shown /\ \A s \in Running : Still(s)' = Still(s)
    BY <1>2 DEF Running, Shown, Still
<1>4. ConnTypes'
    BY <1>1, <1>2, <1>3 DEF ConnTypes, ConnRecord
<1>5. NeverStuck' /\ WordKept' /\ NothingLeftBetween'
    BY <1>2, <1>3 DEF ConnInv, NeverStuck, WordKept, Alone, NothingLeftBetween
<1>6. ReadOn'
    BY <1>2, <1>3 DEF ConnInv, ReadOn
<1>. QED BY <1>4, <1>5, <1>6 DEF ConnInv

\* The specification of a connection keeps the invariant.
THEOREM ConnectionInvariant == ConnectionsSpec => []ConnInv
<1>1. ConnectionsInit => ConnInv
    <2>1. SUFFICES ASSUME ConnectionsInit
                   PROVE  ConnInv
        OBVIOUS
    <2>2. Running = {} /\ Shown = {} /\ run \in [Runs -> RunRecord] /\ conn.there = FALSE
        BY <2>1, IdleRunFits DEF ConnectionsInit, Running, Shown, NoConn
    <2>3. ConnTypes
        BY <2>1, <2>2 DEF ConnectionsInit, ConnTypes, ConnRecord, PastRecord, NoConn, NoHour, NoAccount, Words, Statuses
    <2>. QED BY <2>2, <2>3 DEF ConnInv, NeverStuck, WordKept, NothingLeftBetween, ReadOn, Alone
<1>2. ConnInv /\ [ConnectionsNext \/ ConnectionsIdle]_connVars => ConnInv'
    <2>1. SUFFICES ASSUME ConnInv, ConnectionsNext \/ UNCHANGED connVars
                   PROVE  ConnInv'
        BY DEF ConnectionsIdle
    <2>2. ASSUME NEW s \in Runs, RunStep(s)
          PROVE  ConnInv'
        BY <2>1, <2>2, FindKeeps, MarkKeeps, AskKeeps, QuietStepKeeps, ReadKeeps, ImportKeeps, PutBackKeeps,
           StoreKeeps DEF RunStep
    <2>3. ASSUME NEW last \in {NoHour} \cup 0..clock, Register(last)
          PROVE  ConnInv'
        BY <2>1, <2>3, RegisterKeeps
    <2>4. ASSUME NEW e \in Movements, NEW hour \in 0..clock, Show(e, hour)
          PROVE  ConnInv'
        BY <2>1, <2>4, ShowKeeps
    <2>5. CASE Revoke
        BY <2>1, <2>5, RevokeKeeps
    <2>6. CASE Crash
        BY <2>1, <2>6, CrashKeeps
    <2>7. CASE BankTurns \/ Hour \/ UNCHANGED connVars
        BY <2>1, <2>7, TurnsKeep
    <2>. QED BY <2>1, <2>2, <2>3, <2>4, <2>5, <2>6, <2>7 DEF ConnectionsNext
<1>. QED BY <1>1, <1>2, PTL DEF ConnectionsSpec

\* Between two syncs a connection shows what the provider last said of it, leaves
\* UPDATING and passes no movement over, but for what a failure, a crash, an
\* overlap or a late movement excuses (ConnectionKeepsItsWord, Connections.tla).
THEOREM WordOfTheConnection == ConnectionsSpec => []ConnectionKeepsItsWord
<1>1. ConnInv => ConnectionKeepsItsWord
    BY DEF ConnInv, ConnectionKeepsItsWord, StatusToldTruly, UpdatingStaysOnlyByOverlap, NeverStuck, WordKept
<1>. QED BY <1>1, ConnectionInvariant, PTL

-----------------------------------------------------------------------------
(* OpenFinance: every movement that lies before the next sync's first day is *)
(* known, or there is an excuse.                                             *)

SyncFields == {"pc", "attempt", "id", "last", "items", "links", "did", "found", "todo", "fresh"}

CredFields == {"saved", "id", "items", "last"}

SeenFields == {"moves", "rows", "recorded", "forgotten", "late", "passed", "torn"}

RowFields == {"id", "type", "accountId", "fromAccountId", "toAccountId", "amount", "day", "ext", "by",
              "edited", "stale"}

SyncFits(q) ==
    /\ DOMAIN q = SyncFields
    /\ q.last \in Int /\ q.found \subseteq Exts /\ \A d \in q.todo : d.ext \in Exts

OpenFinanceTypes ==
    /\ today \in Nat /\ appeared \subseteq Exts /\ key \in [Exts -> Nat]
    /\ DOMAIN cred = CredFields /\ cred.last \in Int /\ cred.last <= today
    /\ sync = [s \in Syncs |-> sync[s]]
    /\ \A s \in Syncs : SyncFits(sync[s]) /\ sync[s].last <= today
    /\ DOMAIN seen = SeenFields /\ seen.rows \in Nat

\* An entry's own externalId is a key of it; no two entries share an id.
RowsKeyed ==
    /\ \A r \in rows : /\ DOMAIN r = RowFields /\ r.id \in 1..seen.rows
                       /\ r.ext # None => r.ext \in Exts /\ key[r.ext] = r.id
    /\ \A r, t \in rows : r.id = t.id => r = t

Excused(e) ==
    key[e] # None \/ e \in seen.late \cup seen.forgotten \/ Remote[e].account \in seen.passed

\* Shown today, e would be late.
Old(e) == Remote[e].day < today - Overlap

PassedKnown ==
    cred.last # Never => \A e \in appeared : Remote[e].day < RangeFrom(cred.last) => Excused(e)

\* What sync s has to bring in of the account a, or has brought in.
Brings(s, a, e) ==
    Remote[e].account = a /\ Remote[e].day >= RangeFrom(sync[s].last) /\ Old(e)

\* What lies before a sync's first day is excused, and so is, for each account it
\* is through with, all that lies before the next sync's; of the account at hand,
\* what it has found, then what it has to do.
Ahead(s) ==
    sync[s].pc # "idle" =>
        /\ sync[s].last # Never =>
              \A e \in appeared : Remote[e].day < RangeFrom(sync[s].last) => Excused(e)
        /\ sync[s].pc # "reading" =>
              \A a \in sync[s].did \ sync[s].links : \A e \in appeared : Brings(s, a, e) => Excused(e)
        /\ sync[s].pc = "decide" =>
              \A e \in appeared : Brings(s, Link(s), e) => Excused(e) \/ e \in sync[s].found
        /\ sync[s].pc = "write" =>
              \A e \in appeared : Brings(s, Link(s), e) => Excused(e) \/ \E d \in sync[s].todo : d.ext = e

LeftInv == OpenFinanceTypes /\ RowsKeyed /\ PassedKnown /\ \A s \in Syncs : Ahead(s)

LEMMA RemoteFits == \A e \in Exts : Remote[e].account \in Accounts /\ Remote[e].day \in Nat /\ e # None
BY OpenFinanceAssumption

LEMMA IdleSyncFits == SyncFits(IdleSync) /\ IdleSync.pc = "idle" /\ IdleSync.last = Never
BY DEF SyncFits, SyncFields, IdleSync, Never

\* An excuse lasts unless a key is lost.
LEMMA ExcusesLast ==
    ASSUME NEW e, key[e] # None => key'[e] # None \/ e \in seen'.forgotten,
           seen.late \subseteq seen'.late, seen.forgotten \subseteq seen'.forgotten,
           seen.passed \subseteq seen'.passed, Excused(e)
    PROVE  Excused(e)'
BY DEF Excused

\* What a step of somebody else leaves to sync s.
LEMMA AheadLasts ==
    ASSUME OpenFinanceTypes, NEW s \in Syncs, Ahead(s), today' = today,
           sync'[s].pc = sync[s].pc, sync'[s].last = sync[s].last, sync'[s].links = sync[s].links,
           sync'[s].did = sync[s].did, sync'[s].found = sync[s].found, sync'[s].todo = sync[s].todo,
           \A e \in appeared : Excused(e) => Excused(e)',
           appeared' \subseteq Exts, \A e \in appeared' \ appeared : Old(e) => Excused(e)'
    PROVE  Ahead(s)'
<1>1. /\ Link(s)' = Link(s) /\ RangeFrom(sync[s].last)' = RangeFrom(sync[s].last)
      /\ \A e : Old(e)' <=> Old(e)
    <2>1. Link(s)' = Link(s)
        BY DEF Link
    <2>2. RangeFrom(sync[s].last)' = RangeFrom(sync[s].last)
        BY DEF RangeFrom
    <2>3. \A e : Old(e)' <=> Old(e)
        BY DEF Old
    <2>. QED BY <2>1, <2>2, <2>3
<1>2. \A a, e : Brings(s, a, e)' <=> Brings(s, a, e)
    BY <1>1 DEF Brings
<1>3. \A a : \A e \in appeared' \ appeared : Brings(s, a, e)' => Excused(e)'
    BY <1>1 DEF Brings
<1>4. ASSUME sync[s].last # Never, NEW e \in appeared' \ appeared, Remote[e].day < RangeFrom(sync[s].last)
      PROVE  Excused(e)'
    <2>1. Remote[e].day \in Nat /\ sync[s].last \in Int /\ today \in Nat /\ sync[s].last <= today
        BY <1>4, RemoteFits DEF OpenFinanceTypes, SyncFits
    <2>2. Old(e)
        BY <1>4, <2>1 DEF Old, RangeFrom, Overlap
    <2>. QED BY <1>4, <2>2
<1>5. ASSUME sync'[s].pc # "idle"
      PROVE  /\ sync'[s].last # Never =>
                   \A e \in appeared' : Remote[e].day < RangeFrom(sync[s].last)' => Excused(e)'
             /\ sync'[s].pc # "reading" =>
                   \A a \in sync'[s].did \ sync'[s].links : \A e \in appeared' : Brings(s, a, e)' => Excused(e)'
             /\ sync'[s].pc = "decide" =>
                   \A e \in appeared' : Brings(s, Link(s), e)' => Excused(e)' \/ e \in sync'[s].found
             /\ sync'[s].pc = "write" =>
                   \A e \in appeared' : Brings(s, Link(s), e)' => Excused(e)' \/ \E d \in sync'[s].todo : d.ext = e
    <2>1. /\ sync[s].last # Never =>
                \A e \in appeared : Remote[e].day < RangeFrom(sync[s].last) => Excused(e)
          /\ sync[s].pc # "reading" =>
                \A a \in sync[s].did \ sync[s].links : \A e \in appeared : Brings(s, a, e) => Excused(e)
          /\ sync[s].pc = "decide" =>
                \A e \in appeared : Brings(s, Link(s), e) => Excused(e) \/ e \in sync[s].found
          /\ sync[s].pc = "write" =>
                \A e \in appeared : Brings(s, Link(s), e) => Excused(e) \/ \E d \in sync[s].todo : d.ext = e
        BY <1>5 DEF Ahead
    <2>2. sync'[s].last # Never =>
              \A e \in appeared' : Remote[e].day < RangeFrom(sync[s].last)' => Excused(e)'
        BY <1>1, <1>4, <2>1
    <2>3. sync'[s].pc # "reading" =>
              \A a \in sync'[s].did \ sync'[s].links : \A e \in appeared' : Brings(s, a, e)' => Excused(e)'
        BY <1>2, <1>3, <2>1
    <2>4. sync'[s].pc = "decide" =>
              \A e \in appeared' : Brings(s, Link(s), e)' => Excused(e)' \/ e \in sync'[s].found
        BY <1>1, <1>2, <1>3, <2>1
    <2>5. sync'[s].pc = "write" =>
              \A e \in appeared' : Brings(s, Link(s), e)' => Excused(e)' \/ \E d \in sync'[s].todo : d.ext = e
        BY <1>1, <1>2, <1>3, <2>1
    <2>. QED BY <2>2, <2>3, <2>4, <2>5
<1>. QED BY <1>5 DEF Ahead

\* What is excused stays so while the keys stay and the history grows.
SeenGrows ==
    /\ DOMAIN seen' = SeenFields /\ seen.late \subseteq seen'.late /\ seen.forgotten \subseteq seen'.forgotten
    /\ seen.passed \subseteq seen'.passed

LEMMA PassedLasts ==
    ASSUME OpenFinanceTypes, PassedKnown, cred'.last \in {Never, cred.last},
           \A e \in appeared : Excused(e) => Excused(e)',
           appeared' \subseteq Exts, today' = today, \A e \in appeared' \ appeared : Old(e) => Excused(e)'
    PROVE  PassedKnown'
<1>1. ASSUME cred'.last # Never, NEW e \in appeared', Remote[e].day < RangeFrom(cred.last)'
      PROVE  Excused(e)'
    <2>1. cred'.last = cred.last /\ RangeFrom(cred.last)' = cred.last - Overlap /\ RangeFrom(cred.last) = cred.last - Overlap
        BY <1>1 DEF RangeFrom
    <2>2. CASE e \in appeared
        BY <1>1, <2>1, <2>2 DEF PassedKnown
    <2>3. CASE e \notin appeared
        <3>1. Remote[e].day \in Nat /\ cred.last \in Int /\ today \in Nat /\ cred.last <= today
            BY RemoteFits DEF OpenFinanceTypes
        <3>2. Old(e)
            BY <1>1, <2>1, <3>1 DEF Old, Overlap
        <3>. QED BY <2>3, <3>2
    <2>. QED BY <2>2, <2>3
<1>. QED BY <1>1 DEF PassedKnown

\* A sync's step that leaves the books alone.
LEMMA SyncSteps ==
    ASSUME LeftInv, NEW s \in Syncs, NEW q, sync' = [sync EXCEPT ![s] = q], SyncFits(q), q.last <= today,
           UNCHANGED <<today, appeared, rows, key>>, SeenGrows, seen'.rows = seen.rows,
           DOMAIN cred' = CredFields, cred'.last \in Int, cred'.last <= today, PassedKnown',
           q.pc # "idle" => Ahead(s)'
    PROVE  LeftInv'
<1>1. /\ sync' = [t \in Syncs |-> sync'[t]] /\ sync'[s] = q
      /\ \A t \in Syncs : t # s => sync'[t] = sync[t]
    BY DEF LeftInv, OpenFinanceTypes
<1>2. \A e : Excused(e) => Excused(e)'
    BY ExcusesLast DEF SeenGrows
<1>3. OpenFinanceTypes'
    <2>1. \A t \in Syncs : SyncFits(sync[t])' /\ (sync[t].last <= today)'
        BY <1>1 DEF LeftInv, OpenFinanceTypes, SyncFits
    <2>. QED BY <1>1, <2>1 DEF LeftInv, OpenFinanceTypes, SeenGrows
<1>4. RowsKeyed'
    BY DEF LeftInv, RowsKeyed
<1>5. ASSUME NEW t \in Syncs
      PROVE  Ahead(t)'
    <2>1. CASE t = s
        BY <1>1, <2>1 DEF Ahead
    <2>2. CASE t # s
        BY <1>1, <1>2, <2>2, AheadLasts DEF LeftInv, OpenFinanceTypes
    <2>. QED BY <2>1, <2>2
<1>. QED BY <1>3, <1>4, <1>5 DEF LeftInv

LEMMA SyncStartKeeps ==
    ASSUME LeftInv, NEW s \in Syncs, NEW maps, SyncStart(s, maps)
    PROVE  LeftInv'
<1> DEFINE q == [IdleSync EXCEPT !.pc = "reading", !.id = cred.id, !.last = cred.last, !.items = cred.items]
<1>1. /\ sync' = [sync EXCEPT ![s] = q] /\ UNCHANGED <<today, cred, appeared, rows, key, seen>>
      /\ OpenFinanceTypes /\ PassedKnown
    BY DEF SyncStart, LeftInv
<1>2. SyncFits(q) /\ q.pc = "reading" /\ q.last = cred.last
    BY <1>1 DEF SyncFits, SyncFields, IdleSync, OpenFinanceTypes
<1>3. SeenGrows /\ PassedKnown'
    BY <1>1 DEF SeenGrows, SeenFields, OpenFinanceTypes, PassedKnown, Excused, RangeFrom
<1>4. sync'[s] = q
    BY <1>1 DEF OpenFinanceTypes
<1> HIDE DEF q
<1>5. Ahead(s)'
    BY <1>1, <1>2, <1>3, <1>4 DEF Ahead, PassedKnown
<1>. QED BY <1>1, <1>2, <1>3, <1>5, SyncSteps DEF OpenFinanceTypes

LEMMA ReadAccountsKeeps ==
    ASSUME LeftInv, NEW s \in Syncs, ReadAccounts(s)
    PROVE  LeftInv'
<1> DEFINE links == (sync[s].items \ refused) \cap mapped
           q == [sync[s] EXCEPT !.pc = "fetch", !.links = links, !.did = links]
<1>1. /\ sync' = [sync EXCEPT ![s] = q] /\ UNCHANGED <<today, cred, appeared, rows, key, seen>>
      /\ OpenFinanceTypes /\ PassedKnown /\ SyncFits(sync[s]) /\ sync[s].last <= today /\ sync[s].pc = "reading"
    BY DEF ReadAccounts, LeftInv, OpenFinanceTypes
<1>2. SyncFits(q) /\ q.pc = "fetch" /\ q.last = sync[s].last /\ q.did = q.links
    BY <1>1 DEF SyncFits, SyncFields
<1>3. SeenGrows /\ PassedKnown' /\ \A e : Excused(e)' <=> Excused(e)
    BY <1>1 DEF SeenGrows, SeenFields, OpenFinanceTypes, PassedKnown, Excused, RangeFrom
<1>4. sync'[s] = q
    BY <1>1 DEF OpenFinanceTypes
<1> HIDE DEF q
<1>5. Ahead(s)'
    BY <1>1, <1>2, <1>3, <1>4 DEF Ahead, LeftInv, RangeFrom
<1>. QED BY <1>1, <1>2, <1>3, <1>5, SyncSteps DEF OpenFinanceTypes

\* A sync that fails ends or starts again.
LEMMA FailuresKeep ==
    ASSUME LeftInv, NEW s \in Syncs, FetchFails(s) \/ SyncFails(s) \/ \E d \in Due(s) : WriteRefused(s, d)
    PROVE  LeftInv'
<1> DEFINE q == sync'[s]
<1>1. /\ OpenFinanceTypes /\ PassedKnown /\ SyncFits(sync[s]) /\ sync[s].last <= today
      /\ UNCHANGED <<today, cred, appeared, rows, key>>
    BY DEF FetchFails, SyncFails, WriteRefused, LeftInv, OpenFinanceTypes
<1>2. seen' = seen \/ seen' = [seen EXCEPT !.moves = @ + 1]
    BY DEF FetchFails, SyncFails, WriteRefused, Outside
<1>3. SeenGrows /\ seen'.rows = seen.rows /\ \A e : Excused(e)' <=> Excused(e)
    BY <1>1, <1>2 DEF SeenGrows, SeenFields, OpenFinanceTypes, Excused
<1>4. PassedKnown'
    BY <1>1, <1>3 DEF PassedKnown, RangeFrom
<1>5. CASE sync' = [sync EXCEPT ![s] = IdleSync]
    <2>1. IdleSync.last <= today
        BY <1>1, IdleSyncFits DEF OpenFinanceTypes, Never
    <2>. QED BY <1>1, <1>3, <1>4, <1>5, <2>1, IdleSyncFits, SyncSteps DEF OpenFinanceTypes
<1>6. CASE sync' # [sync EXCEPT ![s] = IdleSync]
    <2> DEFINE p == [sync[s] EXCEPT !.pc = "reading", !.attempt = @ + 1]
    <2>1. sync' = [sync EXCEPT ![s] = p] /\ sync[s].pc = "fetch"
        <3>1. FetchFails(s)
            BY <1>6 DEF SyncFails, WriteRefused
        <3>2. sync' = [sync EXCEPT ![s] = IF sync[s].attempt < Attempts THEN p ELSE IdleSync] /\ sync[s].pc = "fetch"
            BY <3>1 DEF FetchFails
        <3>3. CASE sync[s].attempt < Attempts
            BY <3>2, <3>3
        <3>4. CASE ~(sync[s].attempt < Attempts)
            BY <1>6, <3>2, <3>4
        <3>. QED BY <3>3, <3>4
    <2>2. SyncFits(p) /\ p.pc = "reading" /\ p.last = sync[s].last /\ sync'[s] = p
        BY <1>1, <2>1 DEF SyncFits, SyncFields, OpenFinanceTypes
    <2> HIDE DEF p
    <2>3. Ahead(s)'
        BY <1>1, <1>3, <2>1, <2>2 DEF Ahead, LeftInv, RangeFrom
    <2>. QED BY <1>1, <1>3, <1>4, <2>1, <2>2, <2>3, SyncSteps DEF OpenFinanceTypes
<1>. QED BY <1>5, <1>6

LEMMA NextLinkFits ==
    ASSUME NEW q, SyncFits(q)
    PROVE  /\ SyncFits(NextLink(q)) /\ NextLink(q).pc = "fetch" /\ NextLink(q).last = q.last
           /\ NextLink(q).did = q.did /\ NextLink(q).links = q.links \ {Min(q.links)}
BY DEF SyncFits, SyncFields, NextLink

\* A sync is through with the account at hand.
LEMMA LinkDone ==
    ASSUME NEW s \in Syncs, Ahead(s), sync[s].pc \in {"fetch", "write"}, SyncFits(sync[s]),
           sync'[s] = NextLink(sync[s]), UNCHANGED <<today, appeared>>,
           \A e \in appeared : Excused(e) => Excused(e)',
           \A e \in appeared : Brings(s, Link(s), e) => Excused(e)'
    PROVE  Ahead(s)'
<1>1. /\ sync'[s].pc = "fetch" /\ sync'[s].last = sync[s].last
      /\ sync'[s].did = sync[s].did /\ sync'[s].links = sync[s].links \ {Link(s)}
    BY NextLinkFits DEF Link
<1>2. \A a, e : Brings(s, a, e)' <=> Brings(s, a, e)
    BY <1>1 DEF Brings, RangeFrom, Old
<1>3. sync'[s].last # Never => \A e \in appeared' : Remote[e].day < RangeFrom(sync[s].last)' => Excused(e)'
    BY <1>1 DEF Ahead, RangeFrom
<1>4. \A a \in sync'[s].did \ sync'[s].links : \A e \in appeared' : Brings(s, a, e)' => Excused(e)'
    BY <1>1, <1>2 DEF Ahead
<1>. QED BY <1>1, <1>3, <1>4 DEF Ahead

LEMMA FetchKeeps ==
    ASSUME LeftInv, NEW s \in Syncs, Fetch(s)
    PROVE  LeftInv'
<1> DEFINE unknown == {e \in appeared : /\ Remote[e].account = Link(s) /\ ~Known(e)
                                        /\ Remote[e].day >= RangeFrom(sync[s].last)}
           p == [sync[s] EXCEPT !.pc = "decide", !.found = unknown]
<1>1. /\ OpenFinanceTypes /\ PassedKnown /\ SyncFits(sync[s]) /\ sync[s].last <= today
      /\ UNCHANGED <<today, cred, appeared, rows, key, seen>> /\ sync[s].pc = "fetch" /\ Ahead(s)
    BY DEF Fetch, LeftInv, OpenFinanceTypes
<1>2. sync' = [sync EXCEPT ![s] = IF unknown = {} THEN NextLink(sync[s]) ELSE p]
    BY DEF Fetch
<1>3. SeenGrows /\ PassedKnown' /\ \A e : Excused(e)' <=> Excused(e)
    BY <1>1 DEF SeenGrows, SeenFields, OpenFinanceTypes, PassedKnown, Excused, RangeFrom
<1>4. \A e \in appeared : Brings(s, Link(s), e) => e \in unknown \/ Excused(e)
    <2>1. ASSUME NEW e \in appeared, Known(e)
          PROVE  Excused(e)
        <3>1. CASE key[e] # None
            BY <3>1 DEF Excused
        <3>2. CASE \E r \in rows : r.ext = e
            <4>1. PICK r \in rows : r.ext = e
                BY <3>2
            <4>2. e # None /\ key[e] = r.id /\ r.id \in 1..seen.rows
                BY <1>1, <4>1, RemoteFits DEF LeftInv, RowsKeyed, OpenFinanceTypes
            <4>. QED BY <4>2 DEF Excused, None
        <3>. QED BY <2>1, <3>1, <3>2 DEF Known
    <2>. QED BY <2>1 DEF Brings
<1>5. unknown \subseteq Exts
    BY <1>1 DEF OpenFinanceTypes
<1> HIDE DEF unknown
<1>6. CASE unknown = {}
    <2>1. sync' = [sync EXCEPT ![s] = NextLink(sync[s])] /\ sync'[s] = NextLink(sync[s])
        BY <1>1, <1>2, <1>6 DEF OpenFinanceTypes
    <2>2. SyncFits(NextLink(sync[s])) /\ NextLink(sync[s]).last <= today
        BY <1>1, NextLinkFits
    <2>3. Ahead(s)'
        BY <1>1, <1>3, <1>4, <1>6, <2>1, LinkDone
    <2>. QED BY <1>1, <1>3, <2>1, <2>2, <2>3, SyncSteps DEF OpenFinanceTypes
<1>7. CASE unknown # {}
    <2>1. sync' = [sync EXCEPT ![s] = p] /\ sync'[s] = p
        BY <1>1, <1>2, <1>7 DEF OpenFinanceTypes
    <2>2. /\ SyncFits(p) /\ p.pc = "decide" /\ p.last = sync[s].last /\ p.links = sync[s].links
          /\ p.did = sync[s].did /\ p.found = unknown
        BY <1>1, <1>5 DEF SyncFits, SyncFields
    <2> HIDE DEF p
    <2>3. \A a, e : Brings(s, a, e)' <=> Brings(s, a, e)
        BY <1>1, <2>1, <2>2 DEF Brings, RangeFrom, Old
    <2>4. Link(s)' = Link(s)
        BY <2>1, <2>2 DEF Link
    <2>5. Ahead(s)'
        BY <1>1, <1>3, <1>4, <2>1, <2>2, <2>3, <2>4 DEF Ahead, RangeFrom
    <2>. QED BY <1>1, <1>3, <2>1, <2>2, <2>5, SyncSteps DEF OpenFinanceTypes
<1>. QED BY <1>6, <1>7

\* There is something to do for each movement that was found.
LEMMA DecideKeeps ==
    ASSUME LeftInv, NEW s \in Syncs, Decide(s)
    PROVE  LeftInv'
<1> DEFINE todo == {Deed(e, Decisions(s)[e]) : e \in sync[s].found}
           p == [sync[s] EXCEPT !.pc = "write", !.fresh = TRUE, !.todo = todo]
<1>1. /\ OpenFinanceTypes /\ PassedKnown /\ SyncFits(sync[s]) /\ sync[s].last <= today
      /\ UNCHANGED <<today, cred, appeared, rows, key>> /\ sync[s].pc = "decide" /\ Ahead(s)
    BY DEF Decide, LeftInv, OpenFinanceTypes
<1>2. \A e, decision : Deed(e, decision).ext = e
    BY DEF Deed
<1>3. sync' = [sync EXCEPT ![s] = p] /\ sync'[s] = p
    BY <1>1 DEF Decide, OpenFinanceTypes
<1>4. /\ SeenGrows /\ seen'.rows = seen.rows
      /\ PassedKnown' /\ \A e : Excused(e)' <=> Excused(e)
    <2>1. \E torn : seen' = [seen EXCEPT !.torn = torn]
        BY DEF Decide
    <2>2. SeenGrows /\ UNCHANGED <<seen.rows, seen.late, seen.forgotten, seen.passed>>
        BY <1>1, <2>1 DEF SeenGrows, SeenFields, OpenFinanceTypes
    <2>. QED BY <1>1, <2>2 DEF PassedKnown, Excused, RangeFrom
<1>5. \A d \in todo : d.ext \in Exts
    BY <1>1, <1>2 DEF SyncFits
<1>6. \A e \in sync[s].found : \E d \in todo : d.ext = e
    BY <1>2
<1> HIDE DEF todo
<1>7. /\ SyncFits(p) /\ p.pc = "write" /\ p.last = sync[s].last /\ p.links = sync[s].links
      /\ p.did = sync[s].did /\ p.todo = todo
    BY <1>1, <1>5 DEF SyncFits, SyncFields
<1> HIDE DEF p
<1>8. \A a, e : Brings(s, a, e)' <=> Brings(s, a, e)
    BY <1>1, <1>3, <1>7 DEF Brings, RangeFrom, Old
<1>9. Link(s)' = Link(s)
    BY <1>3, <1>7 DEF Link
<1>10. Ahead(s)'
    BY <1>1, <1>3, <1>4, <1>6, <1>7, <1>8, <1>9 DEF Ahead, RangeFrom
<1>. QED BY <1>1, <1>3, <1>4, <1>7, <1>10, SyncSteps DEF OpenFinanceTypes

\* The date moves past what the sync, or an excuse, accounts for.
LEMMA FinishKeeps ==
    ASSUME LeftInv, NEW s \in Syncs, Finish(s)
    PROVE  LeftInv'
<1>1. /\ OpenFinanceTypes /\ PassedKnown /\ SyncFits(sync[s]) /\ sync[s].last <= today
      /\ UNCHANGED <<today, appeared, rows, key>> /\ sync' = [sync EXCEPT ![s] = IdleSync]
      /\ sync[s].pc = "fetch" /\ sync[s].links = {} /\ Ahead(s)
    BY DEF Finish, LeftInv, OpenFinanceTypes
<1>2. IdleSync.last <= today
    BY <1>1, IdleSyncFits DEF OpenFinanceTypes, Never
<1>3. CASE UNCHANGED <<cred, seen>>
    <2>1. SeenGrows /\ PassedKnown'
        BY <1>1, <1>3 DEF SeenGrows, SeenFields, OpenFinanceTypes, PassedKnown, Excused, RangeFrom
    <2>. QED BY <1>1, <1>2, <1>3, <2>1, IdleSyncFits, SyncSteps DEF OpenFinanceTypes
<1>4. CASE ~UNCHANGED <<cred, seen>>
    <2>1. /\ cred' = [cred EXCEPT !.last = today]
          /\ seen' = [seen EXCEPT !.passed = @ \cup (Accounts \ sync[s].did), !.late = @ \cup BeforeTheYear(s)]
        BY <1>4 DEF Finish
    <2>2. DOMAIN cred' = CredFields /\ cred'.last = today
        BY <1>1, <2>1 DEF OpenFinanceTypes, CredFields
    <2>3. /\ SeenGrows /\ seen'.rows = seen.rows /\ BeforeTheYear(s) \subseteq seen'.late
          /\ Accounts \ sync[s].did \subseteq seen'.passed
        BY <1>1, <2>1 DEF OpenFinanceTypes, SeenGrows, SeenFields
    <2>4. \A e : Excused(e) => Excused(e)'
        BY <1>1, <2>3, ExcusesLast DEF SeenGrows
    <2>5. ASSUME NEW e \in appeared, Remote[e].day < today - Overlap
          PROVE  Excused(e)'
        <3>1. e \in Exts /\ Remote[e].account \in Accounts /\ Remote[e].day \in Nat /\ today \in Nat /\ sync[s].last \in Int
            BY <1>1, RemoteFits DEF OpenFinanceTypes, SyncFits
        <3>2. CASE Remote[e].account \notin sync[s].did
            BY <2>3, <3>1, <3>2 DEF Excused
        <3>3. CASE Remote[e].day < RangeFrom(sync[s].last)
            <4>1. CASE sync[s].last = Never
                <5>1. e \in BeforeTheYear(s)
                    BY <3>1, <3>3, <4>1 DEF BeforeTheYear, RangeFrom
                <5>. QED BY <2>3, <5>1 DEF Excused
            <4>2. CASE sync[s].last # Never
                BY <1>1, <2>4, <3>3, <4>2 DEF Ahead
            <4>. QED BY <4>1, <4>2
        <3>4. CASE Remote[e].account \in sync[s].did /\ ~(Remote[e].day < RangeFrom(sync[s].last))
            <4>1. RangeFrom(sync[s].last) \in Int
                BY <3>1 DEF RangeFrom, FirstLoad, Overlap
            <4>2. Brings(s, Remote[e].account, e)
                BY <2>5, <3>1, <3>4, <4>1 DEF Brings, Old
            <4>. QED BY <1>1, <2>4, <3>4, <4>2 DEF Ahead
        <3>. QED BY <3>2, <3>3, <3>4
    <2>6. PassedKnown'
        BY <1>1, <2>2, <2>5 DEF PassedKnown, RangeFrom
    <2>7. cred'.last \in Int /\ cred'.last <= today
        BY <1>1, <2>2 DEF OpenFinanceTypes
    <2>. QED BY <1>1, <1>2, <2>2, <2>3, <2>6, <2>7, IdleSyncFits, SyncSteps
<1>. QED BY <1>3, <1>4

LEMMA OutdatedFits ==
    ASSUME OpenFinanceTypes, NEW except
    PROVE  /\ Outdated(except) = [t \in Syncs |-> Outdated(except)[t]]
           /\ \A t \in Syncs : /\ SyncFits(Outdated(except)[t])
                               /\ Outdated(except)[t].pc = sync[t].pc
                               /\ Outdated(except)[t].last = sync[t].last
                               /\ Outdated(except)[t].links = sync[t].links
                               /\ Outdated(except)[t].did = sync[t].did
                               /\ Outdated(except)[t].found = sync[t].found
                               /\ Outdated(except)[t].todo = sync[t].todo
                               /\ t = except => Outdated(except)[t] = sync[t]
<1>1. ASSUME NEW q, SyncFits(q)
      PROVE  /\ SyncFits([q EXCEPT !.fresh = FALSE])
             /\ [q EXCEPT !.fresh = FALSE].pc = q.pc /\ [q EXCEPT !.fresh = FALSE].last = q.last
             /\ [q EXCEPT !.fresh = FALSE].links = q.links /\ [q EXCEPT !.fresh = FALSE].did = q.did
             /\ [q EXCEPT !.fresh = FALSE].found = q.found /\ [q EXCEPT !.fresh = FALSE].todo = q.todo
    BY <1>1 DEF SyncFits, SyncFields
<1>2. \A t \in Syncs : SyncFits(sync[t])
    BY DEF OpenFinanceTypes
<1>3. \A t \in Syncs : Outdated(except)[t] = IF t = except THEN sync[t] ELSE [sync[t] EXCEPT !.fresh = FALSE]
    BY DEF Outdated
<1>4. Outdated(except) = [t \in Syncs |-> Outdated(except)[t]]
    BY DEF Outdated
<1>. QED BY <1>1, <1>2, <1>3, <1>4

\* An entry of its own for the movement at hand: its id is nobody's.
LEMMA RowAdded ==
    ASSUME OpenFinanceTypes, RowsKeyed, NEW gone, NEW r, DOMAIN r = RowFields, r.id = NewId,
           rows' = (rows \ gone) \cup {r}, seen'.rows = NewId,
           r.ext # None => r.ext \in Exts /\ key'[r.ext] = NewId,
           \A t \in rows \ gone : t.ext # None => key'[t.ext] = t.id
    PROVE  RowsKeyed'
<1>1. seen.rows \in Nat /\ NewId = seen.rows + 1 /\ \A t \in rows : t.id \in 1..seen.rows
    BY DEF OpenFinanceTypes, RowsKeyed, NewId
<1>2. ASSUME NEW t \in rows'
      PROVE  /\ DOMAIN t = RowFields /\ t.id \in 1..seen'.rows
             /\ t.ext # None => t.ext \in Exts /\ key'[t.ext] = t.id
    <2>1. CASE t = r
        BY <1>1, <2>1
    <2>2. CASE t \in rows \ gone
        BY <1>1, <2>2 DEF RowsKeyed
    <2>. QED BY <2>1, <2>2
<1>3. \A t, u \in rows' : t.id = u.id => t = u
    BY <1>1 DEF RowsKeyed
<1>. QED BY <1>2, <1>3 DEF RowsKeyed

\* What a deed that is done leaves: its movement is known.
LEMMA DeedDone ==
    ASSUME LeftInv, NEW s \in Syncs, NEW d \in Due(s), Write(s, d)
    PROVE  /\ RowsKeyed' /\ key' \in [Exts -> Nat] /\ seen'.rows \in Nat /\ SeenGrows
           /\ key'[d.ext] # None /\ \A e \in Exts : key[e] # None => key'[e] # None
<1>1. /\ OpenFinanceTypes /\ RowsKeyed /\ d \in sync[s].todo /\ d.ext \in Exts
      /\ key \in [Exts -> Nat] /\ seen.rows \in Nat /\ DOMAIN seen = SeenFields
      /\ NewId \in Nat /\ NewId # None /\ None \in Nat
    BY DEF LeftInv, Due, OpenFinanceTypes, SyncFits, NewId, None
<1>2. CASE d.act = "add"
    <2>1. /\ rows' = rows \cup {Added(s, d)} /\ key' = [key EXCEPT ![d.ext] = NewId]
          /\ seen' = [[seen EXCEPT !.recorded[d.ext] = @ + 1] EXCEPT !.rows = NewId]
          /\ ~Known(d.ext)
        BY <1>2 DEF Write, Allowed
    <2>2. DOMAIN seen' = SeenFields /\ seen'.rows = NewId /\ SeenGrows
        BY <1>1, <2>1 DEF SeenFields, SeenGrows
    <2>3. DOMAIN Added(s, d) = RowFields /\ Added(s, d).id = NewId /\ Added(s, d).ext = d.ext
        BY DEF Added, RowFields
    <2>4. key'[d.ext] = NewId /\ key' \in [Exts -> Nat] /\ \A e \in Exts : e # d.ext => key'[e] = key[e]
        BY <1>1, <2>1
    <2>5. \A t \in rows : t.ext # None => key'[t.ext] = t.id
        BY <1>1, <2>1, <2>4 DEF Known, RowsKeyed
    <2>6. RowsKeyed'
        <3>1. rows' = (rows \ {}) \cup {Added(s, d)}
            BY <2>1
        <3>. QED BY <1>1, <2>2, <2>3, <2>4, <2>5, <3>1, RowAdded
    <2>. QED BY <1>1, <2>2, <2>4, <2>6
<1>3. CASE d.act = "remember"
    <2>1. /\ rows' = rows /\ key' = [key EXCEPT ![d.ext] = d.row]
          /\ seen' = [seen EXCEPT !.recorded[d.ext] = @ + 1]
          /\ key[d.ext] = None /\ RowOf(d.row) # {}
        BY <1>3 DEF Write, Allowed
    <2>2. d.row \in Nat /\ d.row # None
        BY <1>1, <2>1 DEF RowOf, RowsKeyed, None
    <2>3. DOMAIN seen' = SeenFields /\ seen'.rows = seen.rows /\ SeenGrows
        BY <1>1, <2>1 DEF SeenFields, SeenGrows
    <2>4. key'[d.ext] = d.row /\ key' \in [Exts -> Nat] /\ \A e \in Exts : e # d.ext => key'[e] = key[e]
        BY <1>1, <2>1, <2>2
    <2>5. RowsKeyed'
        BY <1>1, <2>1, <2>3, <2>4 DEF RowsKeyed, None
    <2>. QED BY <1>1, <2>2, <2>3, <2>4, <2>5
<1>4. CASE d.act = "convert"
    <2>1. PICK old \in RowOf(d.row) :
              /\ rows' = (rows \ {old}) \cup {Converted(s, d, old)}
              /\ key' = [e \in Exts |-> IF e \in Remembered(d, old) THEN NewId
                                        ELSE IF key[e] = old.id THEN None ELSE key[e]]
              /\ seen' = [[seen EXCEPT !.recorded[d.ext] = @ + 1] EXCEPT !.rows = NewId]
        BY <1>4 DEF Write
    <2>2. old \in rows /\ old.id = d.row /\ old.id \in 1..seen.rows
        BY <1>1, <2>1 DEF RowOf, RowsKeyed
    <2>3. /\ \A e \in Remembered(d, old) : key[e] \in {None, old.id}
          /\ old.ext = None => \A r \in rows \ {old} : r.ext # d.ext
        <3>1. PICK o \in RowOf(d.row) : /\ \A e \in Remembered(d, o) : key[e] \in {None, o.id}
                                        /\ o.ext = None => \A r \in rows \ {o} : r.ext # d.ext
            BY <1>4 DEF Write, Allowed
        <3>2. o = old
            BY <1>1, <2>1, <3>1 DEF RowOf, RowsKeyed
        <3>. QED BY <3>1, <3>2
    <2>4. DOMAIN seen' = SeenFields /\ seen'.rows = NewId /\ SeenGrows
        BY <1>1, <2>1 DEF SeenFields, SeenGrows
    <2>5. /\ DOMAIN Converted(s, d, old) = RowFields /\ Converted(s, d, old).id = NewId
          /\ Converted(s, d, old).ext = IF old.ext # None THEN old.ext ELSE d.ext
        BY DEF Converted, Added, RowFields
    <2>6. /\ \A e \in Exts : key[e] = old.id => e \in Remembered(d, old)
          /\ old.ext # None => old.ext \in Exts /\ old.ext \in Remembered(d, old)
          /\ d.ext \in Remembered(d, old) /\ Remembered(d, old) \subseteq Exts
        BY <1>1, <2>2 DEF Remembered, RowsKeyed
    <2>7. \A e \in Exts : key'[e] = IF e \in Remembered(d, old) THEN NewId ELSE key[e]
        BY <2>1, <2>6
    <2>8. key' \in [Exts -> Nat]
        BY <1>1, <2>1
    <2>9. ASSUME NEW t \in rows \ {old}, t.ext # None
          PROVE  key'[t.ext] = t.id
        <3>1. t.ext \in Exts /\ key[t.ext] = t.id /\ t.id # old.id /\ t.id # None
            BY <1>1, <2>2, <2>9 DEF RowsKeyed, None
        <3>. QED BY <2>3, <2>7, <3>1
    <2>10. RowsKeyed'
        BY <1>1, <2>1, <2>2, <2>4, <2>5, <2>6, <2>7, <2>9, RowAdded DEF RowsKeyed
    <2>. QED BY <1>1, <2>4, <2>6, <2>7, <2>8, <2>10
<1>. QED BY <1>2, <1>3, <1>4 DEF Write

LEMMA WriteKeeps ==
    ASSUME LeftInv, NEW s \in Syncs, NEW d \in Due(s), Write(s, d)
    PROVE  LeftInv'
<1> DEFINE rest == sync[s].todo \ {d}
           p == [sync[s] EXCEPT !.todo = rest]
           q == IF rest = {} THEN NextLink(sync[s]) ELSE p
           others == Outdated(s)
<1>1. /\ OpenFinanceTypes /\ PassedKnown /\ SyncFits(sync[s]) /\ sync[s].last <= today /\ Ahead(s)
      /\ UNCHANGED <<today, cred, appeared>> /\ sync[s].pc = "write"
    BY DEF Write, LeftInv, OpenFinanceTypes
<1>2. /\ RowsKeyed' /\ key' \in [Exts -> Nat] /\ seen'.rows \in Nat /\ SeenGrows
      /\ key'[d.ext] # None /\ \A e \in Exts : key[e] # None => key'[e] # None
    BY DeedDone
<1>3. \A e \in appeared : Excused(e) => Excused(e)'
    BY <1>1, <1>2, ExcusesLast DEF SeenGrows, OpenFinanceTypes
<1>4. /\ others = [t \in Syncs |-> others[t]] /\ others[s] = sync[s]
      /\ \A t \in Syncs : /\ SyncFits(others[t])
                          /\ others[t].pc = sync[t].pc /\ others[t].last = sync[t].last
                          /\ others[t].links = sync[t].links /\ others[t].did = sync[t].did
                          /\ others[t].found = sync[t].found /\ others[t].todo = sync[t].todo
    BY <1>1, OutdatedFits
<1> HIDE DEF others
<1>5. sync' = [others EXCEPT ![s] = q]
    BY <1>4 DEF Write, others
<1>6. /\ sync'[s] = q /\ sync' = [t \in Syncs |-> sync'[t]]
      /\ \A t \in Syncs : t # s => sync'[t] = others[t]
    BY <1>4, <1>5
<1>7. /\ SyncFits(p) /\ p.pc = "write" /\ p.last = sync[s].last /\ p.links = sync[s].links
      /\ p.did = sync[s].did /\ p.todo = rest
    BY <1>1 DEF SyncFits, SyncFields
<1>8. SyncFits(NextLink(sync[s])) /\ NextLink(sync[s]).last = sync[s].last
    BY <1>1, NextLinkFits
<1> HIDE DEF p
<1>9. SyncFits(q) /\ q.last <= today
    BY <1>1, <1>7, <1>8
<1>10. ASSUME NEW e \in appeared, Brings(s, Link(s), e)
       PROVE  Excused(e)' \/ \E o \in rest : o.ext = e
    <2>1. CASE Excused(e)
        BY <1>3, <2>1
    <2>2. CASE ~Excused(e)
        <3>1. PICK o \in sync[s].todo : o.ext = e
            BY <1>1, <1>10, <2>2 DEF Ahead
        <3>2. CASE o = d
            BY <1>2, <3>1, <3>2 DEF Excused
        <3>. QED BY <3>1, <3>2
    <2>. QED BY <2>1, <2>2
<1>11. Ahead(s)'
    <2>1. CASE rest = {}
        BY <1>1, <1>3, <1>6, <1>10, <2>1, LinkDone
    <2>2. CASE rest # {}
        <3>1. sync'[s] = p
            BY <1>6, <2>2
        <3>2. \A a, e : Brings(s, a, e)' <=> Brings(s, a, e)
            BY <1>1, <1>7, <3>1 DEF Brings, RangeFrom, Old
        <3>3. Link(s)' = Link(s)
            BY <1>7, <3>1 DEF Link
        <3>. QED BY <1>1, <1>3, <1>7, <1>10, <3>1, <3>2, <3>3 DEF Ahead, RangeFrom
    <2>. QED BY <2>1, <2>2
<1>12. OpenFinanceTypes'
    <2>1. \A t \in Syncs : SyncFits(sync[t])' /\ (sync[t].last <= today)'
        BY <1>1, <1>4, <1>6, <1>9 DEF OpenFinanceTypes, SyncFits
    <2>. QED BY <1>1, <1>2, <1>6, <2>1 DEF OpenFinanceTypes, SeenGrows
<1>13. ASSUME NEW t \in Syncs, t # s
       PROVE  Ahead(t)'
    BY <1>1, <1>3, <1>4, <1>6, <1>13, AheadLasts DEF LeftInv, OpenFinanceTypes
<1>14. PassedKnown'
    BY <1>1, <1>3, PassedLasts DEF OpenFinanceTypes
<1>. QED BY <1>2, <1>11, <1>12, <1>13, <1>14 DEF LeftInv

\* What people do to the entries.
LEMMA RowStepsKeep ==
    ASSUME LeftInv, NEW r \in rows, EditRow(r) \/ DeleteRow(r)
    PROVE  LeftInv'
<1>1. /\ OpenFinanceTypes /\ RowsKeyed /\ PassedKnown /\ sync' = Outdated(None)
      /\ UNCHANGED <<today, cred, appeared>> /\ DOMAIN seen = SeenFields
    BY DEF EditRow, DeleteRow, LeftInv, OpenFinanceTypes
<1>2. /\ RowsKeyed' /\ key' \in [Exts -> Nat] /\ seen'.rows = seen.rows /\ SeenGrows
      /\ \A e \in Exts : key[e] # None => key'[e] # None \/ e \in seen'.forgotten
    <2>1. CASE EditRow(r)
        <3> DEFINE new == [r EXCEPT !.amount = 2, !.ext = None, !.edited = TRUE]
        <3>1. /\ rows' = (rows \ {r}) \cup {new} /\ key' = key /\ seen' = [seen EXCEPT !.moves = @ + 1]
            BY <2>1 DEF EditRow, Outside
        <3>2. DOMAIN seen' = SeenFields /\ seen'.rows = seen.rows /\ SeenGrows
            BY <1>1, <3>1 DEF SeenFields, SeenGrows
        <3>3. DOMAIN r = RowFields /\ r.id \in 1..seen.rows
            BY <1>1 DEF RowsKeyed
        <3>4. DOMAIN new = RowFields /\ new.id = r.id /\ new.ext = None
            BY <3>3 DEF RowFields
        <3> HIDE DEF new
        <3>5. RowsKeyed'
            BY <1>1, <3>1, <3>2, <3>3, <3>4 DEF RowsKeyed
        <3>. QED BY <1>1, <3>1, <3>2, <3>5 DEF OpenFinanceTypes
    <2>2. CASE DeleteRow(r)
        <3>1. /\ rows' = rows \ {r}
              /\ key' = [e \in Exts |-> IF key[e] = r.id THEN None ELSE key[e]]
              /\ seen' = [seen EXCEPT !.moves = @ + 1,
                                      !.forgotten = @ \cup {e \in Exts : key[e] = r.id \/ e = r.ext}]
            BY <2>2 DEF DeleteRow
        <3>2. /\ DOMAIN seen' = SeenFields /\ seen'.rows = seen.rows /\ SeenGrows
              /\ \A e \in Exts : key[e] = r.id => e \in seen'.forgotten
            BY <1>1, <3>1 DEF SeenFields, SeenGrows
        <3>3. key' \in [Exts -> Nat] /\ \A e \in Exts : key[e] # r.id => key'[e] = key[e]
            BY <1>1, <3>1 DEF OpenFinanceTypes, None
        <3>4. RowsKeyed'
            BY <1>1, <3>1, <3>2, <3>3 DEF RowsKeyed
        <3>. QED BY <3>2, <3>3, <3>4
    <2>. QED BY <2>1, <2>2
<1>3. \A e \in appeared : Excused(e) => Excused(e)'
    BY <1>1, <1>2, ExcusesLast DEF SeenGrows, OpenFinanceTypes
<1>4. OpenFinanceTypes'
    <2>1. \A t \in Syncs : SyncFits(sync[t])' /\ (sync[t].last <= today)'
        BY <1>1, OutdatedFits DEF OpenFinanceTypes, SyncFits
    <2>. QED BY <1>1, <1>2, <2>1, OutdatedFits DEF OpenFinanceTypes, SeenGrows
<1>5. ASSUME NEW t \in Syncs
      PROVE  Ahead(t)'
    BY <1>1, <1>3, AheadLasts, OutdatedFits DEF LeftInv, OpenFinanceTypes
<1>6. PassedKnown'
    BY <1>1, <1>3, PassedLasts DEF OpenFinanceTypes
<1>. QED BY <1>2, <1>4, <1>5, <1>6 DEF LeftInv

\* The credential, the consents, a movement shown: no sync's record changes.
LEMMA SurroundingsKeep ==
    ASSUME LeftInv, \/ \E items \in Logins : Save(items)
                    \/ RemoveCredential \/ UNCHANGED ofVars
                    \/ \E e \in Exts : Appear(e)
                    \/ \E a \in UNION Logins : Refuse(a) \/ Restore(a)
    PROVE  LeftInv'
<1>1. /\ OpenFinanceTypes /\ RowsKeyed /\ PassedKnown /\ DOMAIN seen = SeenFields /\ DOMAIN cred = CredFields
      /\ UNCHANGED <<today, rows, key, sync>> /\ appeared \subseteq appeared' /\ appeared' \subseteq Exts
    BY DEF LeftInv, OpenFinanceTypes, Save, RemoveCredential, ofVars, Appear, Refuse, Restore
<1>2. /\ DOMAIN cred' = CredFields /\ cred'.last \in {Never, cred.last}
    <2>1. CASE \E items \in Logins : Save(items)
        <3>1. PICK items \in Logins : Save(items)
            BY <2>1
        <3>. QED BY <1>1, <3>1 DEF Save, CredFields
    <2>2. CASE RemoveCredential
        BY <1>1, <2>2 DEF RemoveCredential, CredFields
    <2>3. CASE UNCHANGED cred
        BY <1>1, <2>3
    <2>. QED BY <2>1, <2>2, <2>3 DEF ofVars, Appear, Refuse, Restore
<1>3. /\ SeenGrows /\ seen'.rows = seen.rows
      /\ \A e \in appeared' \ appeared : Old(e) => e \in seen'.late
    <2>1. CASE \E e \in Exts : Appear(e)
        <3>1. PICK e \in Exts : Appear(e)
            BY <2>1
        <3>2. /\ seen' = [seen EXCEPT !.late = IF today > Remote[e].day + Overlap THEN @ \cup {e} ELSE @]
              /\ appeared' = appeared \cup {e}
            BY <3>1 DEF Appear
        <3>3. SeenGrows /\ seen'.rows = seen.rows /\ (today > Remote[e].day + Overlap => e \in seen'.late)
            BY <1>1, <3>2 DEF SeenGrows, SeenFields
        <3>4. Old(e) => today > Remote[e].day + Overlap
            BY <1>1, RemoteFits DEF Old, Overlap, OpenFinanceTypes
        <3>. QED BY <3>2, <3>3, <3>4
    <2>2. CASE ~\E e \in Exts : Appear(e)
        <3>1. appeared' = appeared /\ (seen' = seen \/ seen' = [seen EXCEPT !.moves = @ + 1])
            BY <2>2 DEF Save, RemoveCredential, ofVars, Refuse, Restore, Outside
        <3>. QED BY <1>1, <3>1 DEF SeenGrows, SeenFields
    <2>. QED BY <2>1, <2>2
<1>4. /\ \A e \in appeared : Excused(e) => Excused(e)'
      /\ \A e \in appeared' \ appeared : Old(e) => Excused(e)'
    BY <1>1, <1>3, ExcusesLast DEF SeenGrows, Excused
<1>5. OpenFinanceTypes'
    <2>1. Never \in Int /\ Never <= today
        BY <1>1 DEF OpenFinanceTypes, Never
    <2>2. \A t \in Syncs : SyncFits(sync[t])' /\ (sync[t].last <= today)'
        BY <1>1 DEF OpenFinanceTypes, SyncFits
    <2>. QED BY <1>1, <1>2, <1>3, <2>1, <2>2 DEF OpenFinanceTypes, SeenGrows
<1>6. RowsKeyed'
    BY <1>1, <1>3 DEF RowsKeyed
<1>7. ASSUME NEW t \in Syncs
      PROVE  Ahead(t)'
    BY <1>1, <1>4, AheadLasts DEF LeftInv
<1>8. PassedKnown'
    BY <1>1, <1>2, <1>4, PassedLasts
<1>. QED BY <1>5, <1>6, <1>7, <1>8 DEF LeftInv

LEMMA NextDayKeeps ==
    ASSUME LeftInv, NextDay
    PROVE  LeftInv'
<1>1. /\ UNCHANGED <<cred, appeared, rows, key, sync, seen>> /\ today' = today + Step
      /\ \A s \in Syncs : sync[s].pc = "idle"
    BY DEF NextDay
<1>2. OpenFinanceTypes'
    <2>1. \A t \in Syncs : sync[t].last \in Int /\ SyncFits(sync[t])'
        BY <1>1 DEF LeftInv, OpenFinanceTypes, SyncFits
    <2>. QED BY <1>1, <2>1, OpenFinanceAssumption DEF LeftInv, OpenFinanceTypes
<1>3. RowsKeyed' /\ PassedKnown'
    <2>1. CASE cred.last # Never
        BY <1>1, <2>1 DEF LeftInv, RowsKeyed, PassedKnown, Excused, RangeFrom
    <2>2. CASE cred.last = Never
        BY <1>1, <2>2 DEF LeftInv, RowsKeyed, PassedKnown
    <2>. QED BY <2>1, <2>2
<1>4. \A s \in Syncs : Ahead(s)'
    BY <1>1 DEF Ahead
<1>. QED BY <1>2, <1>3, <1>4 DEF LeftInv

LEMMA OpenFinanceStarts == OpenFinanceInit => LeftInv
<1>1. SUFFICES ASSUME OpenFinanceInit
               PROVE  LeftInv
    OBVIOUS
<1>2. /\ \A r \in rows : r \in Entry /\ r.id \in 1..Cardinality(rows) /\ r.ext = None
      /\ \A r, t \in rows : r.id = t.id => r = t
      /\ IsFiniteSet(rows)
    BY <1>1, OpenFinanceAssumption DEF OpenFinanceInit
<1>3. Cardinality(rows) \in Nat
    BY <1>2, FS_CardinalityType
<1>4. seen.rows = Cardinality(rows) /\ DOMAIN seen = SeenFields
    BY <1>1 DEF OpenFinanceInit, SeenFields
<1>5. OpenFinanceTypes
    <2>1. \A s \in Syncs : SyncFits(sync[s]) /\ sync[s].last <= today
        BY <1>1, IdleSyncFits DEF OpenFinanceInit, Never
    <2>2. DOMAIN cred = CredFields /\ cred.last = Never
        BY <1>1 DEF OpenFinanceInit, CredFields
    <2>. QED BY <1>1, <1>3, <1>4, <2>1, <2>2 DEF OpenFinanceInit, OpenFinanceTypes, Never, None
<1>6. RowsKeyed
    BY <1>2, <1>4 DEF RowsKeyed, Entry, RowFields
<1>7. PassedKnown /\ \A s \in Syncs : Ahead(s)
    BY <1>1, IdleSyncFits DEF OpenFinanceInit, PassedKnown, Ahead
<1>. QED BY <1>5, <1>6, <1>7 DEF LeftInv

\* The specification of the sync keeps the invariant.
THEOREM SyncInvariant == OpenFinanceSpec => []LeftInv
<1>1. LeftInv /\ [OpenFinanceNext]_ofVars => LeftInv'
    <2>1. SUFFICES ASSUME LeftInv, OpenFinanceNext \/ UNCHANGED ofVars
                   PROVE  LeftInv'
        OBVIOUS
    <2>2. ASSUME NEW s \in Syncs, SyncStep(s)
          PROVE  LeftInv'
        BY <2>1, <2>2, SyncStartKeeps, ReadAccountsKeeps, FetchKeeps, FailuresKeep, DecideKeeps, WriteKeeps,
           FinishKeeps DEF SyncStep
    <2>3. ASSUME NEW r \in rows, EditRow(r) \/ DeleteRow(r)
          PROVE  LeftInv'
        BY <2>1, <2>3, RowStepsKeep
    <2>4. CASE NextDay
        BY <2>1, <2>4, NextDayKeeps
    <2>. QED BY <2>1, <2>2, <2>3, <2>4, SurroundingsKeep DEF OpenFinanceNext
<1>. QED BY <1>1, OpenFinanceStarts, PTL DEF OpenFinanceSpec

\* What the next sync will not read is in the books, but for what was late, too
\* old, deleted or passed over (LeftBehindOnlyIfSkipped, OpenFinance.tla).
THEOREM NothingLeftBehind == OpenFinanceSpec => []LeftBehindOnlyIfSkipped
<1>1. LeftInv => LeftBehindOnlyIfSkipped
    BY DEF LeftInv, PassedKnown, LeftBehindOnlyIfSkipped, Excused, Known
<1>. QED BY <1>1, SyncInvariant, PTL

-----------------------------------------------------------------------------
(* OpenFinance: a movement that was recorded keeps its key, and no deed that  *)
(* is still to be done would record it again.                                 *)

\* What was recorded is known until it is deleted, and once only until then.
OnceKnown ==
    /\ seen.recorded \in [Exts -> Nat]
    /\ \A e \in Exts : seen.recorded[e] > 0 => key[e] # None \/ e \in seen.forgotten
    /\ \A e \in Exts : seen.recorded[e] > 1 => e \in seen.forgotten

\* A key is of an entry of the movement's own account, or of a transfer.
OnTheSide(r, e) == r.type = "TRANSFER" \/ r.accountId = Remote[e].account
KeysFit ==
    /\ \A e \in Exts : key[e] \in 0..seen.rows
    /\ \A e \in Exts, r \in rows : key[e] = r.id => OnTheSide(r, e)
    /\ \A r \in rows : r.day \in Int

\* What is to be done: an entry to turn into a transfer is of another account, an
\* entry to tie the movement to is of its own. Ids are not used again.
DeedFits(s, d) ==
    /\ Remote[d.ext].account = Link(s) /\ d.act \in {"add", "remember", "convert"} /\ d.row \in 0..seen.rows
    /\ \A r \in rows : r.id = d.row =>
          /\ d.act = "convert" => r.type # "TRANSFER" /\ r.accountId # Link(s)
          /\ d.act = "remember" => OnTheSide(r, d.ext)
DeedsOf(s) ==
    /\ sync[s].pc = "decide" => \A e \in sync[s].found : Remote[e].account = Link(s)
    /\ sync[s].pc = "write" => \A d \in sync[s].todo : DeedFits(s, d)
DeedsFit == \A s \in Syncs : DeedsOf(s)

OnceInv == OnceKnown /\ KeysFit /\ DeedsFit

\* A candidate is an entry of the books.
ReadNear(set, found) == {Candidate(r) : r \in {t \in set : Near(t, found)}}

LEMMA CandidateIsEntry ==
    ASSUME NEW set \in SUBSET rows, NEW found, NEW c \in ReadNear(set, found)
    PROVE  \E r \in rows : /\ c.id = r.id /\ c.day = r.day /\ c.type = r.type /\ c.accountId = r.accountId
                           /\ c.linked = (r.type = "TRANSFER")
<1>1. \A r : /\ Candidate(r).id = r.id /\ Candidate(r).day = r.day /\ Candidate(r).type = r.type
             /\ Candidate(r).accountId = r.accountId /\ Candidate(r).linked = (r.type = "TRANSFER")
    BY DEF Candidate
<1>2. PICK r \in set : c = Candidate(r)
    BY DEF ReadNear
<1>. QED BY <1>1, <1>2

\* The lines of the movements found are a statement.
LEMMA LinesFound ==
    ASSUME NEW found \in SUBSET Exts
    PROVE  Statement({Line(e) : e \in found}) /\ \A e \in found : Line(e).id = e
<1>. DEFINE lines == {Line(e) : e \in found}
            f == [e \in found |-> Line(e)]
<1>1. \A e \in found : Line(e).id = e /\ Line(e).day \in Int /\ e \in Int
    BY RemoteFits, OpenFinanceAssumption DEF Line
<1>2. IsFiniteSet(found)
    BY OpenFinanceAssumption, FS_Subset
<1>3. f \in Surjection(found, lines)
    BY DEF Surjection
<1>4. IsFiniteSet(lines)
    BY <1>2, <1>3, FS_Surjection
<1>5. \A l \in lines : \E e \in found : l = Line(e)
    OBVIOUS
<1>. HIDE DEF lines
<1>6. Statement(lines)
    BY <1>1, <1>4, <1>5 DEF Statement
<1>. QED BY <1>1, <1>6 DEF lines

\* What the matching reads: a statement, and numbered and dated entries.
LEMMA StatementRead ==
    ASSUME LeftInv, KeysFit, NEW s \in Syncs
    PROVE  LET found == sync[s].found
               lines == {Line(x) : x \in found}
               txs == ReadNear(Unbound, found)
               cps == ReadNear(Counterparts, found)
           IN  /\ found \in SUBSET Exts /\ Statement(lines) /\ \A x \in found : Line(x).id = x
               /\ Books(txs, {}, cps)
               /\ Decisions(s) = MatchImportRows(lines, txs, {}, cps, Link(s), None, "link-existing")
<1>. DEFINE found == sync[s].found
            lines == {Line(x) : x \in found}
            txs == ReadNear(Unbound, found)
            cps == ReadNear(Counterparts, found)
<1>1. found \in SUBSET Exts
    BY DEF LeftInv, OpenFinanceTypes, SyncFits
<1>2. Statement(lines) /\ \A x \in found : Line(x).id = x
    BY <1>1, LinesFound
<1>3. \A r \in rows : r.id \in Nat /\ r.day \in Int
    BY DEF LeftInv, RowsKeyed, OpenFinanceTypes, KeysFit
<1>4. Unbound \in SUBSET rows /\ Counterparts \in SUBSET rows
    BY DEF Unbound, Counterparts
<1>5. Books(txs, {}, cps)
    <2>1. \A c \in txs : c.id \in Nat /\ c.day \in Int
        BY <1>3, <1>4, CandidateIsEntry
    <2>2. \A c \in cps : c.id \in Nat /\ c.day \in Int
        BY <1>3, <1>4, CandidateIsEntry
    <2>. HIDE DEF txs, cps
    <2>. QED BY <2>1, <2>2 DEF Books, Numbered
<1>6. Decisions(s) = MatchImportRows(lines, txs, {}, cps, Link(s), None, "link-existing")
    BY DEF Decisions, ReadNear
<1>. QED BY <1>1, <1>2, <1>5, <1>6

\* What the matching finds for a movement fits it.
LEMMA DecisionsFit ==
    ASSUME LeftInv, KeysFit, NEW s \in Syncs, NEW e \in sync[s].found
    PROVE  Resolved(Decisions(s)[e], Line(e), ReadNear(Unbound, sync[s].found), {},
                    ReadNear(Counterparts, sync[s].found), Link(s))
<1>. DEFINE found == sync[s].found
            lines == {Line(x) : x \in found}
            txs == ReadNear(Unbound, found)
            cps == ReadNear(Counterparts, found)
<1>1. /\ Statement(lines) /\ \A x \in found : Line(x).id = x
      /\ Books(txs, {}, cps)
      /\ Decisions(s) = MatchImportRows(lines, txs, {}, cps, Link(s), None, "link-existing")
    BY StatementRead
<1>. HIDE DEF lines, txs, cps
<1>2. MatchedSoundly(Decisions(s), lines, txs, {}, cps, Link(s))
    BY <1>1, MatchedOnce
<1>3. Line(e) \in lines /\ Line(e).id = e
    BY <1>1 DEF lines
<1>4. Resolved(Decisions(s)[e], Line(e), txs, {}, cps, Link(s))
    BY <1>2, <1>3 DEF MatchedSoundly
<1>. QED BY <1>4 DEF txs, cps

\* So does the deed that follows.
LEMMA DeedMade ==
    ASSUME LeftInv, KeysFit, NEW s \in Syncs, NEW e \in sync[s].found, Remote[e].account = Link(s)
    PROVE  LET d == Deed(e, Decisions(s)[e]) IN
           /\ d.ext = e /\ d.act \in {"add", "remember", "convert"} /\ d.row \in 0..seen.rows
           /\ \A r \in rows : r.id = d.row =>
                 /\ d.act = "convert" => r.type # "TRANSFER" /\ r.accountId # Link(s)
                 /\ d.act = "remember" => OnTheSide(r, e)
<1>. DEFINE decision == Decisions(s)[e]
            d == Deed(e, decision)
            kinds == {m.kind : m \in decision.matches}
            txs == ReadNear(Unbound, sync[s].found)
            cps == ReadNear(Counterparts, sync[s].found)
<1>1. Resolved(decision, Line(e), txs, {}, cps, Link(s))
    BY DecisionsFit
<1>2. d = [ext |-> e,
           act |-> IF decision.suggestedAction = "RECORD_TRANSFER" THEN "convert"
                   ELSE IF \/ decision.suggestedAction = "SKIP"
                           \/ decision.suggestedAction = "LINK_TRANSACTION" /\ kinds = {"TRANSACTION"}
                   THEN "remember" ELSE "add",
           row |-> IF d.act = "add" THEN None ELSE (CHOOSE m \in decision.matches : TRUE).id]
    BY DEF Deed
<1>3. /\ d.ext = e /\ d.act \in {"add", "remember", "convert"}
      /\ d.act = "convert" => decision.suggestedAction = "RECORD_TRANSFER"
      /\ d.act = "remember" => decision.suggestedAction \in {"SKIP", "LINK_TRANSACTION"}
      /\ d.row = IF d.act = "add" THEN None ELSE (CHOOSE m \in decision.matches : TRUE).id
    <2>. HIDE DEF d, decision, kinds
    <2>. QED BY <1>2
<1>4. /\ \A r \in rows : r.id \in 1..seen.rows /\ r.id # None
      /\ \A r, t \in rows : r.id = t.id => r = t
      /\ seen.rows \in Nat
    BY DEF LeftInv, RowsKeyed, OpenFinanceTypes, None
<1>5. Unbound \in SUBSET rows /\ Counterparts \in SUBSET rows
    BY DEF Unbound, Counterparts
<1>. HIDE DEF d, decision, txs, cps
<1>6. CASE d.act = "add"
    BY <1>3, <1>4, <1>6 DEF None, d, decision
<1>7. CASE d.act = "convert"
    <2>1. PICK k : decision.matches = {k} /\ Fitting(Line(e), k, txs, {}, cps, Link(s)) /\ k.kind = "OWN_TRANSFER"
        BY <1>1, <1>3, <1>7 DEF Resolved
    <2>2. d.row = k.id
        BY <1>3, <1>7, <2>1
    <2>3. PICK c \in cps : CounterpartyFits(Line(e), c, Link(s)) /\ k.id = c.id
        BY <2>1 DEF Fitting
    <2>4. PICK r \in rows : c.id = r.id /\ c.type = r.type /\ c.accountId = r.accountId
        BY <1>5, CandidateIsEntry DEF cps
    <2>5. r.type # "TRANSFER" /\ r.accountId # Link(s)
        BY <2>3, <2>4 DEF CounterpartyFits
    <2>6. \A t \in rows : t.id = d.row => t = r
        BY <1>4, <2>2, <2>3, <2>4
    <2>7. d.row \in 0..seen.rows
        BY <1>4, <2>2, <2>3, <2>4
    <2>. QED BY <1>3, <1>7, <2>5, <2>6, <2>7 DEF d, decision
<1>8. CASE d.act = "remember"
    <2>1. PICK k : /\ decision.matches = {k} /\ Fitting(Line(e), k, txs, {}, cps, Link(s))
                   /\ k.kind \in {"TRANSFER_MIRROR", "TRANSACTION"}
        BY <1>1, <1>3, <1>8 DEF Resolved
    <2>2. d.row = k.id
        BY <1>3, <1>8, <2>1
    <2>3. PICK c \in txs : /\ k.id = c.id
                           /\ MirrorFits(Line(e), c, Link(s)) \/ TransactionFits(Line(e), c, Link(s))
        BY <2>1 DEF Fitting
    <2>4. PICK r \in rows : c.id = r.id /\ c.type = r.type /\ c.accountId = r.accountId
        BY <1>5, CandidateIsEntry DEF txs
    <2>5. OnTheSide(r, e)
        BY <2>3, <2>4 DEF MirrorFits, TransactionFits, OnTheSide
    <2>6. \A t \in rows : t.id = d.row => t = r
        BY <1>4, <2>2, <2>3, <2>4
    <2>7. d.row \in 0..seen.rows
        BY <1>4, <2>2, <2>3, <2>4
    <2>. QED BY <1>3, <1>8, <2>5, <2>6, <2>7 DEF d, decision
<1>. QED BY <1>3, <1>6, <1>7, <1>8

\* Deeds still fit while entries keep what they are and new ones have new ids.
LEMMA DeedsLast ==
    ASSUME NEW t \in Syncs, DeedsOf(t), sync'[t].pc = sync[t].pc, sync'[t].links = sync[t].links,
           sync'[t].found = sync[t].found, sync'[t].todo \subseteq sync[t].todo,
           seen.rows \in Nat, seen'.rows \in Nat, seen.rows <= seen'.rows,
           \A r \in rows' : r.id \in 0..seen.rows =>
              \E o \in rows : o.id = r.id /\ o.type = r.type /\ o.accountId = r.accountId
    PROVE  DeedsOf(t)'
<1>1. Link(t)' = Link(t)
    BY DEF Link
<1>2. ASSUME NEW d, DeedFits(t, d)
      PROVE  DeedFits(t, d)'
    <2>1. d.row \in 0..seen.rows /\ d.row \in 0..seen'.rows
        BY <1>2 DEF DeedFits
    <2>2. ASSUME NEW r \in rows', r.id = d.row
          PROVE  /\ d.act = "convert" => r.type # "TRANSFER" /\ r.accountId # Link(t)
                 /\ d.act = "remember" => OnTheSide(r, d.ext)
        <3>1. PICK o \in rows : o.id = r.id /\ o.type = r.type /\ o.accountId = r.accountId
            BY <2>1, <2>2
        <3>. QED BY <1>2, <2>2, <3>1 DEF DeedFits, OnTheSide
    <2>. QED BY <1>1, <1>2, <2>1, <2>2 DEF DeedFits, OnTheSide
<1>. QED BY <1>1, <1>2 DEF DeedsOf

\* A step that leaves the entries and the keys alone, and one sync's record
\* apart all the others.
LEMMA OnceStands ==
    ASSUME LeftInv, OnceInv, NEW s, UNCHANGED <<rows, key>>, seen'.rows = seen.rows,
           seen'.recorded = seen.recorded, seen.forgotten \subseteq seen'.forgotten,
           \A t \in Syncs : t # s => sync'[t] = sync[t], s \in Syncs => DeedsOf(s)'
    PROVE  OnceInv'
<1>1. OnceKnown'
    BY DEF OnceInv, OnceKnown
<1>2. KeysFit'
    BY DEF OnceInv, KeysFit, OnTheSide
<1>3. ASSUME NEW t \in Syncs, t # s
      PROVE  DeedsOf(t)'
    <2>1. DeedsOf(t) /\ seen.rows \in Nat
        BY DEF OnceInv, DeedsFit, LeftInv, OpenFinanceTypes
    <2>. QED BY <1>3, <2>1, DeedsLast
<1>4. DeedsFit'
    BY <1>3 DEF DeedsFit
<1>. QED BY <1>1, <1>2, <1>4 DEF OnceInv

\* A sync that is neither about to decide nor to write has no deeds.
LEMMA OnceAtEase ==
    ASSUME LeftInv, OnceInv, NEW s \in Syncs, NEW q, sync' = [sync EXCEPT ![s] = q],
           q.pc \notin {"decide", "write"}, UNCHANGED <<rows, key>>, seen'.rows = seen.rows,
           seen'.recorded = seen.recorded, seen.forgotten \subseteq seen'.forgotten
    PROVE  OnceInv'
<1>1. sync'[s] = q /\ \A t \in Syncs : t # s => sync'[t] = sync[t]
    BY DEF LeftInv, OpenFinanceTypes
<1>2. DeedsOf(s)'
    BY <1>1 DEF DeedsOf
<1>. QED BY <1>1, <1>2, OnceStands

\* What is found, and what is decided about it, is of the account at hand.
LEMMA OnceWhileReading ==
    ASSUME LeftInv, OnceInv, NEW s \in Syncs, Fetch(s) \/ Decide(s)
    PROVE  OnceInv'
<1>1. /\ OpenFinanceTypes /\ SyncFits(sync[s]) /\ UNCHANGED <<rows, key>>
      /\ UNCHANGED <<seen.rows, seen.recorded, seen.forgotten>>
    <2>1. \E torn : seen' = seen \/ seen' = [seen EXCEPT !.torn = torn]
        BY DEF Fetch, Decide
    <2>2. UNCHANGED <<seen.rows, seen.recorded, seen.forgotten>>
        BY <2>1 DEF LeftInv, OpenFinanceTypes, SeenFields
    <2>. QED BY <2>2 DEF Fetch, Decide, LeftInv, OpenFinanceTypes
<1>2. CASE Fetch(s)
    <2> DEFINE unknown == {e \in appeared : /\ Remote[e].account = Link(s) /\ ~Known(e)
                                            /\ Remote[e].day >= RangeFrom(sync[s].last)}
               p == [sync[s] EXCEPT !.pc = "decide", !.found = unknown]
    <2>1. sync' = [sync EXCEPT ![s] = IF unknown = {} THEN NextLink(sync[s]) ELSE p]
        BY <1>2 DEF Fetch
    <2>2. CASE unknown = {}
        <3>1. sync' = [sync EXCEPT ![s] = NextLink(sync[s])] /\ NextLink(sync[s]).pc = "fetch"
            BY <1>1, <2>1, <2>2, NextLinkFits
        <3>. QED BY <1>1, <3>1, OnceAtEase
    <2>3. CASE unknown # {}
        <3>1. sync' = [sync EXCEPT ![s] = p]
            BY <2>1, <2>3
        <3>2. sync'[s] = p /\ \A t \in Syncs : t # s => sync'[t] = sync[t]
            BY <1>1, <3>1 DEF OpenFinanceTypes
        <3>3. p.pc = "decide" /\ p.found = unknown /\ p.links = sync[s].links
            BY <1>1 DEF SyncFits, SyncFields
        <3> HIDE DEF p
        <3>4. DeedsOf(s)'
            BY <3>2, <3>3 DEF DeedsOf, Link
        <3>. QED BY <1>1, <3>2, <3>4, OnceStands
    <2>. QED BY <2>2, <2>3
<1>3. CASE Decide(s)
    <2> DEFINE todo == {Deed(e, Decisions(s)[e]) : e \in sync[s].found}
               p == [sync[s] EXCEPT !.pc = "write", !.fresh = TRUE, !.todo = todo]
    <2>1. sync' = [sync EXCEPT ![s] = p] /\ sync[s].pc = "decide"
        BY <1>3 DEF Decide
    <2>2. sync'[s] = p /\ \A t \in Syncs : t # s => sync'[t] = sync[t]
        BY <1>1, <2>1 DEF OpenFinanceTypes
    <2>3. p.pc = "write" /\ p.todo = todo /\ p.links = sync[s].links
        BY <1>1 DEF SyncFits, SyncFields
    <2>4. ASSUME NEW d \in todo
          PROVE  DeedFits(s, d)
        <3>1. PICK e \in sync[s].found : d = Deed(e, Decisions(s)[e])
            OBVIOUS
        <3>2. KeysFit /\ Remote[e].account = Link(s)
            BY <2>1 DEF OnceInv, DeedsFit, DeedsOf
        <3>3. /\ d.ext = e /\ d.act \in {"add", "remember", "convert"} /\ d.row \in 0..seen.rows
              /\ \A r \in rows : r.id = d.row =>
                    /\ d.act = "convert" => r.type # "TRANSFER" /\ r.accountId # Link(s)
                    /\ d.act = "remember" => OnTheSide(r, e)
            BY <3>1, <3>2, DeedMade
        <3>. QED BY <3>2, <3>3 DEF DeedFits
    <2> HIDE DEF p, todo
    <2>5. Link(s)' = Link(s)
        BY <2>2, <2>3 DEF Link
    <2>6. \A d \in todo : DeedFits(s, d)'
        BY <1>1, <2>4, <2>5 DEF DeedFits, OnTheSide
    <2>7. DeedsOf(s)'
        BY <2>2, <2>3, <2>6 DEF DeedsOf
    <2>. QED BY <1>1, <2>2, <2>7, OnceStands
<1>. QED BY <1>2, <1>3

\* The other steps of a sync that leave the books alone.
LEMMA OnceWhileStarting ==
    ASSUME LeftInv, OnceInv, NEW s \in Syncs,
           \/ \E maps : SyncStart(s, maps)
           \/ ReadAccounts(s) \/ FetchFails(s) \/ SyncFails(s) \/ Finish(s)
           \/ \E d \in Due(s) : WriteRefused(s, d)
    PROVE  OnceInv'
<1>1. /\ OpenFinanceTypes /\ SyncFits(sync[s]) /\ UNCHANGED <<rows, key>> /\ DOMAIN seen = SeenFields
    BY DEF SyncStart, ReadAccounts, FetchFails, SyncFails, Finish, WriteRefused, LeftInv, OpenFinanceTypes
<1>2. seen'.rows = seen.rows /\ seen'.recorded = seen.recorded /\ seen.forgotten \subseteq seen'.forgotten
    <2>1. \/ seen' = seen \/ seen' = [seen EXCEPT !.moves = @ + 1]
          \/ seen' = [seen EXCEPT !.passed = @ \cup (Accounts \ sync[s].did), !.late = @ \cup BeforeTheYear(s)]
        BY DEF SyncStart, ReadAccounts, FetchFails, SyncFails, Finish, WriteRefused, Outside
    <2>. QED BY <1>1, <2>1 DEF SeenFields
<1>3. IdleSync.pc = "idle"
    BY DEF IdleSync
<1>4. CASE \E maps : SyncStart(s, maps)
    <2> DEFINE q == [IdleSync EXCEPT !.pc = "reading", !.id = cred.id, !.last = cred.last, !.items = cred.items]
    <2>1. sync' = [sync EXCEPT ![s] = q] /\ q.pc = "reading"
        BY <1>4 DEF SyncStart, IdleSync
    <2>. QED BY <1>1, <1>2, <2>1, OnceAtEase
<1>5. CASE ReadAccounts(s)
    <2> DEFINE links == (sync[s].items \ refused) \cap mapped
               q == [sync[s] EXCEPT !.pc = "fetch", !.links = links, !.did = links]
    <2>1. sync' = [sync EXCEPT ![s] = q] /\ q.pc = "fetch"
        BY <1>1, <1>5 DEF ReadAccounts, SyncFits, SyncFields
    <2>. QED BY <1>1, <1>2, <2>1, OnceAtEase
<1>6. CASE FetchFails(s)
    <2> DEFINE p == [sync[s] EXCEPT !.pc = "reading", !.attempt = @ + 1]
               q == IF sync[s].attempt < Attempts THEN p ELSE IdleSync
    <2>1. sync' = [sync EXCEPT ![s] = q]
        BY <1>6 DEF FetchFails
    <2>2. q.pc \notin {"decide", "write"}
        BY <1>1, <1>3 DEF SyncFits, SyncFields
    <2>. QED BY <1>1, <1>2, <2>1, <2>2, OnceAtEase
<1>7. CASE SyncFails(s) \/ Finish(s) \/ \E d \in Due(s) : WriteRefused(s, d)
    <2>1. sync' = [sync EXCEPT ![s] = IdleSync]
        BY <1>7 DEF SyncFails, Finish, WriteRefused
    <2>. QED BY <1>1, <1>2, <1>3, <2>1, OnceAtEase
<1>. QED BY <1>4, <1>5, <1>6, <1>7

\* A deed that is done was not done before, and leaves each key where it fits.
LEMMA RecordedAnew ==
    ASSUME LeftInv, OnceInv, NEW s \in Syncs, NEW d \in Due(s), Write(s, d), key[d.ext] = None,
           seen'.recorded = [seen.recorded EXCEPT ![d.ext] = @ + 1], seen'.forgotten = seen.forgotten
    PROVE  OnceKnown'
<1>1. /\ d.ext \in Exts /\ seen.recorded \in [Exts -> Nat]
      /\ \A e \in Exts : seen.recorded[e] > 0 => key[e] # None \/ e \in seen.forgotten
      /\ \A e \in Exts : seen.recorded[e] > 1 => e \in seen.forgotten
    BY DEF LeftInv, OpenFinanceTypes, SyncFits, Due, OnceInv, OnceKnown
<1>2. key'[d.ext] # None /\ \A e \in Exts : key[e] # None => key'[e] # None
    BY DeedDone
<1>3. seen'.recorded \in [Exts -> Nat]
    BY <1>1
<1>4. ASSUME NEW e \in Exts
      PROVE  /\ seen'.recorded[e] > 0 => key'[e] # None \/ e \in seen.forgotten
             /\ seen'.recorded[e] > 1 => e \in seen.forgotten
    <2>1. CASE e = d.ext
        <3>1. seen'.recorded[e] = seen.recorded[e] + 1 /\ seen.recorded[e] \in Nat
            BY <1>1, <2>1
        <3>2. seen'.recorded[e] > 1 => seen.recorded[e] > 0
            BY <3>1
        <3>. QED BY <1>1, <1>2, <2>1, <3>2
    <2>2. CASE e # d.ext
        <3>1. seen'.recorded[e] = seen.recorded[e]
            BY <1>1, <2>2
        <3>. QED BY <1>1, <1>2, <3>1
    <2>. QED BY <2>1, <2>2
<1>. QED BY <1>3, <1>4 DEF OnceKnown

\* The entry of another id, or the entry itself, that a movement's key may name.
LEMMA KeysOfNew ==
    ASSUME LeftInv, KeysFit, NEW gone, NEW r, r.id = NewId, r.day \in Int,
           rows' = (rows \ gone) \cup {r}, seen'.rows = NewId,
           \A e \in Exts : (key'[e] = NewId /\ OnTheSide(r, e)) \/ key'[e] \in {key[e], None}
    PROVE  /\ KeysFit' /\ seen.rows \in Nat /\ seen'.rows \in Nat /\ seen.rows <= seen'.rows
           /\ \A t \in rows' : t.id \in 0..seen.rows => t \in rows
<1>1. /\ seen.rows \in Nat /\ NewId = seen.rows + 1
      /\ \A t \in rows : t.id \in 1..seen.rows /\ t.day \in Int
      /\ \A e \in Exts : key[e] \in 0..seen.rows
    BY DEF LeftInv, OpenFinanceTypes, RowsKeyed, NewId, KeysFit
<1>2. \A e \in Exts : key'[e] \in 0..seen'.rows
    BY <1>1 DEF None
<1>3. ASSUME NEW e \in Exts, NEW t \in rows', key'[e] = t.id
      PROVE  OnTheSide(t, e)
    <2>1. CASE t \in rows
        <3>1. key'[e] = key[e]
            BY <1>1, <1>3, <2>1 DEF None
        <3>. QED BY <1>3, <2>1, <3>1 DEF KeysFit
    <2>2. CASE t = r
        BY <1>1, <1>3, <2>2 DEF None
    <2>. QED BY <2>1, <2>2
<1>4. \A t \in rows' : t.day \in Int
    BY <1>1
<1>. QED BY <1>1, <1>2, <1>3, <1>4 DEF KeysFit, OnTheSide

LEMMA OnceWhileWriting ==
    ASSUME LeftInv, OnceInv, NEW s \in Syncs, NEW d \in Due(s), Write(s, d)
    PROVE  /\ OnceKnown' /\ KeysFit' /\ seen.rows \in Nat /\ seen'.rows \in Nat /\ seen.rows <= seen'.rows
           /\ \A t \in rows' : t.id \in 0..seen.rows => t \in rows
<1>1. /\ OpenFinanceTypes /\ RowsKeyed /\ KeysFit /\ OnceKnown /\ d \in sync[s].todo /\ d.ext \in Exts
      /\ DOMAIN seen = SeenFields /\ DeedFits(s, d) /\ key \in [Exts -> Nat] /\ Remote[d.ext].day \in Int
    BY RemoteFits DEF LeftInv, OpenFinanceTypes, SyncFits, Due, OnceInv, DeedsFit, DeedsOf, Write
<1>2. Remote[d.ext].account = Link(s)
    BY <1>1 DEF DeedFits
<1>3. CASE d.act = "add"
    <2>1. /\ rows' = (rows \ {}) \cup {Added(s, d)} /\ key' = [key EXCEPT ![d.ext] = NewId]
          /\ seen' = [[seen EXCEPT !.recorded[d.ext] = @ + 1] EXCEPT !.rows = NewId]
          /\ key[d.ext] = None
        BY <1>3 DEF Write, Allowed, Known
    <2>2. /\ seen'.rows = NewId /\ seen'.recorded = [seen.recorded EXCEPT ![d.ext] = @ + 1]
          /\ seen'.forgotten = seen.forgotten
        BY <1>1, <2>1 DEF SeenFields
    <2>3. /\ Added(s, d).id = NewId /\ Added(s, d).day = Remote[d.ext].day /\ Added(s, d).accountId = Link(s)
        BY DEF Added
    <2>4. OnTheSide(Added(s, d), d.ext)
        BY <1>2, <2>3 DEF OnTheSide
    <2>5. \A e \in Exts : (key'[e] = NewId /\ OnTheSide(Added(s, d), e)) \/ key'[e] \in {key[e], None}
        BY <1>1, <2>1, <2>4
    <2>6. OnceKnown'
        BY <2>1, <2>2, RecordedAnew
    <2>. QED BY <1>1, <2>1, <2>2, <2>3, <2>5, <2>6, KeysOfNew
<1>4. CASE d.act = "remember"
    <2>1. /\ rows' = rows /\ key' = [key EXCEPT ![d.ext] = d.row]
          /\ seen' = [seen EXCEPT !.recorded[d.ext] = @ + 1] /\ key[d.ext] = None
        BY <1>4 DEF Write, Allowed
    <2>2. /\ seen'.rows = seen.rows /\ seen'.recorded = [seen.recorded EXCEPT ![d.ext] = @ + 1]
          /\ seen'.forgotten = seen.forgotten
        BY <1>1, <2>1 DEF SeenFields
    <2>3. OnceKnown'
        BY <2>1, <2>2, RecordedAnew
    <2>4. \A e \in Exts : key'[e] = IF e = d.ext THEN d.row ELSE key[e]
        BY <1>1, <2>1
    <2>5. d.row \in 0..seen.rows /\ \A r \in rows : r.id = d.row => OnTheSide(r, d.ext)
        BY <1>1, <1>4 DEF DeedFits
    <2>6. KeysFit'
        BY <1>1, <2>1, <2>2, <2>4, <2>5 DEF KeysFit, OnTheSide
    <2>. QED BY <1>1, <2>1, <2>2, <2>3, <2>6 DEF OpenFinanceTypes
<1>5. CASE d.act = "convert"
    <2>1. PICK old \in RowOf(d.row) :
              /\ rows' = (rows \ {old}) \cup {Converted(s, d, old)}
              /\ key' = [e \in Exts |-> IF e \in Remembered(d, old) THEN NewId
                                        ELSE IF key[e] = old.id THEN None ELSE key[e]]
              /\ seen' = [[seen EXCEPT !.recorded[d.ext] = @ + 1] EXCEPT !.rows = NewId]
        BY <1>5 DEF Write
    <2>2. old \in rows /\ old.id = d.row
        BY <2>1 DEF RowOf
    <2>3. \A e \in Remembered(d, old) : key[e] \in {None, old.id}
        <3>1. PICK o \in RowOf(d.row) : \A e \in Remembered(d, o) : key[e] \in {None, o.id}
            BY <1>5 DEF Write, Allowed
        <3>2. o = old
            BY <1>1, <2>1, <3>1 DEF RowOf, RowsKeyed
        <3>. QED BY <3>1, <3>2
    <2>4. key[d.ext] = None
        <3>1. key[d.ext] \in {None, old.id}
            BY <2>3 DEF Remembered
        <3>2. old.type # "TRANSFER" /\ old.accountId # Link(s)
            BY <1>1, <1>5, <2>2 DEF DeedFits
        <3>3. key[d.ext] # old.id
            BY <1>1, <1>2, <2>2, <3>2 DEF KeysFit, OnTheSide
        <3>. QED BY <3>1, <3>3
    <2>5. /\ seen'.rows = NewId /\ seen'.recorded = [seen.recorded EXCEPT ![d.ext] = @ + 1]
          /\ seen'.forgotten = seen.forgotten
        BY <1>1, <2>1 DEF SeenFields
    <2>6. OnceKnown'
        BY <2>4, <2>5, RecordedAnew
    <2>7. /\ Converted(s, d, old).id = NewId /\ Converted(s, d, old).type = "TRANSFER"
          /\ Converted(s, d, old).day = Remote[d.ext].day
        BY DEF Converted, Added
    <2>8. \A e \in Exts : (key'[e] = NewId /\ OnTheSide(Converted(s, d, old), e)) \/ key'[e] \in {key[e], None}
        BY <2>1, <2>7 DEF OnTheSide
    <2>. QED BY <1>1, <2>1, <2>5, <2>6, <2>7, <2>8, KeysOfNew
<1>. QED BY <1>1, <1>3, <1>4, <1>5 DEF DeedFits

LEMMA OnceKept ==
    ASSUME LeftInv, OnceInv, NEW s \in Syncs, NEW d \in Due(s), Write(s, d)
    PROVE  OnceInv'
<1> DEFINE rest == sync[s].todo \ {d}
           p == [sync[s] EXCEPT !.todo = rest]
           q == IF rest = {} THEN NextLink(sync[s]) ELSE p
           others == Outdated(s)
<1>1. OpenFinanceTypes /\ SyncFits(sync[s]) /\ sync[s].pc = "write"
    BY DEF Write, LeftInv, OpenFinanceTypes
<1>2. /\ OnceKnown' /\ KeysFit' /\ seen.rows \in Nat /\ seen'.rows \in Nat /\ seen.rows <= seen'.rows
      /\ \A t \in rows' : t.id \in 0..seen.rows => t \in rows
    BY OnceWhileWriting
<1>3. /\ others = [t \in Syncs |-> others[t]] /\ others[s] = sync[s]
      /\ \A t \in Syncs : /\ others[t].pc = sync[t].pc /\ others[t].links = sync[t].links
                          /\ others[t].found = sync[t].found /\ others[t].todo = sync[t].todo
    BY <1>1, OutdatedFits
<1> HIDE DEF others
<1>4. sync' = [others EXCEPT ![s] = q]
    BY <1>3 DEF Write, others
<1>5. sync'[s] = q /\ \A t \in Syncs : t # s => sync'[t] = others[t]
    BY <1>3, <1>4
<1>6. ASSUME NEW t \in Syncs
      PROVE  DeedsOf(t)'
    <2>1. CASE t = s /\ rest = {}
        <3>1. sync'[s].pc = "fetch"
            BY <1>1, <1>5, <2>1, NextLinkFits
        <3>. QED BY <2>1, <3>1 DEF DeedsOf
    <2>2. CASE ~(t = s /\ rest = {})
        <3>1. /\ p.pc = sync[s].pc /\ p.links = sync[s].links /\ p.found = sync[s].found /\ p.todo \subseteq sync[s].todo
            BY <1>1 DEF SyncFits, SyncFields
        <3>2. /\ sync'[t].pc = sync[t].pc /\ sync'[t].links = sync[t].links
              /\ sync'[t].found = sync[t].found /\ sync'[t].todo \subseteq sync[t].todo
            BY <1>3, <1>5, <2>2, <3>1
        <3>3. DeedsOf(t)
            BY DEF OnceInv, DeedsFit
        <3>. QED BY <1>2, <3>2, <3>3, DeedsLast
    <2>. QED BY <2>1, <2>2
<1>7. DeedsFit'
    BY <1>6 DEF DeedsFit
<1>. QED BY <1>2, <1>7 DEF OnceInv

\* A person edits or deletes an entry: what loses its key is forgotten.
LEMMA OnceWhileUsed ==
    ASSUME LeftInv, OnceInv, NEW r \in rows, EditRow(r) \/ DeleteRow(r)
    PROVE  OnceInv'
<1>1. /\ OpenFinanceTypes /\ RowsKeyed /\ KeysFit /\ OnceKnown /\ sync' = Outdated(None)
      /\ DOMAIN seen = SeenFields /\ seen.rows \in Nat
    BY DEF EditRow, DeleteRow, LeftInv, OpenFinanceTypes, OnceInv
<1>2. /\ OnceKnown' /\ KeysFit' /\ seen'.rows = seen.rows
      /\ \A t \in rows' : \E o \in rows : o.id = t.id /\ o.type = t.type /\ o.accountId = t.accountId
    <2>1. CASE EditRow(r)
        <3> DEFINE new == [r EXCEPT !.amount = 2, !.ext = None, !.edited = TRUE]
        <3>1. rows' = (rows \ {r}) \cup {new} /\ key' = key /\ seen' = [seen EXCEPT !.moves = @ + 1]
            BY <2>1 DEF EditRow, Outside
        <3>2. seen'.rows = seen.rows /\ seen'.recorded = seen.recorded /\ seen'.forgotten = seen.forgotten
            BY <1>1, <3>1 DEF SeenFields
        <3>3. new.id = r.id /\ new.type = r.type /\ new.accountId = r.accountId /\ new.day = r.day
            BY <1>1 DEF RowsKeyed, RowFields
        <3> HIDE DEF new
        <3>4. \A t \in rows' : \E o \in rows : /\ o.id = t.id /\ o.type = t.type /\ o.accountId = t.accountId
                                              /\ o.day = t.day
            BY <3>1, <3>3
        <3>5. OnceKnown'
            BY <1>1, <3>1, <3>2 DEF OnceKnown
        <3>6. KeysFit'
            <4>1. ASSUME NEW e \in Exts, NEW t \in rows', key'[e] = t.id
                  PROVE  OnTheSide(t, e)
                <5>1. PICK o \in rows : o.id = t.id /\ o.type = t.type /\ o.accountId = t.accountId
                    BY <3>4
                <5>. QED BY <1>1, <3>1, <4>1, <5>1 DEF KeysFit, OnTheSide
            <4>2. \A t \in rows' : t.day \in Int
                BY <1>1, <3>4 DEF KeysFit
            <4>3. \A e \in Exts : key'[e] \in 0..seen'.rows
                BY <1>1, <3>1, <3>2 DEF KeysFit
            <4>. QED BY <4>1, <4>2, <4>3 DEF KeysFit, OnTheSide
        <3>. QED BY <3>2, <3>4, <3>5, <3>6
    <2>2. CASE DeleteRow(r)
        <3>1. /\ rows' = rows \ {r}
              /\ key' = [e \in Exts |-> IF key[e] = r.id THEN None ELSE key[e]]
              /\ seen' = [seen EXCEPT !.moves = @ + 1,
                                      !.forgotten = @ \cup {e \in Exts : key[e] = r.id \/ e = r.ext}]
            BY <2>2 DEF DeleteRow
        <3>2. /\ seen'.rows = seen.rows /\ seen'.recorded = seen.recorded /\ seen.forgotten \subseteq seen'.forgotten
              /\ \A e \in Exts : key[e] = r.id => e \in seen'.forgotten
            BY <1>1, <3>1 DEF SeenFields
        <3>3. \A e \in Exts : key'[e] = IF key[e] = r.id THEN None ELSE key[e]
            BY <3>1
        <3>4. OnceKnown'
            BY <1>1, <3>2, <3>3 DEF OnceKnown
        <3>5. KeysFit'
            <4>1. None \in 0..seen.rows /\ \A t \in rows : t.id # None
                BY <1>1 DEF None, RowsKeyed
            <4>2. ASSUME NEW e \in Exts, NEW t \in rows', key'[e] = t.id
                  PROVE  OnTheSide(t, e)
                BY <1>1, <3>1, <3>3, <4>1, <4>2 DEF KeysFit
            <4>3. \A e \in Exts : key'[e] \in 0..seen'.rows
                BY <1>1, <3>2, <3>3, <4>1 DEF KeysFit
            <4>. QED BY <1>1, <3>1, <4>2, <4>3 DEF KeysFit, OnTheSide
        <3>. QED BY <3>1, <3>2, <3>4, <3>5
    <2>. QED BY <2>1, <2>2
<1>3. ASSUME NEW t \in Syncs
      PROVE  DeedsOf(t)'
    <2>1. /\ sync'[t].pc = sync[t].pc /\ sync'[t].links = sync[t].links
          /\ sync'[t].found = sync[t].found /\ sync'[t].todo = sync[t].todo
        BY <1>1, OutdatedFits
    <2>2. DeedsOf(t)
        BY DEF OnceInv, DeedsFit
    <2>. QED BY <1>1, <1>2, <2>1, <2>2, DeedsLast
<1>4. DeedsFit'
    BY <1>3 DEF DeedsFit
<1>. QED BY <1>2, <1>4 DEF OnceInv

\* The credential, the consents, the provider and the clock.
LEMMA OnceWhileWaiting ==
    ASSUME LeftInv, OnceInv, \/ \E items \in Logins : Save(items)
                             \/ RemoveCredential \/ NextDay \/ UNCHANGED ofVars
                             \/ \E e \in Exts : Appear(e)
                             \/ \E a \in UNION Logins : Refuse(a) \/ Restore(a)
    PROVE  OnceInv'
<1>1. UNCHANGED <<rows, key, sync>> /\ DOMAIN seen = SeenFields
    BY DEF Save, RemoveCredential, NextDay, ofVars, Appear, Refuse, Restore, LeftInv, OpenFinanceTypes
<1>2. seen'.rows = seen.rows /\ seen'.recorded = seen.recorded /\ seen.forgotten \subseteq seen'.forgotten
    <2>1. \/ seen' = seen \/ seen' = [seen EXCEPT !.moves = @ + 1]
          \/ \E late : seen' = [seen EXCEPT !.late = late]
        BY DEF Save, RemoveCredential, NextDay, ofVars, Appear, Refuse, Restore, Outside
    <2>. QED BY <1>1, <2>1 DEF SeenFields
<1>3. ASSUME NEW t \in Syncs
      PROVE  DeedsOf(t)'
    <2>1. DeedsOf(t) /\ seen.rows \in Nat
        BY DEF OnceInv, DeedsFit, LeftInv, OpenFinanceTypes
    <2>. QED BY <1>1, <1>2, <2>1, DeedsLast
<1>4. OnceKnown' /\ KeysFit' /\ DeedsFit'
    BY <1>1, <1>2, <1>3 DEF OnceInv, OnceKnown, KeysFit, OnTheSide, DeedsFit
<1>. QED BY <1>4 DEF OnceInv

LEMMA OnceStarts == OpenFinanceInit => OnceInv
<1>1. SUFFICES ASSUME OpenFinanceInit
               PROVE  OnceInv
    OBVIOUS
<1>2. /\ \A r \in rows : r.id \in 1..Cardinality(rows) /\ r.day \in Nat
      /\ IsFiniteSet(rows)
    BY <1>1, OpenFinanceAssumption DEF OpenFinanceInit, Entry
<1>3. Cardinality(rows) \in Nat
    BY <1>2, FS_CardinalityType
<1>4. /\ seen.rows = Cardinality(rows) /\ seen.recorded = [e \in Exts |-> 0]
      /\ key = [e \in Exts |-> None] /\ \A s \in Syncs : sync[s].pc = "idle"
    BY <1>1 DEF OpenFinanceInit, IdleSync
<1>5. OnceKnown /\ DeedsFit
    BY <1>4 DEF OnceKnown, DeedsFit, DeedsOf
<1>6. KeysFit
    BY <1>2, <1>3, <1>4 DEF KeysFit, None
<1>. QED BY <1>5, <1>6 DEF OnceInv

\* The specification of the sync keeps it.
THEOREM OnceInvariant == OpenFinanceSpec => []OnceInv
<1>1. LeftInv /\ OnceInv /\ [OpenFinanceNext]_ofVars => OnceInv'
    <2>1. SUFFICES ASSUME LeftInv, OnceInv, OpenFinanceNext \/ UNCHANGED ofVars
                   PROVE  OnceInv'
        OBVIOUS
    <2>2. ASSUME NEW s \in Syncs, SyncStep(s)
          PROVE  OnceInv'
        BY <2>1, <2>2, OnceWhileStarting, OnceWhileReading, OnceKept DEF SyncStep
    <2>3. ASSUME NEW r \in rows, EditRow(r) \/ DeleteRow(r)
          PROVE  OnceInv'
        BY <2>1, <2>3, OnceWhileUsed
    <2>. QED BY <2>1, <2>2, <2>3, OnceWhileWaiting DEF OpenFinanceNext
<1>. QED BY <1>1, OnceStarts, SyncInvariant, PTL DEF OpenFinanceSpec

\* A movement is recorded a second time only once its entry was deleted, for any
\* number of syncs, accounts and movements, whatever the matching ties them to
\* (RecordedTwiceOnlyIfDeleted, OpenFinance.tla).
THEOREM RecordedOnce == OpenFinanceSpec => []RecordedTwiceOnlyIfDeleted
<1>1. OnceInv => RecordedTwiceOnlyIfDeleted
    BY DEF OnceInv, OnceKnown, RecordedTwiceOnlyIfDeleted
<1>. QED BY <1>1, OnceInvariant, PTL

-----------------------------------------------------------------------------
(* OpenFinance: the halves of a transfer are merged.                          *)

\* An income or expense that is as a sync wrote it.
Kept(r) == r.by = "sync" /\ ~r.edited /\ r.type # "TRANSFER"
Opposite(e) == IF Remote[e].out THEN "INCOME" ELSE "EXPENSE"

\* It may be the other half of movement e, of the account a.
Opposes(r, e, a) == Kept(r) /\ r.type = Opposite(e) /\ r.accountId # a /\ r.day = Remote[e].day

\* A movement that will stand for itself has no other half that is not turned into
\* a transfer before its turn comes, unless somebody wrote since.
Planned(s) ==
    sync[s].pc = "write" /\ sync[s].fresh =>
        \A d \in sync[s].todo : d.act = "add" /\ d.ext \notin seen.torn =>
            \A r \in rows : Opposes(r, d.ext, Link(s)) =>
                \E o \in sync[s].todo : o.act = "convert" /\ o.row = r.id /\ Before(o.ext, d.ext)

RowsWritten == \A r \in rows : Kept(r) => r.amount = 1 /\ r.ext # None
HalvesInv == RowsWritten /\ HalvesOnlyByOverlap /\ \A s \in Syncs : Planned(s)

\* A finite set of numbers has a greatest.
LEMMA GreatestFound ==
    ASSUME NEW S \in SUBSET Int, IsFiniteSet(S), S # {}
    PROVE  \E x \in S : \A y \in S : x >= y
<1>. DEFINE Above(x) == {y \in S : y > x}
            rank == [x \in S |-> Cardinality(Above(x))]
<1>1. \A x \in S : IsFiniteSet(Above(x)) /\ Cardinality(Above(x)) \in Nat
    <2>1. \A x \in S : Above(x) \in SUBSET S
        OBVIOUS
    <2>. HIDE DEF Above
    <2>. QED BY <2>1, FS_Subset, FS_CardinalityType
<1>2. PICK x \in S : \A y \in S : rank[x] <= rank[y]
    <2>1. \A x \in S : rank[x] \in Nat
        BY <1>1
    <2>. HIDE DEF rank
    <2>. QED BY <2>1, LeastRanked
<1>3. ASSUME NEW y \in S, y > x
      PROVE  FALSE
    <2>1. Above(y) \in SUBSET Above(x) /\ y \in Above(x) /\ y \notin Above(y)
        <3>1. x \in Int /\ y \in Int /\ ~(y > y)
            OBVIOUS
        <3>2. \A z \in S : z > y => z > x
            <4>1. ASSUME NEW z \in S, z > y
                  PROVE  z > x
                <5>1. z \in Int
                    OBVIOUS
                <5>. QED BY <1>3, <3>1, <4>1, <5>1
            <4>. QED BY <4>1
        <3>. QED BY <1>3, <3>1, <3>2
    <2>2. /\ Cardinality(Above(y)) <= Cardinality(Above(x))
          /\ Cardinality(Above(x)) = Cardinality(Above(y)) => Above(x) = Above(y)
        BY <1>1, <2>1, FS_Subset
    <2>3. Cardinality(Above(x)) <= Cardinality(Above(y))
        BY <1>2
    <2>4. Above(x) # Above(y)
        BY <2>1
    <2>. HIDE DEF Above
    <2>. QED BY <1>1, <2>2, <2>3, <2>4
<1>. QED BY <1>3

\* An entry of the day of a movement that was found is looked at.
LEMMA SameDayNear ==
    ASSUME NEW found \in SUBSET Exts, NEW e \in found, NEW r, r.day = Remote[e].day
    PROVE  Near(r, found)
<1>. DEFINE days == {Remote[x].day : x \in found}
            f == [x \in found |-> Remote[x].day]
<1>1. days \in SUBSET Nat /\ r.day \in days
    BY RemoteFits
<1>2. IsFiniteSet(days)
    <2>1. IsFiniteSet(found)
        BY OpenFinanceAssumption, FS_Subset
    <2>2. f \in Surjection(found, days)
        BY DEF Surjection
    <2>. QED BY <2>1, <2>2, FS_Surjection
<1>. HIDE DEF days
<1>3. Min(days) \in days /\ Min(days) <= r.day
    <2>1. \E x \in days : \A y \in days : x <= y
        BY <1>1, LeastFound
    <2>. QED BY <1>1, <2>1 DEF Min
<1>4. Max(days) \in days /\ Max(days) >= r.day
    <2>1. days \in SUBSET Int
        BY <1>1
    <2>2. \E x \in days : \A y \in days : x >= y
        BY <1>1, <1>2, <2>1, GreatestFound
    <2>. QED BY <1>1, <2>2 DEF Max
<1>5. r.day >= Min(days) - ReconcileTxDays /\ r.day <= Max(days) + ReconcileTxDays
    <2>1. Min(days) \in Int /\ Max(days) \in Int /\ r.day \in Int
        <3>1. \A x \in days : x \in Int
            BY <1>1
        <3>. QED BY <1>1, <1>3, <1>4, <3>1
    <2>. QED BY <1>3, <1>4, <2>1 DEF ReconcileTxDays
<1>. QED BY <1>5 DEF Near, days

\* The other half of a movement that is not torn is turned into a transfer: by the
\* movement itself, or by one whose turn comes before.
LEMMA HalfPlanned ==
    ASSUME LeftInv, KeysFit, RowsWritten, NEW s \in Syncs, NEW e \in sync[s].found, ~Torn(s, e),
           NEW r \in rows, Opposes(r, e, Link(s)), Deed(e, Decisions(s)[e]).act = "add"
    PROVE  \E x \in sync[s].found : LET o == Deed(x, Decisions(s)[x])
                                    IN  o.ext = x /\ o.act = "convert" /\ o.row = r.id /\ Before(x, e)
<1>. DEFINE found == sync[s].found
            lines == {Line(x) : x \in found}
            txs == ReadNear(Unbound, found)
            cps == ReadNear(Counterparts, found)
            line == Line(e)
            half == Candidate(r)
<1>1. /\ found \in SUBSET Exts /\ Statement(lines) /\ \A x \in found : Line(x).id = x
      /\ Books(txs, {}, cps)
      /\ Decisions(s) = MatchImportRows(lines, txs, {}, cps, Link(s), None, "link-existing")
    BY StatementRead
<1>2. \A c \in txs : \E t \in Unbound : c = Candidate(t)
    BY DEF ReadNear
<1>3. \A c \in cps : \E t \in Counterparts : c = Candidate(t)
    BY DEF ReadNear
<1>4. \A t : /\ Candidate(t).id = t.id /\ Candidate(t).type = t.type /\ Candidate(t).accountId = t.accountId
             /\ Candidate(t).amount = t.amount /\ Candidate(t).day = t.day /\ Candidate(t).ofBill = FALSE
             /\ t.type = "TRANSFER" => Candidate(t).linked = TRUE
    BY DEF Candidate
<1>5. /\ Unbound \subseteq rows /\ Counterparts \subseteq rows /\ r.id \in Nat
      /\ \A t, u \in rows : t.id = u.id => t = u
    BY DEF Unbound, Counterparts, LeftInv, RowsKeyed, OpenFinanceTypes
<1>6. FreeOfBills(txs)
    <2>. HIDE DEF txs
    <2>. QED BY <1>2, <1>4 DEF FreeOfBills
<1>7. r \in Counterparts /\ half \in cps
    <2>1. r \in Counterparts
        BY DEF Opposes, Kept, Counterparts
    <2>2. Near(r, found)
        BY <1>1, SameDayNear DEF Opposes
    <2>. QED BY <2>1, <2>2 DEF ReadNear
<1>8. CounterpartyFits(line, half, Link(s))
    <2>1. /\ r.amount = 1 /\ r.day = Remote[e].day /\ r.accountId # Link(s)
          /\ r.type = IF Remote[e].out THEN "INCOME" ELSE "EXPENSE"
        BY DEF Opposes, Opposite, RowsWritten
    <2>2. line.amount = 1 /\ line.day = Remote[e].day /\ line.out = Remote[e].out /\ Remote[e].day \in Nat
        BY <1>1, RemoteFits DEF Line
    <2>. HIDE DEF half, line
    <2>3. half.amount = 1 /\ half.day = Remote[e].day /\ half.accountId # Link(s) /\ half.type = r.type
        BY <1>4, <2>1 DEF half
    <2>4. Distance(half.day, line.day) <= ReconcileTxDays
        BY <2>2, <2>3 DEF Distance, ReconcileTxDays
    <2>. QED BY <2>1, <2>2, <2>3, <2>4 DEF CounterpartyFits, SameAmountAndDays
<1>. HIDE DEF lines, txs, cps, half, line
<1>9. \A c \in txs : ~MirrorFits(line, c, Link(s))
    BY <1>2 DEF Torn, line
<1>10. \A b, c \in cps : CounterpartyFits(line, b, Link(s)) /\ CounterpartyFits(line, c, Link(s))
                         => b.accountId = c.accountId
    BY <1>3, <1>4 DEF Torn, Fit, line
<1>11. ASSUME NEW b \in txs, NEW c \in cps, TransactionFits(line, b, Link(s)), CounterpartyFits(line, c, Link(s)),
              b.id = c.id
       PROVE  FALSE
    <2>1. PICK t \in rows : b = Candidate(t)
        BY <1>2, <1>5
    <2>2. PICK u \in rows : c = Candidate(u)
        BY <1>3, <1>5
    <2>3. b = c
        BY <1>4, <1>5, <1>11, <2>1, <2>2
    <2>. QED BY <1>11, <2>3 DEF TransactionFits, CounterpartyFits
<1>12. Decisions(s)[e].suggestedAction # "RECORD_TRANSFER"
    BY DEF Deed
<1>13. line \in lines /\ line.id = e
    BY <1>1 DEF line, lines
<1>14. PICK l \in lines : StatementBefore(l, line) /\ <<"tx", half.id>> \in Claims(Decisions(s)[l.id])
    BY <1>1, <1>6, <1>7, <1>8, <1>9, <1>10, <1>11, <1>12, <1>13, HalfClaimed
<1>15. PICK x \in found : l = Line(x) /\ l.id = x
    BY <1>1 DEF lines
<1>16. Before(x, e)
    BY <1>1, <1>14, <1>15 DEF StatementBefore, Before, Line, line
<1>. DEFINE decision == Decisions(s)[x]
<1>17. Resolved(decision, Line(x), txs, {}, cps, Link(s)) /\ <<"tx", r.id>> \in Claims(decision)
    BY <1>4, <1>14, <1>15, DecisionsFit DEF txs, cps, half
<1>. HIDE DEF decision
<1>18. PICK k : /\ decision.matches = {k} /\ Fitting(Line(x), k, txs, {}, cps, Link(s))
                /\ \/ k.kind = "BILL" /\ decision.suggestedAction = "PAY_BILL"
                   \/ k.kind = "OWN_TRANSFER" /\ decision.suggestedAction = "RECORD_TRANSFER"
                   \/ k.kind = "TRANSFER_MIRROR" /\ decision.suggestedAction = "SKIP"
                   \/ k.kind = "TRANSACTION" /\ decision.suggestedAction = "LINK_TRANSACTION"
    BY <1>17 DEF Resolved, Claims
<1>19. ClaimKey(k) = <<"tx", r.id>>
    BY <1>17, <1>18 DEF Claims
<1>20. k.kind # "BILL" /\ k.id = r.id
    BY <1>19 DEF ClaimKey
<1>21. Bound(r)
    BY DEF Bound, RowsWritten, Opposes
<1>22. \A c \in txs : c.id # r.id
    <2>1. ASSUME NEW c \in txs, c.id = r.id
          PROVE  FALSE
        <3>1. PICK t \in Unbound : c = Candidate(t)
            BY <1>2
        <3>2. t = r
            BY <1>4, <1>5, <2>1, <3>1
        <3>. QED BY <1>21, <3>2 DEF Unbound
    <2>. QED BY <2>1
<1>23. k.kind # "TRANSACTION" /\ k.kind # "TRANSFER_MIRROR"
    BY <1>18, <1>20, <1>22 DEF Fitting
<1>24. decision.suggestedAction = "RECORD_TRANSFER"
    BY <1>18, <1>20, <1>23
<1>25. (CHOOSE m \in decision.matches : TRUE).id = r.id
    BY <1>18, <1>20
<1>26. LET o == Deed(x, decision) IN o.ext = x /\ o.act = "convert" /\ o.row = r.id
    BY <1>24, <1>25 DEF Deed
<1>. QED BY <1>15, <1>16, <1>26 DEF decision

\* A step that leaves the entries alone, and one sync's record apart all the others.
LEMMA HalvesStand ==
    ASSUME HalvesInv, NEW s, rows' = rows, seen.torn \subseteq seen'.torn,
           \A t \in Syncs : t # s => sync'[t] = sync[t], s \in Syncs => Planned(s)'
    PROVE  HalvesInv'
<1>1. RowsWritten' /\ HalvesOnlyByOverlap'
    BY DEF HalvesInv, RowsWritten, Kept, HalvesOnlyByOverlap
<1>2. ASSUME NEW t \in Syncs, t # s
      PROVE  Planned(t)'
    <2>1. sync'[t] = sync[t] /\ Link(t)' = Link(t) /\ Planned(t)
        BY <1>2 DEF Link, HalvesInv
    <2>. QED BY <2>1 DEF Planned, Opposes, Kept, Opposite, Before
<1>. QED BY <1>1, <1>2 DEF HalvesInv

\* The steps of a sync that neither decides nor writes.
LEMMA HalvesWhileReading ==
    ASSUME LeftInv, HalvesInv, NEW s \in Syncs,
           \/ \E maps : SyncStart(s, maps)
           \/ ReadAccounts(s) \/ Fetch(s) \/ FetchFails(s) \/ SyncFails(s) \/ Finish(s)
           \/ \E d \in Due(s) : WriteRefused(s, d)
    PROVE  HalvesInv'
<1>1. /\ OpenFinanceTypes /\ SyncFits(sync[s]) /\ DOMAIN seen = SeenFields /\ rows' = rows
      /\ IdleSync.pc = "idle" /\ NextLink(sync[s]).pc = "fetch"
    BY NextLinkFits, IdleSyncFits
       DEF SyncStart, ReadAccounts, Fetch, FetchFails, SyncFails, Finish, WriteRefused, LeftInv, OpenFinanceTypes
<1>2. seen.torn \subseteq seen'.torn
    <2>1. \/ seen' = seen \/ seen' = [seen EXCEPT !.moves = @ + 1]
          \/ seen' = [seen EXCEPT !.passed = @ \cup (Accounts \ sync[s].did), !.late = @ \cup BeforeTheYear(s)]
        BY DEF SyncStart, ReadAccounts, Fetch, FetchFails, SyncFails, Finish, WriteRefused, Outside
    <2>. QED BY <1>1, <2>1 DEF SeenFields
<1>3. \E q : sync' = [sync EXCEPT ![s] = q] /\ q.pc # "write"
    <2>1. CASE \E maps : SyncStart(s, maps)
        <3> DEFINE q == [IdleSync EXCEPT !.pc = "reading", !.id = cred.id, !.last = cred.last, !.items = cred.items]
        <3>1. sync' = [sync EXCEPT ![s] = q] /\ q.pc = "reading"
            BY <2>1 DEF SyncStart, IdleSync
        <3>. QED BY <3>1
    <2>2. CASE ReadAccounts(s)
        <3> DEFINE links == (sync[s].items \ refused) \cap mapped
                   q == [sync[s] EXCEPT !.pc = "fetch", !.links = links, !.did = links]
        <3>1. sync' = [sync EXCEPT ![s] = q] /\ q.pc = "fetch"
            BY <1>1, <2>2 DEF ReadAccounts, SyncFits, SyncFields
        <3>. QED BY <3>1
    <2>3. CASE Fetch(s)
        <3> DEFINE unknown == {e \in appeared : /\ Remote[e].account = Link(s) /\ ~Known(e)
                                                /\ Remote[e].day >= RangeFrom(sync[s].last)}
                   p == [sync[s] EXCEPT !.pc = "decide", !.found = unknown]
        <3>1. sync' = [sync EXCEPT ![s] = IF unknown = {} THEN NextLink(sync[s]) ELSE p]
            BY <2>3 DEF Fetch
        <3>2. p.pc = "decide"
            BY <1>1 DEF SyncFits, SyncFields
        <3> HIDE DEF unknown, p
        <3>3. CASE unknown = {}
            BY <1>1, <3>1, <3>3
        <3>4. CASE unknown # {}
            BY <3>1, <3>2, <3>4
        <3>. QED BY <3>3, <3>4
    <2>4. CASE FetchFails(s)
        <3> DEFINE p == [sync[s] EXCEPT !.pc = "reading", !.attempt = @ + 1]
        <3>1. sync' = [sync EXCEPT ![s] = IF sync[s].attempt < Attempts THEN p ELSE IdleSync]
            BY <2>4 DEF FetchFails
        <3>2. p.pc = "reading"
            BY <1>1 DEF SyncFits, SyncFields
        <3> HIDE DEF p
        <3>3. CASE sync[s].attempt < Attempts
            BY <3>1, <3>2, <3>3
        <3>4. CASE ~(sync[s].attempt < Attempts)
            BY <1>1, <3>1, <3>4
        <3>. QED BY <3>3, <3>4
    <2>5. CASE SyncFails(s) \/ Finish(s) \/ \E d \in Due(s) : WriteRefused(s, d)
        <3>1. sync' = [sync EXCEPT ![s] = IdleSync]
            BY <2>5 DEF SyncFails, Finish, WriteRefused
        <3>. QED BY <1>1, <3>1
    <2>. QED BY <2>1, <2>2, <2>3, <2>4, <2>5
<1>4. sync'[s].pc # "write" /\ \A t \in Syncs : t # s => sync'[t] = sync[t]
    BY <1>1, <1>3 DEF OpenFinanceTypes
<1>5. Planned(s)'
    BY <1>4 DEF Planned
<1>. QED BY <1>1, <1>2, <1>4, <1>5, HalvesStand

\* What is decided turns the other halves into transfers first.
LEMMA HalvesWhileDeciding ==
    ASSUME LeftInv, OnceInv, HalvesInv, NEW s \in Syncs, Decide(s)
    PROVE  HalvesInv'
<1> DEFINE found == sync[s].found
           todo == {Deed(e, Decisions(s)[e]) : e \in found}
           p == [sync[s] EXCEPT !.pc = "write", !.fresh = TRUE, !.todo = todo]
           torn == {e \in found : Torn(s, e)}
<1>1. /\ OpenFinanceTypes /\ SyncFits(sync[s]) /\ DOMAIN seen = SeenFields /\ rows' = rows
      /\ sync' = [sync EXCEPT ![s] = p] /\ seen' = [seen EXCEPT !.torn = @ \cup torn]
      /\ KeysFit /\ RowsWritten
    BY DEF Decide, LeftInv, OpenFinanceTypes, OnceInv, HalvesInv
<1>2. seen'.torn = seen.torn \cup torn
    BY <1>1 DEF SeenFields
<1>3. p.todo = todo /\ p.links = sync[s].links
    BY <1>1 DEF SyncFits, SyncFields
<1> HIDE DEF p
<1>4. sync'[s] = p /\ \A t \in Syncs : t # s => sync'[t] = sync[t]
    BY <1>1 DEF OpenFinanceTypes
<1>5. ASSUME NEW d \in todo, d.act = "add", d.ext \notin torn, NEW r \in rows, Opposes(r, d.ext, Link(s))
      PROVE  \E o \in todo : o.act = "convert" /\ o.row = r.id /\ Before(o.ext, d.ext)
    <2>1. PICK e \in found : d = Deed(e, Decisions(s)[e])
        OBVIOUS
    <2>2. d.ext = e
        BY <2>1 DEF Deed
    <2>3. ~Torn(s, e)
        BY <1>5, <2>2
    <2>4. Opposes(r, e, Link(s)) /\ Deed(e, Decisions(s)[e]).act = "add"
        BY <1>5, <2>1, <2>2
    <2>5. PICK x \in found : LET o == Deed(x, Decisions(s)[x])
                             IN  o.ext = x /\ o.act = "convert" /\ o.row = r.id /\ Before(x, e)
        BY <1>1, <2>3, <2>4, HalfPlanned
    <2>6. Deed(x, Decisions(s)[x]) \in todo
        OBVIOUS
    <2> HIDE DEF todo
    <2>. QED BY <2>2, <2>5, <2>6
<1> HIDE DEF todo, torn
<1>6. Link(s)' = Link(s)
    BY <1>3, <1>4 DEF Link
<1>7. Planned(s)'
    BY <1>1, <1>2, <1>3, <1>4, <1>5, <1>6 DEF Planned, Opposes, Kept, Opposite, Before
<1>. QED BY <1>1, <1>2, <1>4, <1>7, HalvesStand

\* Whoever else is writing has listed the entries too early.
LEMMA OthersOutdated ==
    ASSUME OpenFinanceTypes, NEW except, NEW t \in Syncs, t # except
    PROVE  Outdated(except)[t].fresh = FALSE
<1>1. Outdated(except)[t] = [sync[t] EXCEPT !.fresh = FALSE]
    BY DEF Outdated
<1>. QED BY <1>1 DEF OpenFinanceTypes, SyncFits, SyncFields

\* When the turn of a movement that will stand for itself comes, the books hold no
\* other half of it.
LEMMA NoHalfLeft ==
    ASSUME LeftInv, HalvesInv, NEW s \in Syncs, NEW d \in Due(s), sync[s].pc = "write", sync[s].fresh,
           d.act = "add", d.ext \notin seen.torn, NEW r \in rows, Opposes(r, d.ext, Link(s))
    PROVE  FALSE
<1>1. d \in sync[s].todo /\ \A o \in sync[s].todo \ {d} : Before(d.ext, o.ext)
    BY DEF Due
<1>2. PICK o \in sync[s].todo : o.act = "convert" /\ Before(o.ext, d.ext)
    BY <1>1 DEF HalvesInv, Planned
<1>3. Before(d.ext, o.ext)
    BY <1>1, <1>2
<1>4. d.ext \in Exts /\ o.ext \in Exts
    BY <1>1 DEF LeftInv, OpenFinanceTypes, SyncFits
<1>5. /\ Remote[d.ext].day \in Nat /\ Remote[o.ext].day \in Nat /\ d.ext \in Nat /\ o.ext \in Nat
    BY <1>4, RemoteFits, OpenFinanceAssumption
<1>. QED BY <1>2, <1>3, <1>5 DEF Before

\* What a deed leaves of the entries, and what it adds.
LEMMA DeedLeaves ==
    ASSUME LeftInv, NEW s \in Syncs, NEW d \in Due(s), Write(s, d)
    PROVE  /\ seen'.torn = seen.torn
           /\ \A r \in rows' : \/ r \in rows /\ (d.act = "convert" => r.id # d.row)
                               \/ r.type = "TRANSFER"
                               \/ r = Added(s, d) /\ d.act = "add"
<1>1. /\ DOMAIN seen = SeenFields /\ \A r, t \in rows : r.id = t.id => r = t
    BY DEF LeftInv, OpenFinanceTypes, RowsKeyed
<1>2. CASE d.act = "add"
    <2>1. /\ rows' = rows \cup {Added(s, d)}
          /\ seen' = [[seen EXCEPT !.recorded[d.ext] = @ + 1] EXCEPT !.rows = NewId]
        BY <1>2 DEF Write
    <2>. QED BY <1>1, <1>2, <2>1 DEF SeenFields
<1>3. CASE d.act = "remember"
    <2>1. rows' = rows /\ seen' = [seen EXCEPT !.recorded[d.ext] = @ + 1]
        BY <1>3 DEF Write
    <2>. QED BY <1>1, <1>3, <2>1 DEF SeenFields
<1>4. CASE d.act = "convert"
    <2>1. PICK old \in RowOf(d.row) :
              /\ rows' = (rows \ {old}) \cup {Converted(s, d, old)}
              /\ seen' = [[seen EXCEPT !.recorded[d.ext] = @ + 1] EXCEPT !.rows = NewId]
        BY <1>4 DEF Write
    <2>2. old \in rows /\ old.id = d.row
        BY <2>1 DEF RowOf
    <2>3. Converted(s, d, old).type = "TRANSFER"
        BY DEF Converted, Added
    <2>4. seen'.torn = seen.torn
        BY <1>1, <2>1 DEF SeenFields
    <2>. QED BY <1>1, <2>1, <2>2, <2>3, <2>4
<1>. QED BY <1>2, <1>3, <1>4 DEF Write

\* A new entry has no other half in the books, but for an excuse.
LEMMA HalvesAdded ==
    ASSUME LeftInv, HalvesInv, NEW s \in Syncs, NEW d \in Due(s), d.act = "add", sync[s].pc = "write",
           NEW r \in rows, r.by = "sync", r.type = Opposite(d.ext), r.accountId # Link(s),
           r.day = Remote[d.ext].day
    PROVE  r.edited \/ Added(s, d).stale \/ d.ext \in seen.torn
<1>1. CASE sync[s].fresh
    <2>1. r.type # "TRANSFER"
        BY DEF Opposite
    <2>2. ASSUME ~r.edited, d.ext \notin seen.torn
          PROVE  FALSE
        <3>1. Opposes(r, d.ext, Link(s))
            BY Zenon, <2>1, <2>2 DEF Opposes, Kept
        <3>. QED BY <1>1, <2>2, <3>1, NoHalfLeft
    <2>. QED BY <2>2
<1>2. CASE ~sync[s].fresh
    <2>1. Added(s, d).stale = (~sync[s].fresh)
        BY DEF Added
    <2>2. Added(s, d).stale
        BY Zenon, <1>2, <2>1
    <2>. QED BY <2>2
<1>. QED BY <1>1, <1>2

LEMMA HalvesWhileWriting ==
    ASSUME LeftInv, HalvesInv, NEW s \in Syncs, NEW d \in Due(s), Write(s, d)
    PROVE  HalvesInv'
<1> DEFINE rest == sync[s].todo \ {d}
           p == [sync[s] EXCEPT !.todo = rest]
           q == IF rest = {} THEN NextLink(sync[s]) ELSE p
           others == Outdated(s)
           new == Added(s, d)
<1>1. /\ OpenFinanceTypes /\ SyncFits(sync[s]) /\ sync[s].pc = "write" /\ d.ext \in Exts /\ d.ext # None
      /\ seen'.torn = seen.torn
      /\ \A r \in rows' : \/ r \in rows /\ (d.act = "convert" => r.id # d.row)
                          \/ r.type = "TRANSFER"
                          \/ r = new /\ d.act = "add"
    BY DeedLeaves, RemoteFits DEF Write, LeftInv, OpenFinanceTypes, SyncFits, Due
<1>2. /\ new.type = (IF Remote[d.ext].out THEN "EXPENSE" ELSE "INCOME") /\ new.accountId = Link(s)
      /\ new.amount = 1 /\ new.day = Remote[d.ext].day /\ new.ext = d.ext
    BY DEF Added
<1> HIDE DEF new
<1>3. RowsWritten'
    BY <1>1, <1>2 DEF HalvesInv, RowsWritten, Kept
<1>4. HalvesOnlyByOverlap'
    <2>1. SUFFICES ASSUME NEW r \in rows', NEW t \in rows', r.by = "sync", t.by = "sync",
                          r.type = "EXPENSE", t.type = "INCOME", r.accountId # t.accountId, r.day = t.day
                   PROVE  r.edited \/ t.edited \/ r.stale \/ t.stale \/ {r.ext, t.ext} \cap seen.torn # {}
        BY <1>1 DEF HalvesOnlyByOverlap
    <2>2. CASE r \in rows /\ t \in rows
        BY <2>1, <2>2 DEF HalvesInv, HalvesOnlyByOverlap
    <2>3. CASE r = new /\ t \in rows /\ d.act = "add"
        <3>1. t.type = Opposite(d.ext) /\ t.accountId # Link(s) /\ t.day = Remote[d.ext].day
            BY <1>2, <2>1, <2>3 DEF Opposite
        <3>2. t.edited \/ new.stale \/ d.ext \in seen.torn
            BY <1>1, <2>1, <2>3, <3>1, HalvesAdded DEF new
        <3>. QED BY <1>2, <2>3, <3>2
    <2>4. CASE t = new /\ r \in rows /\ d.act = "add"
        <3>1. r.type = Opposite(d.ext) /\ r.accountId # Link(s) /\ r.day = Remote[d.ext].day
            BY <1>2, <2>1, <2>4 DEF Opposite
        <3>2. r.edited \/ new.stale \/ d.ext \in seen.torn
            BY <1>1, <2>1, <2>4, <3>1, HalvesAdded DEF new
        <3>. QED BY <1>2, <2>4, <3>2
    <2>5. ~(r = new /\ t = new)
        BY <2>1
    <2>. QED BY <1>1, <2>1, <2>2, <2>3, <2>4, <2>5
<1>5. /\ others = [t \in Syncs |-> others[t]] /\ others[s] = sync[s]
      /\ \A t \in Syncs : t # s => others[t].fresh = FALSE
    BY <1>1, OutdatedFits, OthersOutdated
<1> HIDE DEF others
<1>6. sync' = [others EXCEPT ![s] = q]
    BY <1>5 DEF Write, others
<1>7. sync'[s] = q /\ \A t \in Syncs : t # s => sync'[t] = others[t]
    BY <1>5, <1>6
<1>8. ASSUME NEW t \in Syncs, t # s
      PROVE  Planned(t)'
    <2>1. sync'[t].fresh = FALSE
        BY <1>5, <1>7, <1>8
    <2>2. ~sync'[t].fresh
        BY Zenon, <2>1
    <2>. QED BY <2>2 DEF Planned
<1>9. Planned(s)'
    <2>1. CASE rest = {}
        <3>1. sync'[s].pc = "fetch"
            BY <1>1, <1>7, <2>1, NextLinkFits
        <3>. QED BY <3>1 DEF Planned
    <2>2. CASE rest # {}
        <3>1. sync'[s] = p
            BY <1>7, <2>2
        <3>2. p.pc = sync[s].pc /\ p.links = sync[s].links /\ p.todo = rest /\ p.fresh = sync[s].fresh
            BY <1>1 DEF SyncFits, SyncFields
        <3> HIDE DEF p
        <3>3. Link(s)' = Link(s)
            BY <3>1, <3>2 DEF Link
        <3>4. ASSUME sync[s].fresh, NEW x \in rest, x.act = "add", x.ext \notin seen.torn,
                     NEW r \in rows', Opposes(r, x.ext, Link(s))
              PROVE  \E o \in rest : o.act = "convert" /\ o.row = r.id /\ Before(o.ext, x.ext)
            <4>1. r \in rows /\ (d.act = "convert" => r.id # d.row)
                BY <1>1, <1>2, <3>4 DEF Opposes, Kept
            <4>2. PICK o \in sync[s].todo : o.act = "convert" /\ o.row = r.id /\ Before(o.ext, x.ext)
                BY <1>1, <3>4, <4>1 DEF HalvesInv, Planned
            <4>3. o # d
                BY <4>1, <4>2
            <4>. QED BY <4>2, <4>3
        <3> HIDE DEF rest
        <3>. QED BY <1>1, <3>1, <3>2, <3>3, <3>4 DEF Planned, Opposes, Kept, Opposite, Before
    <2>. QED BY <2>1, <2>2
<1>. QED BY <1>3, <1>4, <1>8, <1>9 DEF HalvesInv

\* A person edits or deletes an entry: no sync's list is true any more.
LEMMA HalvesWhileUsed ==
    ASSUME LeftInv, HalvesInv, NEW r \in rows, EditRow(r) \/ DeleteRow(r)
    PROVE  HalvesInv'
<1>1. /\ OpenFinanceTypes /\ RowsKeyed /\ sync' = Outdated(None) /\ DOMAIN seen = SeenFields
    BY DEF EditRow, DeleteRow, LeftInv, OpenFinanceTypes
<1>2. seen'.torn = seen.torn /\ \A t \in rows' : t \in rows \/ t.edited
    <2>1. CASE EditRow(r)
        <3> DEFINE new == [r EXCEPT !.amount = 2, !.ext = None, !.edited = TRUE]
        <3>1. rows' = (rows \ {r}) \cup {new} /\ seen' = [seen EXCEPT !.moves = @ + 1]
            BY <2>1 DEF EditRow, Outside
        <3>2. new.edited = TRUE
            BY <1>1 DEF RowsKeyed, RowFields
        <3> HIDE DEF new
        <3>3. new.edited
            BY Zenon, <3>2
        <3>. QED BY <1>1, <3>1, <3>3 DEF SeenFields
    <2>2. CASE DeleteRow(r)
        <3>1. /\ rows' = rows \ {r}
              /\ seen' = [seen EXCEPT !.moves = @ + 1,
                                      !.forgotten = @ \cup {e \in Exts : key[e] = r.id \/ e = r.ext}]
            BY <2>2 DEF DeleteRow
        <3>. QED BY <1>1, <3>1 DEF SeenFields
    <2>. QED BY <2>1, <2>2
<1>3. RowsWritten' /\ HalvesOnlyByOverlap'
    BY <1>2 DEF HalvesInv, RowsWritten, Kept, HalvesOnlyByOverlap
<1>4. ASSUME NEW t \in Syncs
      PROVE  Planned(t)'
    <2>1. t # None
        BY OpenFinanceAssumption
    <2>2. sync'[t].fresh = FALSE
        BY <1>1, <2>1, OthersOutdated
    <2>3. ~sync'[t].fresh
        BY Zenon, <2>2
    <2>. QED BY <2>3 DEF Planned
<1>. QED BY <1>3, <1>4 DEF HalvesInv

\* The credential, the consents, the provider and the clock.
LEMMA HalvesWhileWaiting ==
    ASSUME LeftInv, HalvesInv, \/ \E items \in Logins : Save(items)
                               \/ RemoveCredential \/ NextDay \/ UNCHANGED ofVars
                               \/ \E e \in Exts : Appear(e)
                               \/ \E a \in UNION Logins : Refuse(a) \/ Restore(a)
    PROVE  HalvesInv'
<1>1. UNCHANGED <<rows, sync>> /\ DOMAIN seen = SeenFields
    BY DEF Save, RemoveCredential, NextDay, ofVars, Appear, Refuse, Restore, LeftInv, OpenFinanceTypes
<1>2. seen'.torn = seen.torn
    <2>1. \/ seen' = seen \/ seen' = [seen EXCEPT !.moves = @ + 1]
          \/ \E late : seen' = [seen EXCEPT !.late = late]
        BY DEF Save, RemoveCredential, NextDay, ofVars, Appear, Refuse, Restore, Outside
    <2>. QED BY <1>1, <2>1 DEF SeenFields
<1>3. ASSUME NEW t \in Syncs
      PROVE  Planned(t)'
    BY <1>1, <1>2 DEF HalvesInv, Planned, Opposes, Kept, Opposite, Before, Link
<1>4. RowsWritten' /\ HalvesOnlyByOverlap'
    BY <1>1, <1>2 DEF HalvesInv, RowsWritten, Kept, HalvesOnlyByOverlap
<1>. QED BY <1>3, <1>4 DEF HalvesInv

\* The halves of a transfer between the person's accounts are merged, for any number
\* of accounts, movements and syncs, unless one was edited, written by a sync whose
\* list was outdated, or torn between several transfers (HalvesOnlyByOverlap,
\* OpenFinance.tla).
THEOREM HalvesMerged == OpenFinanceSpec => []HalvesOnlyByOverlap
<1>1. OpenFinanceInit => HalvesInv
    <2>1. SUFFICES ASSUME OpenFinanceInit
                   PROVE  HalvesInv
        OBVIOUS
    <2>2. \A s \in Syncs : sync[s].pc = "idle"
        BY <2>1 DEF OpenFinanceInit, IdleSync
    <2>3. \A r \in rows : r.by = "seed"
        BY <2>1, OpenFinanceAssumption DEF OpenFinanceInit
    <2>4. RowsWritten /\ HalvesOnlyByOverlap
        BY <2>3 DEF RowsWritten, Kept, HalvesOnlyByOverlap
    <2>5. \A s \in Syncs : Planned(s)
        BY <2>2 DEF Planned
    <2>. QED BY <2>4, <2>5 DEF HalvesInv
<1>2. LeftInv /\ OnceInv /\ HalvesInv /\ [OpenFinanceNext]_ofVars => HalvesInv'
    <2>1. SUFFICES ASSUME LeftInv, OnceInv, HalvesInv, OpenFinanceNext \/ UNCHANGED ofVars
                   PROVE  HalvesInv'
        OBVIOUS
    <2>2. ASSUME NEW s \in Syncs, SyncStep(s)
          PROVE  HalvesInv'
        BY <2>1, <2>2, HalvesWhileReading, HalvesWhileDeciding, HalvesWhileWriting DEF SyncStep
    <2>3. ASSUME NEW r \in rows, EditRow(r) \/ DeleteRow(r)
          PROVE  HalvesInv'
        BY <2>1, <2>3, HalvesWhileUsed
    <2>. QED BY <2>1, <2>2, <2>3, HalvesWhileWaiting DEF OpenFinanceNext
<1>3. HalvesInv => HalvesOnlyByOverlap
    BY DEF HalvesInv
<1>. QED BY <1>1, <1>2, <1>3, SyncInvariant, OnceInvariant, PTL DEF OpenFinanceSpec
=============================================================================
