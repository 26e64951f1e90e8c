-------------------------------- MODULE Audit --------------------------------
(***************************************************************************)
(* The trail of who changed what (packages/database/src/audit.ts). A client *)
(* extension wraps every create, update and delete of an audited model: it  *)
(* loads the row before the write, lets the write through and then inserts  *)
(* the entry. The write belongs to the caller's transaction, if there is    *)
(* one; the load and the entry go through the base client, that is, another *)
(* connection and a transaction of their own. Connections come from a pool. *)
(***************************************************************************)
EXTENDS Integers, Sequences, FiniteSets

CONSTANTS
    Records,        \* rows of audited models
    Writers,        \* requests and jobs at work
    Handlers,       \* what they write: [tx : BOOLEAN, writes : Seq([on, op, also])]
    Connections,    \* size of the pool
    MaxWrites       \* bound on the versions of a row

\* "many": an upsert, or a create, update or delete of many rows at once.
Ops == {"create", "update", "delete", "many"}

\* also: the rows that change with the one that is written, whose foreign keys the
\* database sets to null or cascades over, or which the write creates nested in it.
Writes == [on : Records, op : Ops, also : SUBSET Records]

ASSUME AuditAssumption ==
    /\ Connections \in Nat \ {0} /\ MaxWrites \in Nat
    /\ \A h \in Handlers : h.tx \in BOOLEAN /\ h.writes \in Seq(Writes) \ {<< >>}

VARIABLES
    stored,     \* record -> the version that is committed
    told,       \* record -> the version its latest entry describes
    writer,     \* requests and jobs at work
    clock,      \* the last version given to a write
    spoiled,    \* history: record -> why its entries may not tell
    torn        \* history: records whose entries do not chain

auditVars == <<stored, told, writer, clock, spoiled, torn>>

-----------------------------------------------------------------------------
NotWritten == -1
NoWriter == [pc |-> "idle"]

\* view: what the open transaction wrote; none of it is visible to the base client.
Starting(h) ==
    [pc |-> IF h.tx THEN "begin" ELSE "load", tx |-> h.tx, open |-> FALSE, todo |-> h.writes,
     view |-> [x \in Records |-> NotWritten], before |-> 0, made |-> 0, off |-> FALSE,
     logged |-> {}]

AuditInit ==
    /\ stored = [x \in Records |-> 0] /\ told = [x \in Records |-> 0]
    /\ writer = [w \in Writers |-> NoWriter]
    /\ clock = 0
    /\ spoiled = [x \in Records |-> {}] /\ torn = {}

Pc(w) == writer[w].pc
Busy(w) == Pc(w) # "idle"
Op(w) == Head(writer[w].todo)
Touched(w) == {Op(w).on} \cup Op(w).also
Holds(w) == Busy(w) /\ writer[w].open
FreeConnection == Cardinality({w \in Writers : Holds(w)}) < Connections

\* Fault: WRITE_OPS forgets the deletions.
ChangesOnly(op) == op \in {"create", "update"}

\* captureAuditWrite: the operations it records, and those it loads the row for. It
\* sees the row that the operation names and no other.
Captured(op) == op \in {"create", "update", "delete"}
Loads(op) == op \in {"update", "delete"}
Unseen(w) == Op(w).also \cup {x \in {Op(w).on} : Op(w).op = "many"}

\* A row that another open transaction wrote is locked until it ends.
Unlocked(w, x) == \A v \in Writers \ {w} : Holds(v) => writer[v].view[x] = NotWritten

\* Entries of x that are still to be inserted after a write the base client can see.
Outstanding(x, w) == {v \in Writers \ {w} : Pc(v) = "entry" /\ ~writer[v].open /\ Op(v).on = x}

Spoil(X, why) == spoiled' = [x \in Records |-> IF x \in X THEN spoiled[x] \cup {why} ELSE spoiled[x]]

\* The next write of the handler, or its end.
Onward(r) ==
    LET rest == Tail(r.todo) IN
    IF rest # << >> THEN [r EXCEPT !.pc = "load", !.todo = rest, !.off = FALSE]
    ELSE IF r.tx THEN [r EXCEPT !.pc = "commit", !.todo = rest] ELSE NoWriter

\* A commit of x is seen by those who loaded x and have not written it yet.
Outdated(X, w) ==
    [v \in Writers |-> IF v # w /\ Pc(v) = "write" /\ Op(v).on \in X
                       THEN [writer[v] EXCEPT !.off = TRUE] ELSE writer[v]]

-----------------------------------------------------------------------------
AuditStart(w, h) ==
    /\ ~Busy(w)
    /\ writer' = [writer EXCEPT ![w] = Starting(h)]
    /\ UNCHANGED <<stored, told, clock, spoiled, torn>>

\* $transaction takes a connection and keeps it.
Begin(w) ==
    /\ Pc(w) = "begin" /\ FreeConnection
    /\ writer' = [writer EXCEPT ![w].pc = "load", ![w].open = TRUE]
    /\ UNCHANGED <<stored, told, clock, spoiled, torn>>

\* loadBefore: the base client sees what is committed.
Loaded(w, version) == writer[w].before

LoadBefore(w) ==
    /\ Pc(w) = "load"
    /\ Loads(Op(w).op) => FreeConnection
    /\ writer' = [writer EXCEPT ![w].pc = "write", ![w].before = stored[Op(w).on]]
    /\ UNCHANGED <<stored, told, clock, spoiled, torn>>

\* The versions of the records once those of X are written.
Given(f, X, new) == [x \in Records |-> IF x \in X THEN new ELSE f[x]]

\* query: in the transaction, which may be over by now, or on its own.
Write(w) ==
    LET x == Op(w).on
        new == clock + 1
        r == [writer[w] EXCEPT !.made = new, !.before = Loaded(w, new),
                               !.off = @ \/ writer[w].view[x] # NotWritten] IN
    /\ Pc(w) = "write" /\ clock < MaxWrites /\ \A y \in Touched(w) : Unlocked(w, y)
    /\ IF writer[w].tx THEN writer[w].open ELSE FreeConnection
    /\ clock' = new
    /\ LET next == IF Captured(Op(w).op) THEN [r EXCEPT !.pc = "entry"] ELSE Onward(r) IN
       IF writer[w].tx
       THEN /\ writer' = [writer EXCEPT ![w] = [next EXCEPT !.view = Given(@, Touched(w), new)]]
            /\ UNCHANGED stored
       ELSE /\ writer' = [Outdated(Touched(w), w) EXCEPT ![w] = next]
            /\ stored' = Given(stored, Touched(w), new)
    /\ spoiled' = [y \in Records |->
          spoiled[y] \cup {why \in {"not captured"} : y \in Unseen(w)}
                     \cup {why \in {"entries crossed"} : y = x /\ Outstanding(x, w) # {}}]
    /\ UNCHANGED <<told, torn>>

\* The entry is committed at once, whatever becomes of the write.
WriteLog(w) ==
    LET x == Op(w).on
        r == [writer[w] EXCEPT !.logged = @ \cup {x}] IN
    /\ Pc(w) = "entry" /\ FreeConnection
    /\ told' = [told EXCEPT ![x] = writer[w].made]
    /\ torn' = IF Loads(Op(w).op) /\ writer[w].before # told[x] /\ ~writer[w].off
               THEN torn \cup {x} ELSE torn
    /\ writer' = [writer EXCEPT ![w] = Onward(r)]
    /\ IF writer[w].tx /\ ~writer[w].open THEN Spoil({x}, "rolled back") ELSE UNCHANGED spoiled
    /\ UNCHANGED <<stored, clock>>

\* The entry cannot be inserted (or the process stops): the caller sees an error.
LogFails(w) ==
    /\ Pc(w) = "entry"
    /\ writer' = [writer EXCEPT ![w] = NoWriter]
    /\ IF writer[w].tx THEN Spoil(writer[w].logged, "rolled back")
                       ELSE Spoil({Op(w).on}, "entry lost")
    /\ UNCHANGED <<stored, told, clock, torn>>

Commit(w) ==
    LET X == {x \in Records : writer[w].view[x] # NotWritten} IN
    /\ Pc(w) = "commit" /\ writer[w].open
    /\ stored' = [x \in Records |-> IF x \in X THEN writer[w].view[x] ELSE stored[x]]
    /\ writer' = [Outdated(X, w) EXCEPT ![w] = NoWriter]
    /\ UNCHANGED <<told, clock, spoiled, torn>>

\* The handler throws inside its transaction, or finds it closed.
Rollback(w) ==
    /\ Pc(w) \in {"load", "write", "commit"} /\ writer[w].tx
    /\ writer' = [writer EXCEPT ![w] = NoWriter]
    /\ Spoil(writer[w].logged, "rolled back")
    /\ UNCHANGED <<stored, told, clock, torn>>

\* An interactive transaction that takes too long, for instance because every
\* connection is held by one that waits for its entry, is rolled back under its
\* handler, which goes on until it uses the transaction again.
Expire(w) ==
    /\ Holds(w)
    /\ writer' = [writer EXCEPT ![w].open = FALSE, ![w].view = [x \in Records |-> NotWritten]]
    /\ Spoil(writer[w].logged, "rolled back")
    /\ UNCHANGED <<stored, told, clock, torn>>

AuditStep ==
    \E w \in Writers : \/ Begin(w) \/ LoadBefore(w) \/ Write(w) \/ WriteLog(w) \/ LogFails(w)
                       \/ Commit(w) \/ Rollback(w) \/ Expire(w)

-----------------------------------------------------------------------------
\* The latest entry of a record describes the record as it is, whatever requests
\* overlapped, except after one of four events: a transaction was rolled back after
\* its entries were inserted, an entry was lost after its write was committed, two
\* writes outside a transaction inserted their entries in the other order, or a write
\* was not captured at all: an upsert, an operation on many rows, a row created nested
\* in another or changed by the database through its foreign key.
LastEntryTells ==
    \A x \in Records :
        (\A w \in Writers : ~Busy(w)) /\ spoiled[x] = {} => told[x] = stored[x]

\* Two entries of a record chain: the state before a change is the state the entry
\* before it left, so the shown difference is what changed. It may fail only where
\* the latest entry itself may not tell, for the second write of a row in one
\* transaction, or when somebody committed the row between the load and the write.
DifferencesChain == \A x \in torn : spoiled[x] # {}

\* Read from its first entry to its last, the log of a record is its history, but for
\* the named events.
LogCanBeReplayed == LastEntryTells /\ DifferencesChain
=============================================================================
