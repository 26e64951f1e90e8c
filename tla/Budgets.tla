------------------------------- MODULE Budgets -------------------------------
(***************************************************************************)
(* Monthly budgets over the category tree (budgets.service.ts,              *)
(* budget-events.service.ts, budget-progress.ts) and the expenses that      *)
(* count towards them. Whoever writes an expense takes a snapshot of the    *)
(* status of every budget above it, writes, and then emits an event for     *)
(* each budget that went up to a worse status; nothing ties the three       *)
(* together, and the events live in the process only.                       *)
(*                                                                          *)
(* A budget is a series of versions with the months they are in force. No   *)
(* index keeps two of them from being open: progressFor takes any.          *)
(***************************************************************************)
EXTENDS Sequences, Functions, Categories, Notifications

CONSTANTS
    Slots,          \* places for expense rows
    LastMonth, Amounts, Limits, Spenders, Keepers,
    Open            \* effectiveTo of a version without an end

ASSUME BudgetsAssumption ==
    /\ LastMonth \in Nat \ {0} /\ Open \notin Nat
    /\ Amounts \subseteq Nat \ {0} /\ Limits \subseteq Nat \ {0}

VARIABLES
    month,      \* the current month
    expense,    \* rows of type EXPENSE: slot -> [cat, month, amount]
    version,    \* budgets
    spending,   \* requests that write expenses
    keeping,    \* requests on budgets
    alarms,     \* history: exceeded events of a budget and month since it was last not exceeded
    excused     \* history: budgets and months whose events an overlap or a silent path spoiled

spendVars == <<month, expense, version, spending, keeping, alarms, excused>>
budgetVars == <<categoryVars, spendVars>>

-----------------------------------------------------------------------------
Months == 1..LastMonth
Keys == Categories \X Months
Statuses == {"none", "on_track", "warning", "exceeded"}
NoRow == [cat |-> NoCategory, month |-> 0, amount |-> 0]

InForce(c, m) == {v \in version : v.cat = c /\ v.from <= m /\ (v.to = Open \/ v.to > m)}

Spent(c, m) ==
    SumFunctionOnSet([s \in Slots |-> expense[s].amount],
                     {s \in Slots : expense[s].cat \in Subtree(c) /\ expense[s].month = m})

\* budgetStatus: from 80 per cent on, and from the whole limit on
Status(v, m) ==
    IF Spent(v.cat, m) >= v.limit THEN "exceeded"
    ELSE IF 10 * Spent(v.cat, m) >= 8 * v.limit THEN "warning" ELSE "on_track"

\* progressFor: findFirst without an order picks any version in force.
StatusesOf(c, m) == IF InForce(c, m) = {} THEN {"none"} ELSE {Status(v, m) : v \in InForce(c, m)}
Readings(levels) == {f \in [levels -> Statuses] : \A k \in levels : f[k] \in StatusesOf(k[1], k[2])}

\* Fault: a budget that stays exceeded is announced again.
EmitsAgain(previous, current) == current \in {"warning", "exceeded"}

\* shouldEmitThreshold
ShouldEmit(previous, current) ==
    current \in {"warning", "exceeded"} /\ current # previous /\ previous # "exceeded"

\* Every version in force agrees that the month is over its limit.
Over(k) == InForce(k[1], k[2]) # {} /\ StatusesOf(k[1], k[2]) = {"exceeded"}

-----------------------------------------------------------------------------
\* new: the rows to be written; needs: the rows that must still be there; keys:
\* the categories and months that were looked at, each with what was above it
\* then; prev: the snapshot.
Waiting == [pc |-> "new", new |-> << >>, needs |-> {}, keys |-> << >>, prev |-> << >>, stale |-> FALSE]
Resting == [pc |-> "new", cat |-> NoCategory, old |-> {}, limit |-> 0, from |-> 0]

BudgetsInit ==
    /\ month = 1
    /\ expense = [s \in Slots |-> NoRow]
    /\ spending = [r \in Spenders |-> Waiting]
    /\ keeping = [r \in Keepers |-> Resting]
    /\ alarms = [k \in Keys |-> 0]
    /\ excused = {}

\* The crossings a spender will announce unless something changes.
Owed(r) == {k \in DOMAIN spending[r].prev : spending[r].prev[k] # "exceeded"}

\* Two versions in force in one month: only two replacements at once leave that.
Doubled(k) == Cardinality(InForce(k[1], k[2])) > 1

\* The histories after a step: owed are the crossings somebody will announce,
\* spoiled the announcements that rest on an outdated snapshot.
Recorded(owed, announced, spoiled) ==
    /\ alarms' = [k \in Keys |-> IF ~Over(k)' THEN 0
                                 ELSE IF k \in announced /\ alarms[k] < 2 THEN alarms[k] + 1 ELSE alarms[k]]
    /\ excused' = {k \in Keys : Over(k)' /\ (\/ k \in excused \cup spoiled \/ Doubled(k)'
                                             \/ ~Over(k) /\ k \notin owed)}

\* A step that announces nothing leaves what it changed without an announcement.
Silently == Recorded({}, {}, {})

\* A snapshot that somebody holds is out of date after a write.
Disturbed == [q \in Spenders |-> [spending[q] EXCEPT !.stale = spending[q].pc # "new"]]

-----------------------------------------------------------------------------
\* create, update, remove: the snapshot is read outside the transaction.
Snapshot(r, new, needs, looks) ==
    LET keys == [i \in DOMAIN looks |-> [cat |-> looks[i][1], month |-> looks[i][2],
                                        above |-> Ancestors(looks[i][1])]]
        levels == UNION {keys[i].above \X {keys[i].month} : i \in DOMAIN keys}
    IN
    /\ spending[r].pc = "new"
    /\ \E prev \in Readings(levels) :
          spending' = [spending EXCEPT ![r] = [Waiting EXCEPT !.pc = "writing", !.new = new, !.needs = needs,
                                                              !.keys = keys, !.prev = prev]]
    /\ UNCHANGED <<categoryVars, month, expense, version, keeping, alarms, excused>>

Vacant(s) == expense[s] = NoRow /\ \A q \in Spenders : s \notin DOMAIN spending[q].new
KeyOf(row) == IF row.cat = NoCategory THEN << >> ELSE <<<<row.cat, row.month>>>>
RowOn(c, m, a) == [cat |-> c, month |-> m, amount |-> a]
Rows(at, row) == [s \in at |-> row]

ExpenseCreate(r, s, c, m, a) ==
    /\ Vacant(s) /\ Live(c)
    /\ Snapshot(r, Rows({s}, RowOn(c, m, a)), {}, <<<<c, m>>>>)

\* update looks at the key the row leaves and at the one it goes to.
ExpenseUpdate(r, s, c, m, a) ==
    LET row == expense[s] IN
    /\ row # NoRow /\ Live(c)
    /\ Snapshot(r, Rows({s}, RowOn(c, m, a)), {s},
                IF KeyOf(row) \in {<< >>, <<<<c, m>>>>} THEN <<<<c, m>>>> ELSE Append(KeyOf(row), <<c, m>>))

ExpenseRemove(r, s) ==
    LET row == expense[s] IN
    /\ row # NoRow
    /\ Snapshot(r, Rows({s}, NoRow), {s}, KeyOf(row))

\* installment-plans.service create: every month gets its row, scheduled or not,
\* and counts; only the first month is looked at.
PlanCreate(r, s, t, c, m, a) ==
    /\ s # t /\ Vacant(s) /\ Vacant(t) /\ Live(c) /\ m + 1 \in Months
    /\ Snapshot(r, [x \in {s, t} |-> RowOn(c, IF x = s THEN m ELSE m + 1, a)], {}, <<<<c, m>>>>)

\* The row that is updated or deleted must exist, and so must the category.
Possible(w) ==
    /\ \A s \in w.needs : expense[s] # NoRow
    /\ \A s \in DOMAIN w.new : w.new[s].cat # NoCategory => Live(w.new[s].cat)

SpendCommit(r) ==
    LET w == spending[r] IN
    /\ w.pc = "writing"
    /\ IF Possible(w)
       THEN /\ expense' = [s \in Slots |-> IF s \in DOMAIN w.new THEN w.new[s] ELSE expense[s]]
            /\ spending' = [Disturbed EXCEPT ![r] = [w EXCEPT !.pc = "emitting", !.new = << >>, !.needs = {}]]
            /\ UNCHANGED <<categoryVars, month, version, keeping>>
            /\ Recorded(IF w.stale THEN {} ELSE Owed(r), {}, {})
       ELSE /\ spending' = [spending EXCEPT ![r] = Waiting]
            /\ UNCHANGED <<categoryVars, month, expense, version, keeping, alarms, excused>>

\* emitIfCrossed for each key in turn: the ancestors are read again, and a level
\* that was not above the category before counts as one without a status. A
\* category that is gone throws and ends the loop. seen keeps a level from being
\* announced twice.
Handled(keys) == {i \in DOMAIN keys : \A j \in 1..i : Live(keys[j].cat)}
Before(w, i, k) == IF k[1] \in w.keys[i].above THEN w.prev[k] ELSE "none"

SpendEmit(r) ==
    LET w == spending[r]
        looked(i) == Ancestors(w.keys[i].cat) \X {w.keys[i].month}
        levels == UNION {looked(i) : i \in Handled(w.keys)}
    IN
    /\ w.pc = "emitting"
    /\ \E now \in Readings(levels) :
          LET crossed == {k \in levels : \E i \in Handled(w.keys) :
                                k \in looked(i) /\ ShouldEmit(Before(w, i, k), now[k])}
              warned == {k \in crossed : now[k] = "warning"}
              exceeded == crossed \ warned
          IN
          /\ Room("BUDGET_WARNING", warned) /\ Room("BUDGET_EXCEEDED", exceeded)
          /\ Raise(Events("BUDGET_WARNING", warned) \cup Events("BUDGET_EXCEEDED", exceeded))
          /\ spending' = [spending EXCEPT ![r] = Waiting]
          /\ UNCHANGED <<categoryVars, month, expense, version, keeping>>
          /\ Recorded({}, exceeded, IF w.stale THEN exceeded \cup Owed(r) ELSE {})

-----------------------------------------------------------------------------
\* replaceActive, for create and update: the open version is read outside the
\* transaction.
ReplaceRead(r, c, limit) ==
    /\ keeping[r].pc = "new" /\ Live(c)
    /\ LET open == {v \in version : v.cat = c /\ v.to = Open}
       IN  \E old \in IF open = {} THEN {{}} ELSE {{v} : v \in open} :
             keeping' = [keeping EXCEPT ![r] = [pc |-> "replacing", cat |-> c, old |-> old,
                                                limit |-> limit, from |-> month]]
    /\ UNCHANGED <<categoryVars, month, expense, version, spending, alarms, excused>>

\* Versions carry a number of their own; the one that was read is closed by it,
\* whatever has become of it.
NextNumber == Max({v.nth : v \in version} \cup {0}) + 1
Now(old) == {v \in version : \E o \in old : o.nth = v.nth}
Closed(old, from) == {IF v \in Now(old) THEN [v EXCEPT !.to = from] ELSE v : v \in version}

Replaced(w) ==
    IF \E v \in w.old : v.limit = w.limit THEN version
    ELSE Closed(w.old, w.from) \cup
            {[nth |-> NextNumber, cat |-> w.cat, from |-> w.from, to |-> Open, limit |-> w.limit]}

\* The category and the version must still be there. Nothing is emitted here,
\* even when the new limit has been passed already.
KeepWrite(r, versions) ==
    /\ version' = IF Live(keeping[r].cat) THEN versions ELSE version
    /\ keeping' = [keeping EXCEPT ![r] = Resting]
    /\ spending' = Disturbed
    /\ UNCHANGED <<categoryVars, month, expense>>
    /\ Silently

ReplaceWrite(r) == keeping[r].pc = "replacing" /\ KeepWrite(r, Replaced(keeping[r]))

\* remove: a version that had ended by this month is refused.
EndRead(r, v) ==
    /\ keeping[r].pc = "new" /\ v \in version /\ ~(v.to # Open /\ v.to <= month)
    /\ keeping' = [keeping EXCEPT ![r] = [pc |-> "ending", cat |-> v.cat, old |-> {v},
                                          limit |-> 0, from |-> month]]
    /\ UNCHANGED <<categoryVars, month, expense, version, spending, alarms, excused>>

EndWrite(r) == keeping[r].pc = "ending" /\ KeepWrite(r, Closed(keeping[r].old, keeping[r].from))

-----------------------------------------------------------------------------
\* The category requests, with what they do to rows and budgets: a removal counts
\* them first; the foreign keys then clear the rows and delete the budgets.
InUse(c) == (\E s \in Slots : expense[s].cat = c) \/ (\E v \in version : v.cat = c)

CategoryRead(r) ==
    /\ \E c \in Categories :
          \/ \E p \in Places : CategoryCreateRead(r, c, p) \/ CategoryUpdateRead(r, c, p)
          \/ ~InUse(c) /\ CategoryRemoveRead(r, c)
    /\ UNCHANGED spendVars

CategoryChange(r) ==
    /\ CategoryWrite(r)
    /\ spending' = IF tree' = tree THEN spending ELSE Disturbed
    /\ UNCHANGED <<month, expense, version, keeping>>
    /\ Silently

CategoryGoes(r) ==
    /\ CategoryDelete(r)
    /\ expense' = [s \in Slots |-> IF expense[s].cat # NoCategory /\ ~tree'[expense[s].cat].live
                                   THEN [expense[s] EXCEPT !.cat = NoCategory] ELSE expense[s]]
    /\ version' = {v \in version : tree'[v.cat].live}
    /\ spending' = IF tree' = tree THEN spending ELSE Disturbed
    /\ UNCHANGED <<month, keeping>>
    /\ Silently

MonthEnds ==
    /\ month < LastMonth /\ month' = month + 1
    /\ UNCHANGED <<categoryVars, expense, version, spending, keeping, alarms, excused>>

\* The process goes down: what was not committed is undone, what was not emitted
\* yet never will be.
BudgetsRestart ==
    /\ placing' = [r \in Editors |-> Free]
    /\ spending' = [r \in Spenders |-> Waiting]
    /\ keeping' = [r \in Keepers |-> Resting]
    /\ UNCHANGED <<tree, tangled, month, expense, version, alarms>>
    /\ excused' = excused \cup {k \in Keys : Over(k) /\ alarms[k] = 0}

-----------------------------------------------------------------------------
\* A month that went over a budget was announced as exceeded once since then, or
\* the writer that took it there is about to. The exceptions are what the code
\* does not announce (a lower limit, a moved category, the later months of an
\* installment plan), a writer whose snapshot was out of date, two versions left
\* by two replacements at once, and a restart in between.
ExceededAnnouncedOnce ==
    \A k \in Keys : Over(k) /\ k \notin excused =>
        \/ alarms[k] = 1
        \/ alarms[k] = 0 /\ \E r \in Spenders : spending[r].pc = "emitting" /\ k \in Owed(r)
=============================================================================
