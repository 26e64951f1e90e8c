----------------------------- MODULE SavingsGoals ----------------------------
(***************************************************************************)
(* Savings goals on one account (savings-goals.service.ts) and the          *)
(* transfers into and out of it that make their progress. A goal is checked *)
(* after a transfer into the account, after its creation and after an edit: *)
(* the active goals are read, the progress of each is added up, and a goal  *)
(* that is reached is written COMPLETED by its id.                          *)
(***************************************************************************)
EXTENDS FiniteSetsExt, Notifications

CONSTANTS Goals, Targets, Sums, TransferSlots, Savers \* Savers: requests

ASSUME GoalsAssumption ==
    Targets \subseteq Nat \ {0} /\ Sums \subseteq Int /\ IsFiniteSet(TransferSlots)

VARIABLES
    goal,       \* savings_goals: goal -> [status, target]
    transfer,   \* rows of type TRANSFER: slot -> what it brings the account, 0 for none
    saving,     \* requests
    unchecked   \* history: a goal may be reached without a check (a path that checks nothing, or a failure)

goalVars == <<goal, transfer, saving, unchecked>>

-----------------------------------------------------------------------------
NoGoal == [status |-> "NONE", target |-> 0]
GoalType == [status : {"NONE", "ACTIVE", "COMPLETED", "ABANDONED"}, target : Targets \cup {0}]

\* todo: the active goals that were read, as they were; goal: the one in hand.
AtRest == [pc |-> "new", todo |-> << >>, goal |-> {}, status |-> "NONE", value |-> 0, slot |-> {}, stale |-> FALSE]

GoalsInit ==
    /\ transfer = [s \in TransferSlots |-> 0]
    /\ saving = [r \in Savers |-> AtRest]
    /\ unchecked = FALSE

\* getGoalProgress
Saved == MapThenSumSet(LAMBDA s : transfer[s], TransferSlots)

\* isGoalReached
Reached(g) == Saved >= g.target

Exists(g) == goal[g].status # "NONE"
Become(r, slot) == saving' = [saving EXCEPT ![r] = slot]

\* A write of transfers or goals puts the checks under way out of date.
Overtake(r, slot) ==
    saving' = [q \in Savers |-> IF q = r THEN slot ELSE
                  [saving[q] EXCEPT !.stale = saving[q].pc \in {"next", "writing"}]]
Check == [AtRest EXCEPT !.pc = "check"]

-----------------------------------------------------------------------------
\* TransactionsService: create and update check the account that receives; an edit
\* that lowers what leaves, or the removal of a row, checks nothing here.
TransferRead(r, s, sum) ==
    /\ saving[r].pc = "new" /\ (transfer[s] = 0 => sum # 0)
    /\ transfer[s] = 0 => \A q \in Savers : saving[q].slot # {s}
    /\ Become(r, [AtRest EXCEPT !.pc = IF transfer[s] = 0 THEN "sending" ELSE "changing", !.value = sum, !.slot = {s}])
    /\ UNCHANGED <<goal, transfer, unchecked>>

\* The row that is changed must still be there.
TransferWrite(r, s) ==
    LET w == saving[r] IN
    /\ w.slot = {s} /\ w.pc \in {"sending", "changing"}
    /\ IF w.pc = "changing" /\ transfer[s] = 0
       THEN Become(r, AtRest) /\ UNCHANGED <<transfer, unchecked>>
       ELSE /\ transfer' = [transfer EXCEPT ![s] = w.value]
            /\ Overtake(r, IF w.value > 0 THEN Check ELSE AtRest)
            /\ unchecked' = (unchecked \/ (w.value <= 0 /\ w.value > transfer[s]))
    /\ UNCHANGED goal

\* create: the id is the database's to choose, and nobody has heard of it.
GoalCreate(r, g, target) ==
    /\ saving[r].pc = "new" /\ ~Exists(g)
    /\ \A q \in Savers : saving[q].goal # {g} /\ g \notin DOMAIN saving[q].todo
    /\ goal' = [goal EXCEPT ![g] = [status |-> "ACTIVE", target |-> target]]
    /\ Overtake(r, Check)
    /\ UNCHANGED <<transfer, unchecked>>

\* update, abandon, remove: judged on the status that was read.
GoalRead(r, g, pc, target) ==
    /\ saving[r].pc = "new" /\ Exists(g)
    /\ \/ pc = "editing" /\ goal[g].status # "ABANDONED"
       \/ pc = "abandoning" /\ goal[g].status = "ACTIVE" /\ target = 0
       \/ pc = "removing" /\ target = 0
    /\ Become(r, [AtRest EXCEPT !.pc = pc, !.goal = {g}, !.status = goal[g].status, !.value = target])
    /\ UNCHANGED <<goal, transfer, unchecked>>

\* The row must still be there. Only a goal that was read as active is checked
\* after an edit: one that was completed stays completed.
GoalWrite(r, g) ==
    LET w == saving[r]
        written == [editing |-> [goal[g] EXCEPT !.target = w.value],
                    abandoning |-> [goal[g] EXCEPT !.status = "ABANDONED"],
                    removing |-> NoGoal]
    IN
    /\ w.pc \in DOMAIN written /\ w.goal = {g}
    /\ IF Exists(g)
       THEN /\ goal' = [goal EXCEPT ![g] = written[w.pc]]
            /\ Overtake(r, IF w.pc = "editing" /\ w.status = "ACTIVE" THEN Check ELSE AtRest)
       ELSE UNCHANGED goal /\ Become(r, AtRest)
    /\ UNCHANGED <<transfer, unchecked>>

-----------------------------------------------------------------------------
\* Fault: the goals are read whatever their status.
EveryGoal == {g \in Goals : Exists(g)}

ActiveGoals == {g \in Goals : goal[g].status = "ACTIVE"}

\* completeIfReached
CheckRead(r) ==
    /\ saving[r].pc = "check"
    /\ Become(r, [AtRest EXCEPT !.pc = "next", !.todo = [g \in ActiveGoals |-> goal[g]]])
    /\ UNCHANGED <<goal, transfer, unchecked>>

Drop(f, g) == [x \in DOMAIN f \ {g} |-> f[x]]

\* The progress is today's, the target the one that was read with the goal.
CheckProgress(r, g) ==
    LET w == saving[r] IN
    /\ w.pc = "next" /\ g \in DOMAIN w.todo
    /\ Become(r, IF Reached(w.todo[g]) THEN [w EXCEPT !.pc = "writing", !.goal = {g}]
                                       ELSE [w EXCEPT !.todo = Drop(@, g)])
    /\ UNCHANGED <<goal, transfer, unchecked>>

\* The update names the id only. A goal that is gone throws, and the goals after
\* it are left unchecked.
CheckWrite(r, g) ==
    LET w == saving[r] IN
    /\ w.pc = "writing" /\ w.goal = {g}
    /\ IF Exists(g)
       THEN /\ Room("SAVINGS_GOAL_COMPLETED", {g})
            /\ goal' = [goal EXCEPT ![g].status = "COMPLETED"]
            /\ Raise(Events("SAVINGS_GOAL_COMPLETED", {g}))
            /\ Overtake(r, [w EXCEPT !.pc = "next", !.goal = {}, !.todo = Drop(@, g)])
            /\ UNCHANGED unchecked
       ELSE Become(r, AtRest) /\ unchecked' = TRUE /\ UNCHANGED <<goal, delivery>>
    /\ UNCHANGED transfer

CheckEnds(r) ==
    /\ saving[r].pc = "next" /\ saving[r].todo = << >>
    /\ Become(r, AtRest)
    /\ UNCHANGED <<goal, transfer, unchecked>>

GoalsRestart ==
    /\ saving' = [r \in Savers |-> AtRest]
    /\ unchecked' = (unchecked \/ \E r \in Savers : saving[r].pc \in {"check", "next", "writing"})
    /\ UNCHANGED <<goal, transfer>>

-----------------------------------------------------------------------------
\* A goal whose target is saved does not stay active: it is completed, or a check
\* is on its way to it. The exceptions are the paths that check nothing and the
\* checks that died.
ReachedGoalsGetCompleted ==
    \A g \in Goals : goal[g].status = "ACTIVE" /\ Reached(goal[g]) /\ ~unchecked =>
        \E r \in Savers :
            \/ saving[r].pc = "check"
            \/ saving[r].pc \in {"next", "writing"} /\ g \in DOMAIN saving[r].todo

\* Completion happens when it should: the invariant above, and a goal is completed
\* and announced only while it is active with its target saved, unless the goal or
\* a transfer changed under the check that completes it (then a goal is completed
\* twice, or an abandoned one comes back as completed).
GoalsCompletedWhenReached ==
    /\ []ReachedGoalsGetCompleted
    /\ [][\A g \in Goals : Same("SAVINGS_GOAL_COMPLETED", g)' # Same("SAVINGS_GOAL_COMPLETED", g) =>
            \/ goal[g].status = "ACTIVE" /\ Reached(goal[g])
            \/ \E r \in Savers : saving[r].stale /\ saving'[r] # saving[r]]_<<goalVars, delivery>>
=============================================================================
