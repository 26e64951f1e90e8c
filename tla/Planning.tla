------------------------------ MODULE Planning -------------------------------
(***************************************************************************)
(* What a household plans with: the category tree, the budgets over it, the *)
(* savings goals, its reports, and the notifications they send; and the     *)
(* trail of all that is written. The parts share the tree, the events and   *)
(* the process that may go down.                                            *)
(***************************************************************************)
EXTENDS Budgets, SavingsGoals, Reports, Audit

CONSTANT Worlds
    \* What a household looks like at first and what is asked of it: [tree, version,
    \* goal, quota], quota bounding the requests of each kind.

\* Every live category hangs from a root, at most three levels down.
Under(t, S) == {c \in Categories : t[c].live /\ t[c].parent \in S}
Orderly(t) ==
    LET roots == Under(t, {NoCategory})
    IN  {c \in Categories : t[c].live} \subseteq roots \cup Under(t, roots) \cup Under(t, Under(t, roots))

\* The foreign keys hold in the first state too, and the handlers made its tree and
\* its goals.
ASSUME WorldsAssumption ==
    \A w \in Worlds :
        /\ w.tree \in [Categories -> [live : BOOLEAN, parent : Places]]
        /\ w.version \subseteq [nth : Nat, cat : {c \in Categories : w.tree[c].live}, from : Months,
                                to : Months \cup {Open}, limit : Limits]
        /\ Orderly(w.tree)
        /\ w.goal \in [Goals -> GoalType]
        /\ \A g \in Goals : w.goal[g].status = "ACTIVE" => w.goal[g].target \in Targets

VARIABLE quota

planningVars == <<budgetVars, goalVars, reportVars, auditVars, notificationVars, quota>>
services == <<reportVars, auditVars>>

-----------------------------------------------------------------------------
PlanningInit ==
    /\ \E w \in Worlds : tree = w.tree /\ version = w.version /\ goal = w.goal /\ quota = w.quota
    /\ placing = [r \in Editors |-> Free]
    /\ tangled = FALSE
    /\ BudgetsInit /\ GoalsInit /\ ReportsInit /\ AuditInit /\ NotificationsInit

Uses(kind) == quota[kind] > 0 /\ quota' = [quota EXCEPT ![kind] = @ - 1]

\* Requests, as they come in
CategoryRequest ==
    /\ Uses("categories") /\ \E r \in Editors : CategoryRead(r)
    /\ UNCHANGED <<goalVars, notificationVars, services>>

ExpenseRequest ==
    /\ Uses("expenses")
    /\ \E r \in Spenders, s \in Slots :
          \/ ExpenseRemove(r, s)
          \/ \E c \in Categories, m \in Months, a \in Amounts :
                \/ ExpenseCreate(r, s, c, m, a) \/ ExpenseUpdate(r, s, c, m, a)
                \/ \E t \in Slots : PlanCreate(r, s, t, c, m, a)
    /\ UNCHANGED <<goalVars, notificationVars, services>>

BudgetRequest ==
    /\ Uses("budgets")
    /\ \E r \in Keepers :
          \/ \E c \in Categories, limit \in Limits : ReplaceRead(r, c, limit)
          \/ \E v \in version : EndRead(r, v)
    /\ UNCHANGED <<goalVars, notificationVars, services>>

TransferRequest ==
    /\ Uses("transfers")
    /\ \E r \in Savers, s \in TransferSlots, sum \in Sums \cup {0} : TransferRead(r, s, sum)
    /\ UNCHANGED <<budgetVars, notificationVars, services>>

GoalRequest ==
    /\ Uses("goals")
    /\ \E r \in Savers, g \in Goals :
          \/ \E target \in Targets : GoalCreate(r, g, target) \/ GoalRead(r, g, "editing", target)
          \/ \E pc \in {"abandoning", "removing"} : GoalRead(r, g, pc, 0)
    /\ UNCHANGED <<budgetVars, notificationVars, services>>

ReportRequest ==
    /\ Uses("reports")
    /\ \E x \in Reports, g \in Generators, small \in BOOLEAN : ReportCreate(x, g, small)
    /\ UNCHANGED <<budgetVars, goalVars, notificationVars, auditVars>>

WriteRequest ==
    /\ Uses("writes")
    /\ \E w \in Writers, h \in Handlers : AuditStart(w, h)
    /\ UNCHANGED <<budgetVars, goalVars, notificationVars, reportVars>>

\* Their later steps
CategoryStep ==
    /\ \E r \in Editors : CategoryChange(r) \/ CategoryGoes(r)
    /\ UNCHANGED <<goalVars, notificationVars, quota, services>>

BudgetStep ==
    /\ \/ UNCHANGED delivery /\ \E r \in Spenders : SpendCommit(r)
       \/ UNCHANGED delivery /\ \E r \in Keepers : ReplaceWrite(r) \/ EndWrite(r)
       \/ \E r \in Spenders : SpendEmit(r)
    /\ UNCHANGED <<goalVars, push, gone, quota, services>>

GoalStep ==
    /\ \E r \in Savers :
          \/ CheckRead(r) /\ UNCHANGED delivery
          \/ CheckEnds(r) /\ UNCHANGED delivery
          \/ \E s \in TransferSlots : TransferWrite(r, s) /\ UNCHANGED delivery
          \/ \E g \in Goals : \/ GoalWrite(r, g) /\ UNCHANGED delivery
                              \/ CheckProgress(r, g) /\ UNCHANGED delivery
                              \/ CheckWrite(r, g)
    /\ UNCHANGED <<budgetVars, push, gone, quota, services>>

ReportSteps ==
    /\ \/ ReportStep /\ UNCHANGED delivery
       \/ \E g \in Generators : EmitReady(g)
    /\ UNCHANGED <<budgetVars, goalVars, push, gone, auditVars, quota>>

AuditSteps == AuditStep /\ UNCHANGED <<budgetVars, goalVars, notificationVars, reportVars, quota>>

Delivers == DeliveryStep /\ UNCHANGED <<budgetVars, goalVars, quota, services>>
Device == Uses("devices") /\ DeviceStep /\ UNCHANGED <<budgetVars, goalVars, services>>
NewMonth == Uses("months") /\ MonthEnds /\ UNCHANGED <<goalVars, notificationVars, services>>

\* The clock, as far as the reports feel it
Later ==
    /\ Uses("hours") /\ \E x \in Reports : ReportAges(x)
    /\ UNCHANGED <<budgetVars, goalVars, notificationVars, auditVars>>

\* The audit has its own failure, LogFails.
Restart ==
    /\ Uses("restarts") /\ BudgetsRestart /\ GoalsRestart /\ ReportsRestart
    /\ delivery' = Interrupted /\ UNCHANGED <<push, gone, auditVars>>

\* A household that asks for nothing more, once nothing is under way: what was
\* begun can always go on or fail.
Idle ==
    /\ \A r \in Editors : placing[r].pc = "new"
    /\ \A r \in Spenders : spending[r].pc = "new"
    /\ \A r \in Keepers : keeping[r].pc = "new"
    /\ \A r \in Savers : saving[r].pc = "new"
    /\ \A g \in Generators : generator[g] = NoRun
    /\ \A w \in Writers : ~Busy(w)
    /\ stuck = {} /\ expiring = {}
    /\ \A e \in DOMAIN delivery : Done(e) \/ delivery[e].pc \in {"broken", "lost"}
    /\ UNCHANGED planningVars

PlanningNext ==
    \/ CategoryRequest \/ ExpenseRequest \/ BudgetRequest \/ TransferRequest \/ GoalRequest
    \/ ReportRequest \/ WriteRequest \/ CategoryStep \/ BudgetStep \/ GoalStep \/ ReportSteps \/ AuditSteps
    \/ Delivers \/ Device \/ NewMonth \/ Later \/ Restart \/ Idle

PlanningSpec == PlanningInit /\ [][PlanningNext]_planningVars
=============================================================================
