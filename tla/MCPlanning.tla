----------------------------- MODULE MCPlanning ------------------------------
\* Four categories (a tree of two and two roots, or a chain), two members, two
\* requests of each kind at a time. What is asked comes in a few mixes, each of
\* which puts one part of the household under load.
EXTENDS Planning

CONSTANTS k1, k2, k3, k4, u1, u2, p1, g1, g2, s1, s2, r1, r2, t1, t2, w1, w2, x1, acc, tx1

\* The requests of a kind and the places of rows may be swapped.
Alike(X, Y) == {f @@ g : f \in Permutations(X), g \in Permutations(Y)}
Swaps == Alike(Spenders, Slots) \cup Alike(Savers, TransferSlots)

\* A rename of an account; the expense of an account that is created and edited; a
\* plan that is canceled; an account that is removed, which the database takes off
\* its bill.
Does(r, op) == [on |-> r, op |-> op, also |-> {}]
Known == {
    [tx |-> FALSE, writes |-> <<Does(acc, "update")>>],
    [tx |-> TRUE, writes |-> <<Does(tx1, "create"), Does(acc, "update")>>],
    [tx |-> TRUE, writes |-> <<Does(acc, "update"), Does(tx1, "update"), Does(acc, "update")>>],
    [tx |-> TRUE, writes |-> <<Does(tx1, "many"), Does(acc, "delete")>>],
    [tx |-> FALSE, writes |-> <<[Does(acc, "delete") EXCEPT !.also = {tx1}]>>]}

InAndOut == {2, -1}
Abouts == Keys \cup Goals \cup Reports

At(p) == [live |-> TRUE, parent |-> p]
Budget(limit) == {[nth |-> 1, cat |-> k1, from |-> 1, to |-> Open, limit |-> limit]}

TwoPairs == [x \in Categories |-> CASE x = k2 -> At(k1) [] x = k4 -> Missing [] OTHER -> At(NoCategory)]
JustOne == [x \in Categories |-> IF x = k1 THEN At(NoCategory) ELSE Missing]

OneGoal == [g \in Goals |-> IF g = g1 THEN [status |-> "ACTIVE", target |-> 2] ELSE NoGoal]
NoGoals == [g \in Goals |-> NoGoal]
TwoGoals == [g \in Goals |-> [status |-> "ACTIVE", target |-> IF g = g1 THEN 1 ELSE 2]]

None == [categories |-> 0, expenses |-> 0, budgets |-> 0, transfers |-> 0, goals |-> 0,
         reports |-> 0, writes |-> 0, devices |-> 0, months |-> 0, hours |-> 0, restarts |-> 0]
Asked(asks, t, budgets, goals) == [tree |-> t, version |-> budgets, goal |-> goals, quota |-> asks]

Mixes == <<
    Asked([None EXCEPT !.categories = 2], TwoPairs, {}, NoGoals),
    Asked([None EXCEPT !.expenses = 2], JustOne, Budget(5), NoGoals),
    Asked([None EXCEPT !.expenses = 2], JustOne, Budget(4), NoGoals),
    Asked([None EXCEPT !.expenses = 1, !.devices = 2, !.restarts = 1], JustOne, Budget(4), NoGoals),
    Asked([None EXCEPT !.expenses = 1, !.budgets = 2, !.months = 1], JustOne, Budget(5), NoGoals),
    Asked([None EXCEPT !.expenses = 1, !.categories = 1], TwoPairs, Budget(4), NoGoals),
    Asked([None EXCEPT !.budgets = 1, !.categories = 1], TwoPairs, {}, NoGoals),
    Asked([None EXCEPT !.transfers = 2, !.goals = 1], JustOne, {}, OneGoal),
    Asked([None EXCEPT !.transfers = 1, !.goals = 1, !.restarts = 1], JustOne, {}, TwoGoals),
    Asked([None EXCEPT !.reports = 1, !.hours = 2, !.restarts = 1], JustOne, {}, NoGoals),
    Asked([None EXCEPT !.writes = 2], JustOne, {}, NoGoals)>>

Household == {Mixes[i] : i \in DOMAIN Mixes}
=============================================================================
