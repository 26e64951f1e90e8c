-------------------------------- MODULE Pages --------------------------------
(***************************************************************************)
(* What each page of the web application shows and what its mutations       *)
(* refresh, as query keys (apps/web/src/app/(dashboard), components, hooks). *)
(* A key stands for every query it is a prefix of: months, filters and ids   *)
(* behind it make no difference to an invalidation.                          *)
(***************************************************************************)

\* A mutation: the keys whose answers it may change on the server (external:
\* the handlers of apps/api), the keys its onSuccess invalidates, and the keys
\* it overwrites with its own answer.
Mutation(touches, refreshes) == [touches |-> touches, refreshes |-> refreshes, sets |-> {}]
Answering(k) == [touches |-> {k}, refreshes |-> {}, sets |-> {k}]
Page(shows, mutations) == [shows |-> shows, mutations |-> mutations]
Beside(p, q) == Page(p.shows \cup q.shows, p.mutations \cup q.mutations)

\* 'audit-logs' is the prefix of two keys: the feed of all that happened, and the
\* history of a row that is open in its form or list. Only writes of that row come
\* while it is open; a history that is opened again is loaded again.
Feed == "audit-logs/feed"
OpenRow == "audit-logs/row"
Logs == {Feed, OpenRow}

Entries == {"transactions", "accounts", "dashboard", "budgets", "notifications", Feed}

\* Fault: the bills page forgets its own list.
SettledElsewhere == {"transactions", "accounts", "dashboard", "recurring-transactions"}

\* invalidate() of the bills page.
Settled == {"bills", "transactions", "accounts", "dashboard", "recurring-transactions"}

-----------------------------------------------------------------------------
Bell == Page({"notifications"}, {Mutation({"notifications"}, {"notifications"})})
UserMenu == Page({"me"}, {})
LocaleProvider == Page({"me"}, {})

\* Around every page.
Layout == Beside(Bell, Beside(UserMenu, LocaleProvider))

ReportPanel == Page({"reports"},
    {Mutation({"reports", "notifications", Feed}, {"reports", "notifications"})})

History == Page({OpenRow}, {})

Transactions == Beside(ReportPanel, Beside(History, Page({"accounts", "categories", "transactions"},
    LET all == Entries \cup {"installment-plans", "savings-goals", "onboarding"} IN
    {Mutation(all \cup Logs, (all \cup Logs) \ {"notifications"}),
     Mutation(all \cup {"bills"}, all \ {"budgets", "notifications", Feed})})))

Installments ==
    LET all == {"installment-plans", "transactions", "accounts", "dashboard", "budgets"} IN
    Page({"installment-plans"}, {Mutation(all \cup {Feed}, all)})

Bills == Page({"accounts", "categories", "bills"},
    {Mutation({"bills", "recurring-transactions", Feed}, Settled),
     Mutation({"bills"} \cup Entries, Settled),
     Mutation({"bills", Feed}, Settled)})

Recurring ==
    LET all == {"recurring-transactions", "transactions", "accounts", "dashboard", "budgets"} IN
    Page({"accounts", "categories", "recurring-transactions"},
         {Mutation(all \cup {Feed}, all), Mutation({"recurring-transactions", Feed}, all)})

\* An upload shows its own preview in place of the list, until one of these two.
ImportPage == Page({"accounts", "categories", "imports"},
    {Mutation(Entries \cup {"imports", "onboarding", "bills"},
              {"transactions", "accounts", "dashboard", "imports", "notifications", "onboarding"}),
     Mutation({"imports", "notifications", Feed}, {"imports", "notifications"})})

RestrictModal == Page({"me"},
    {Mutation({"accounts", "dashboard", "transactions", Feed}, {"accounts", "dashboard"})})

AccountsPage == Beside(RestrictModal, Beside(History, Page({"accounts"},
    LET all == {"accounts", "dashboard", "onboarding"} IN
    {Mutation(all \cup Logs, all \cup Logs), Mutation(all \cup {Feed}, all)})))

CategoriesPage == Page({"categories"},
    {Mutation({"categories", "budgets", "dashboard", Feed}, {"categories"})})

BudgetsPage ==
    LET all == {"budgets", "dashboard", "onboarding"} \cup Logs IN
    Beside(History, Page({"categories", "budgets"}, {Mutation(all \cup {"notifications"}, all)}))

GoalsPage ==
    LET all == {"savings-goals", "dashboard", "onboarding"} IN
    Page({"accounts", "savings-goals"}, {Mutation(all \cup {Feed}, all \cup Logs)})

GoalPage ==
    LET all == {"savings-goals", "dashboard", "onboarding"} \cup Logs IN
    Beside(History, Page({"savings-goals"}, {Mutation(all \cup {"notifications"}, all)}))

Checklist == Page({"onboarding"}, {Answering("onboarding")})
Dashboard == Beside(Checklist, Page({"dashboard", "budgets", "bills", "savings-goals"}, {}))

OnboardingSettings == Page({"onboarding"}, {Answering("onboarding")})
BankLink == Page({"meupluggy-status"}, {})
SettingsPage == Beside(OnboardingSettings, BankLink)

ProfilePage == Page({"me"}, {Mutation({"me"}, {"me"})})

HouseholdPage == Page({},
    {Mutation({"households", Feed}, {"households"}),
     Mutation({"onboarding"}, {"onboarding"})})

BankPage == Page({"meupluggy-status", "accounts"},
    {Mutation({"meupluggy-status"}, {"meupluggy-status"}),
     Mutation({"meupluggy-status"} \cup Entries, {"meupluggy-status", "accounts"})})

AliasPage == Page({"import-alias", "accounts", "bank-account-mappings", "email-import-logs"},
    {Mutation({"bank-account-mappings", "onboarding"}, {"bank-account-mappings", "onboarding"}),
     Mutation({"bank-account-mappings"}, {"bank-account-mappings"})})

Activity == Page({Feed}, {})

PageOf == [
    transactions |-> Transactions, installments |-> Installments, bills |-> Bills,
    recurring |-> Recurring, imports |-> ImportPage, accounts |-> AccountsPage,
    categories |-> CategoriesPage, budgets |-> BudgetsPage, goals |-> GoalsPage,
    goal |-> GoalPage, dashboard |-> Dashboard, settings |-> SettingsPage,
    profile |-> ProfilePage, household |-> HouseholdPage, bank |-> BankPage,
    alias |-> AliasPage, activity |-> Activity]

AllKeys == UNION {PageOf[p].shows : p \in DOMAIN PageOf} \cup Layout.shows

\* needsHouseholdHeader: these paths answer for the user, whatever the household.
Personal == {"me", "notifications"}
=============================================================================
