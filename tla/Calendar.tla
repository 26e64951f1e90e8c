------------------------------- MODULE Calendar -------------------------------
\* The dates of the program: the occurrences of a recurring transaction
\* (recurrence.ts), the installments of a purchase (generate-installments.ts) and
\* the page of a month in the day picker (monthDays of date-fields.tsx). A month
\* is counted from January of FirstYear, a date is a day of a month; the hour a
\* date carries is left out. Each behaviour follows one of the three.
EXTENDS Integers, Sequences

CONSTANTS
    FirstYear,      \* its January is month 0
    FirstWeekday,   \* the day of the week of its January 1st, Sunday is 0
    LastMonth,      \* Bound: no occurrence after it
    Starts,         \* dates on which a recurrence or a purchase may start
    MonthDays,      \* values of dayOfMonth; NoDay stands for null
    NoDay,
    Totals,         \* amounts of a purchase, in cents
    Counts,         \* numbers of installments
    MaxEdits        \* Bound: changes of the rule

ASSUME CalendarAssumption ==
    /\ FirstYear \in Nat /\ FirstWeekday \in 0..6 /\ LastMonth \in Nat
    /\ \A d \in Starts : d.month \in 1..LastMonth /\ d.day \in 1..31
    /\ MonthDays \subseteq (1..31) \cup {NoDay}
    /\ Totals \subseteq Nat \ {0} /\ Counts \subseteq Nat \ {0} /\ MaxEdits \in Nat

VARIABLES
    subject,        \* "rule", "purchase" or "page"
    rule,           \* frequency, dayOfMonth and startDate
    last,           \* the latest occurrence, or NoDate
    base, steps,    \* the latest occurrence when the rule was last changed, and how many came since
    edits,
    purchase,       \* total, count and date of the purchase
    parts,          \* its installments so far
    leaf            \* the month shown and the first day of the week

calendarVars == <<subject, rule, last, base, steps, edits, purchase, parts, leaf>>

NoDate == [month |-> 0, day |-> 0]

Leap(year) == year % 4 = 0 /\ (year % 100 # 0 \/ year % 400 = 0)

\* new Date(year, month + 1, 0).getDate()
LastDayOf(month) ==
    CASE month % 12 = 1 -> IF Leap(FirstYear + month \div 12) THEN 29 ELSE 28
      [] month % 12 \in {3, 5, 8, 10} -> 30
      [] OTHER -> 31

Smaller(a, b) == IF a < b THEN a ELSE b

\* new Date(year, month, day) with a day before or past the month.
Carried(month, day) ==
    IF day < 1 THEN [month |-> month - 1, day |-> LastDayOf(month - 1) + day]
    ELSE IF day > LastDayOf(month) THEN [month |-> month + 1, day |-> day - LastDayOf(month)]
    ELSE [month |-> month, day |-> day]

\* Fault: the day is not held back to the last one of the month.
AddMonthsCarrying(date, months) == Carried(date.month + months, date.day)

AddUtcMonths(date, months) ==
    [month |-> date.month + months, day |-> Smaller(date.day, LastDayOf(date.month + months))]

AddUtcDays(date, days) == Carried(date.month, date.day + days)

WithUtcDayOfMonth(date, day) == [date EXCEPT !.day = Smaller(day, LastDayOf(date.month))]

RuleDay(r) == IF r.day = NoDay THEN r.start.day ELSE r.day

MonthsOf(frequency) == IF frequency = "YEARLY" THEN 12 ELSE 1

CalculateNextOccurrenceDate(r, before) ==
    IF before = NoDate THEN r.start
    ELSE IF r.frequency = "WEEKLY" THEN AddUtcDays(before, 7)
    ELSE WithUtcDayOfMonth(AddUtcMonths(before, MonthsOf(r.frequency)), RuleDay(r))

Frequencies == {"WEEKLY", "MONTHLY", "YEARLY"}

Rules == [frequency : Frequencies, day : MonthDays, start : {d \in Starts : d.day <= LastDayOf(d.month)}]

CalendarInit ==
    /\ subject \in {"rule", "purchase", "page"}
    /\ IF subject = "rule"
       THEN rule \in {r \in Rules : r.frequency = "MONTHLY" <=> r.day # NoDay}
       ELSE rule = CHOOSE r \in Rules : TRUE
    /\ IF subject = "purchase"
       THEN purchase \in [total : Totals, count : Counts, date : {r.start : r \in Rules}]
       ELSE purchase = [total |-> 0, count |-> 0, date |-> NoDate]
    /\ IF subject = "page" THEN leaf \in [month : {1}, weekStart : {0, 1, 6}]
       ELSE leaf = [month |-> 1, weekStart |-> 0]
    /\ last = NoDate /\ base = NoDate /\ steps = 0 /\ edits = 0 /\ parts = <<>>

\* One turn of the loop of occurrenceDatesUntil.
Occur ==
    LET next == CalculateNextOccurrenceDate(rule, last) IN
    /\ subject = "rule" /\ next.month <= LastMonth
    /\ last' = next /\ steps' = steps + 1
    /\ UNCHANGED <<subject, rule, base, edits, purchase, parts, leaf>>

\* PATCH changes the frequency, the day or both; the occurrences stay.
ChangeRule(frequency, day) ==
    /\ subject = "rule" /\ edits < MaxEdits /\ last # NoDate
    /\ rule' = [rule EXCEPT !.frequency = frequency, !.day = day]
    /\ rule' # rule
    /\ base' = last /\ steps' = 0 /\ edits' = edits + 1
    /\ UNCHANGED <<subject, last, purchase, parts, leaf>>

\* Cents are rounded down; the last installment takes what is left.
Part(p, n) ==
    LET even == p.total \div p.count IN
    [amount |-> IF n = p.count THEN even + (p.total - even * p.count) ELSE even,
     date   |-> AddUtcMonths(p.date, n - 1)]

Divide ==
    /\ subject = "purchase" /\ Len(parts) < purchase.count
    /\ parts' = Append(parts, Part(purchase, Len(parts) + 1))
    /\ UNCHANGED <<subject, rule, last, base, steps, edits, purchase, leaf>>

\* Days from January 1st of FirstYear to the first of a month.
DaysBefore[month \in 0..(LastMonth + 2)] ==
    IF month = 0 THEN 0 ELSE DaysBefore[month - 1] + LastDayOf(month - 1)

DayNumber(date) == DaysBefore[date.month] + date.day - 1

Weekday(date) == (DayNumber(date) + FirstWeekday) % 7

\* monthDays: six weeks from the last weekStart on or before the 1st.
PageDays(p) ==
    LET offset == (Weekday([month |-> p.month, day |-> 1]) - p.weekStart + 7) % 7
    IN [i \in 1..42 |-> Carried(p.month, i - offset)]

Turn ==
    /\ subject = "page" /\ leaf.month < LastMonth
    /\ leaf' = [leaf EXCEPT !.month = @ + 1]
    /\ UNCHANGED <<subject, rule, last, base, steps, edits, purchase, parts>>

CalendarNext ==
    \/ Occur
    \/ \E frequency \in Frequencies, day \in MonthDays : ChangeRule(frequency, day)
    \/ Divide
    \/ Turn

\* Dates go on; these do up to the bound.
CalendarIdle ==
    /\ CASE subject = "rule" -> CalculateNextOccurrenceDate(rule, last).month > LastMonth
         [] subject = "purchase" -> Len(parts) = purchase.count
         [] subject = "page" -> leaf.month = LastMonth
    /\ UNCHANGED calendarVars

CalendarSpec == CalendarInit /\ [][CalendarNext \/ CalendarIdle]_calendarVars

-------------------------------------------------------------------------------
\* Each date is worked out from the one before it. All the same, the n-th one
\* since a change of the rule is the one counted from where the rule began: a
\* short month, or a February 29th, neither moves the following ones nor makes
\* one skip a month (recurrence.ts:20-48).
OccurrencesKeepTheirDay ==
    LET from == IF base = NoDate THEN rule.start ELSE base
        n    == IF base = NoDate THEN steps - 1 ELSE steps
        months == from.month + n * MonthsOf(rule.frequency)
    IN  n > 0 => IF rule.frequency = "WEEKLY" THEN DayNumber(last) = DayNumber(from) + 7 * n
                 ELSE last = [month |-> months, day |-> Smaller(RuleDay(rule), LastDayOf(months))]

\* The installments are the purchase: no cent is lost, none but the last differs
\* and by less than a cent for each one, and they fall in months in a row, on the
\* day of the purchase or the last of a shorter month (generate-installments.ts:46-63).
InstallmentsAddUp ==
    LET sum[n \in 0..Len(parts)] == IF n = 0 THEN 0 ELSE sum[n - 1] + parts[n].amount IN
    Len(parts) = purchase.count =>
        /\ sum[purchase.count] = purchase.total
        /\ \A n \in 1..purchase.count :
               /\ parts[n].amount \in (parts[purchase.count].amount - purchase.count + 1)..parts[purchase.count].amount
               /\ parts[n].date.month = purchase.date.month + n - 1
               /\ parts[n].date.day = Smaller(purchase.date.day, LastDayOf(parts[n].date.month))

\* The page of a month holds its days, all of them, and its weeks begin on the day
\* on which they begin where the user lives (date-fields.tsx:205-216).
PageHoldsItsMonth ==
    LET days == PageDays(leaf) IN
    /\ \A day \in 1..LastDayOf(leaf.month) : \E i \in 1..42 : days[i] = [month |-> leaf.month, day |-> day]
    /\ \A i \in 1..41 : DayNumber(days[i + 1]) = DayNumber(days[i]) + 1
    /\ Weekday(days[1]) = leaf.weekStart

\* What the program does with dates is what a calendar would say.
DatesAddUp == OccurrencesKeepTheirDay /\ InstallmentsAddUp /\ (subject = "page" => PageHoldsItsMonth)
===============================================================================
