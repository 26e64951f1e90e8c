----------------------------- MODULE Recurrences -----------------------------
(***************************************************************************)
(* One recurrence and what it generates (recurring-transactions.service.ts, *)
(* recurrence.ts): entries in mode AUTO_POST, bills in mode BILL. Where a   *)
(* generation goes on from is not stored: it is the latest date of the rows *)
(* that still carry the recurrence. The midnight job, a resume and the      *)
(* creation generate alike, each in a loop of inserts without a transaction *)
(* around it; what people do to the rows comes from transactions.service.ts *)
(* and bills.service.ts.                                                    *)
(*                                                                          *)
(* Dates are days. Months are of one length here: what their real lengths   *)
(* do to a date is in Calendar. A run makes 400 dates at most in the code;  *)
(* that is beyond the bounds.                                               *)
(***************************************************************************)
EXTENDS Integers, FiniteSets, FiniteSetsExt

CONSTANTS
    Generators,     \* runs of the job and requests that generate
    LastDay,        \* bound on the clock
    StartDate,
    MaxDate,        \* bound on the dates people give
    Week, MonthLength,
    Schedules,      \* frequency and dayOfMonth, as people may set them
    Ends,           \* end dates; one past the horizons stands for none
    Horizon, BillHorizon, \* how far ahead entries and bills are generated
    MaxMoves        \* bound on what people do and on failures

ASSUME RecurrencesAssumption ==
    /\ {LastDay, StartDate, MaxDate, Week, MonthLength, Horizon, BillHorizon, MaxMoves} \subseteq Nat
    /\ StartDate <= MaxDate /\ Week > 0 /\ MonthLength > 0
    /\ Schedules \subseteq [frequency : {"WEEKLY", "MONTHLY", "YEARLY"}, day : 0..(MonthLength - 1)]
    /\ Schedules # {} /\ Ends \subseteq Nat

VARIABLES
    today,
    rec,        \* the recurring_transactions row
    occ,        \* the rows it generated
    gen,        \* generations under way
    removal,    \* the transaction that removes the recurrence
    owned,      \* whether the household has an owner, to record entries for
    marks,      \* history: <<mode, date>> whose insert failed, or that a bill was moved to
    moves       \* how many outside events there were (the bound only)

recurrenceVars == <<today, rec, occ, gen, removal, owned, marks, moves>>

-----------------------------------------------------------------------------
Modes == {"AUTO_POST", "BILL"}
Dates == 0..(MaxDate + LastDay + Horizon + BillHorizon)

\* date is where the row stands now, due the date it was generated for, copy how
\* many times that date has been. late (history): inserted while the recurrence
\* was being removed. A row that was deleted is kept, as DELETED.
OccurrenceType == [mode : Modes, due : Dates, copy : Nat, date : Dates, linked : BOOLEAN, late : BOOLEAN,
                   status : {"SCHEDULED", "POSTED", "PENDING", "PAID", "CANCELED", "DELETED"}]
RecurrenceType == [status : {"LIVE", "DELETED"}, active : BOOLEAN, mode : Modes, rule : Schedules, end : Ends]
AskedGenerator == [pc |-> "asked", mode |-> "AUTO_POST", rule |-> CHOOSE r \in Schedules : TRUE,
                   next |-> StartDate, until |-> StartDate]
IdleGenerator == [AskedGenerator EXCEPT !.pc = "idle"]

Linked(mode) == {o \in occ : o.mode = mode /\ o.linked}
Made(mode, d) == {o \in occ : o.mode = mode /\ o.due = d}

\* Fault: the scheduled rows are kept.
NoneScheduled == {}

Scheduled == {o \in Linked("AUTO_POST") : o.status = "SCHEDULED"}

Taken(mode, d) == \E o \in Linked(mode) : o.date = d
Ahead(mode) == today + (IF mode = "BILL" THEN BillHorizon ELSE Horizon)
Alive == rec.status = "LIVE"

Outside == moves < MaxMoves /\ moves' = moves + 1

\* create, up to its generateFor, which may yet come or never do.
RecurrencesInit ==
    /\ today = 0
    /\ rec \in [status : {"LIVE"}, active : {TRUE}, mode : Modes, rule : Schedules, end : Ends]
    /\ occ = {}
    /\ \E asking \in SUBSET Generators :
           /\ Cardinality(asking) <= 1
           /\ gen = [g \in Generators |-> IF g \in asking THEN AskedGenerator ELSE IdleGenerator]
    /\ owned \in BOOLEAN
    /\ removal = [pc |-> "no", locked |-> {}]
    /\ marks = {}
    /\ moves = 0

-----------------------------------------------------------------------------
\* calculateNextOccurrenceDate: counted on from any date, a moved bill's too.
NextAfter(rule, d) ==
    IF rule.frequency = "WEEKLY" THEN d + Week
    ELSE (d \div MonthLength + (IF rule.frequency = "YEARLY" THEN 12 ELSE 1)) * MonthLength + rule.day

\* Fault: what was missed is not caught up with.
FromToday(mode) == today

\* Where a generation starts: the step after the latest row, or the start.
NextDate(mode) ==
    IF Linked(mode) = {} THEN StartDate ELSE NextAfter(rec.rule, Max({o.date : o \in Linked(mode)}))

\* Fault: the horizon itself is left out.
UntilBefore(mode) == Min({Ahead(mode) - 1, rec.end})

\* The last date occurrenceDatesUntil lets through.
Until(mode) == Min({Ahead(mode), rec.end})

\* Entries are recorded for an owner of the household; without one generateFor
\* throws before it inserts anything.
Recorder(mode) == mode = "BILL" \/ owned

\* generateDueRecurringOccurrences leaves out a recurrence whose end has passed.
\* A run with no date to make changes nothing.
JobStarts(g) ==
    /\ gen[g].pc = "idle" /\ Alive /\ rec.active
    /\ StartDate <= today + BillHorizon /\ today <= rec.end
    /\ NextDate(rec.mode) <= Until(rec.mode)
    /\ gen' = [gen EXCEPT ![g].pc = "asked"]
    /\ UNCHANGED <<today, rec, occ, removal, owned, marks, moves>>

\* resume generates at once, ended or not.
Resume(g) ==
    /\ gen[g].pc = "idle" /\ Alive /\ Outside
    /\ rec' = [rec EXCEPT !.active = TRUE]
    /\ gen' = [gen EXCEPT ![g].pc = "asked"]
    /\ UNCHANGED <<today, occ, removal, owned, marks>>

\* A generation that is at the date d, or done.
Onward(slot, d) == IF d <= slot.until THEN [slot EXCEPT !.pc = "loop", !.next = d] ELSE IdleGenerator

\* generateFor: the recurrence, its latest row and an owner, then the dates in order.
GenerateRead(g) ==
    /\ gen[g].pc = "asked"
    /\ gen' = [gen EXCEPT ![g] =
            IF Alive /\ rec.active /\ Recorder(rec.mode)
              THEN Onward([@ EXCEPT !.mode = rec.mode, !.rule = rec.rule, !.until = Until(rec.mode)], NextDate(rec.mode))
              ELSE IdleGenerator]
    /\ UNCHANGED <<today, rec, occ, removal, owned, marks, moves>>

Advanced(g) == [gen EXCEPT ![g] = Onward(@, NextAfter(@.rule, @.next))]

\* Fault: no unique index.
NeverRefused(mode, d) == FALSE

\* The unique index on the recurrence and the date.
Refused(mode, d) == Taken(mode, d)

StatusOf(mode, d) ==
    IF mode = "BILL" THEN "PENDING" ELSE IF d <= today THEN "POSTED" ELSE "SCHEDULED"

\* One insert, posted or not. A date that is taken is passed over, and so is a
\* recurrence that is gone (the foreign key fails, the error is reported).
GenerateOne(g) ==
    LET m == gen[g].mode
        d == gen[g].next IN
    /\ gen[g].pc = "loop"
    /\ occ' = IF Refused(m, d) \/ ~Alive THEN occ
              ELSE occ \cup {[mode |-> m, due |-> d, copy |-> Cardinality(Made(m, d)) + 1,
                              date |-> d, linked |-> TRUE, late |-> removal.pc = "locked",
                              status |-> StatusOf(m, d)]}
    /\ gen' = Advanced(g)
    /\ UNCHANGED <<today, rec, removal, owned, marks, moves>>

\* Any other error is reported, and the loop goes on with the next date.
GenerateFails(g) ==
    /\ gen[g].pc = "loop" /\ Outside
    /\ marks' = marks \cup {<<gen[g].mode, gen[g].next>>}
    /\ gen' = Advanced(g)
    /\ UNCHANGED <<today, rec, occ, removal, owned>>

\* The API restarts: what a loop had inserted stays.
Restart(g) ==
    /\ gen[g].pc # "idle" /\ Outside
    /\ gen' = [gen EXCEPT ![g] = IdleGenerator]
    /\ UNCHANGED <<today, rec, occ, removal, owned, marks>>

-----------------------------------------------------------------------------
Pause ==
    /\ Alive /\ rec.active /\ Outside
    /\ rec' = [rec EXCEPT !.active = FALSE]
    /\ UNCHANGED <<today, occ, gen, removal, owned, marks>>

\* update takes any mode, frequency, day and end, in one write.
Update ==
    /\ Alive /\ Outside
    /\ \E mode \in Modes, rule \in Schedules, end \in Ends :
           rec' = [rec EXCEPT !.mode = mode, !.rule = rule, !.end = end]
    /\ UNCHANGED <<today, occ, gen, removal, owned, marks>>

\* Two removals that pass the count together leave no owner (Households); an
\* invite as owner that is accepted then brings one.
OwnerChanges ==
    /\ Outside /\ owned' = ~owned
    /\ UNCHANGED <<today, rec, occ, gen, removal, marks>>

\* remove, mode BILL
StopBills ==
    /\ Alive /\ rec.mode = "BILL" /\ Outside
    /\ rec' = [rec EXCEPT !.active = FALSE]
    /\ occ' = {IF o \in Linked("BILL") /\ o.status = "PENDING" /\ o.date > today
                 THEN [o EXCEPT !.status = "CANCELED"] ELSE o : o \in occ}
    /\ UNCHANGED <<today, gen, removal, owned, marks>>

\* remove, mode AUTO_POST: the scheduled rows it found, locked until it commits.
RemoveRows ==
    /\ Alive /\ rec.mode = "AUTO_POST" /\ removal.pc = "no" /\ Outside
    /\ removal' = [pc |-> "locked", locked |-> Scheduled]
    /\ UNCHANGED <<today, rec, occ, gen, owned, marks>>

\* The recurrence goes, and the link of every row that is left (SetNull).
RemoveCommit ==
    /\ removal.pc = "locked"
    /\ rec' = [rec EXCEPT !.status = "DELETED", !.active = FALSE]
    /\ occ' = {[o EXCEPT !.linked = FALSE,
                          !.status = IF o \in removal.locked THEN "DELETED" ELSE @] : o \in occ}
    /\ removal' = [pc |-> "no", locked |-> {}]
    /\ UNCHANGED <<today, gen, owned, marks, moves>>

-----------------------------------------------------------------------------
Entries == {o \in occ : o.status \in {"SCHEDULED", "POSTED"}} \ removal.locked
BillRows == {o \in occ : o.status \in {"PENDING", "PAID", "CANCELED"}}
Rewrite(o, r) == occ' = (occ \ {o}) \cup {r} /\ UNCHANGED <<today, rec, gen, removal, owned>>
Becomes(o, r) == Rewrite(o, r) /\ UNCHANGED marks

DeleteEntry(o) ==
    o \in Entries /\ Outside /\ Becomes(o, [o EXCEPT !.status = "DELETED", !.linked = FALSE])

\* Any edit writes recurringTransactionId null and POSTED (toData without extras).
EditEntry(o) ==
    o \in Entries /\ Outside /\ Becomes(o, [o EXCEPT !.status = "POSTED", !.linked = FALSE])

Post(o) ==
    /\ o \in Entries /\ o.status = "SCHEDULED" /\ o.date <= today
    /\ Becomes(o, [o EXCEPT !.status = "POSTED"]) /\ UNCHANGED moves

\* update of a bill: any other due date, if the unique index allows it. The check
\* that it is pending is made on an earlier read.
MoveBill(o, d) ==
    /\ o \in BillRows /\ d # o.date /\ ~(o.linked /\ Taken("BILL", d)) /\ Outside
    /\ Rewrite(o, [o EXCEPT !.date = d])
    /\ marks' = marks \cup {<<"BILL", d>>}

\* pay, unpay, cancel and reopen; removing a bill of a recurrence cancels it.
SettleBill(o, status) ==
    o \in BillRows /\ o.status # status /\ Outside /\ Becomes(o, [o EXCEPT !.status = status])

NextDay ==
    /\ today < LastDay /\ today' = today + 1
    /\ UNCHANGED <<rec, occ, gen, removal, owned, marks, moves>>

Quiet ==
    /\ removal.pc = "no" /\ \A g \in Generators : gen[g].pc = "idle"
    /\ UNCHANGED recurrenceVars

GeneratorStep(g) == GenerateRead(g) \/ GenerateOne(g)

RowStep(o) ==
    \/ DeleteEntry(o) \/ EditEntry(o) \/ Post(o)
    \/ \E d \in 0..MaxDate : MoveBill(o, d)
    \/ \E status \in {"PENDING", "PAID", "CANCELED"} : SettleBill(o, status)

RecurrencesNext ==
    \/ \E g \in Generators : \/ JobStarts(g) \/ Resume(g) \/ GeneratorStep(g)
                             \/ GenerateFails(g) \/ Restart(g)
    \/ Pause \/ Update \/ OwnerChanges \/ StopBills \/ RemoveRows \/ RemoveCommit
    \/ \E o \in occ : RowStep(o)
    \/ NextDay \/ Quiet

\* The job runs every night, and a generation that has begun goes on.
RecurrencesFairness ==
    /\ WF_recurrenceVars(\E g \in Generators : JobStarts(g))
    /\ \A g \in Generators : WF_recurrenceVars(GeneratorStep(g))

RecurrencesSpec == RecurrencesInit /\ [][RecurrencesNext]_recurrenceVars /\ RecurrencesFairness

-----------------------------------------------------------------------------
\* The types; a linked row is an entry or a bill as its mode says.
RecurrencesTypeOK ==
    /\ today \in 0..LastDay
    /\ rec \in RecurrenceType
    /\ occ \subseteq OccurrenceType
    /\ \A o \in occ : o.linked => o.status \in (IF o.mode = "BILL" THEN {"PENDING", "PAID", "CANCELED"}
                                                ELSE {"SCHEDULED", "POSTED"})
    /\ gen \in [Generators -> [pc : {"idle", "asked", "loop"}, mode : Modes, rule : Schedules,
                                next : Dates, until : Dates]]
    /\ removal.locked \subseteq occ /\ owned \in BOOLEAN /\ marks \subseteq Modes \X Dates

\* However generations overlap, restart and repeat, a mode generates a date
\* again only when the row it had made was edited, deleted or moved: the cursor
\* then steps back over it.
GeneratedAgainOnlyIfTouched ==
    \A o, p \in occ :
        o # p /\ o.mode = p.mode /\ o.due = p.due => \E i \in {o, p} : ~i.linked \/ i.date # i.due

\* A row was made for the date, its insert failed, or a bill was moved to it.
Reached(mode, d) == Made(mode, d) # {} \/ <<mode, d>> \in marks

\* What a generation is about to insert is the start or a single step, by the rule
\* it read, from a date that was reached. So nothing is passed over but where an
\* insert failed, or where people made the step longer: by another rule, or by
\* moving a bill, from whose new date the series goes on.
SkippedOnlyByFailure ==
    \A g \in Generators :
        Alive /\ gen[g].pc = "loop" =>
            \/ gen[g].next = StartDate
            \/ \E d \in Dates : Reached(gen[g].mode, d) /\ gen[g].next = NextAfter(gen[g].rule, d)

\* A removed recurrence leaves no scheduled row to be posted later, except one
\* inserted between the removal of the rows and of the recurrence.
ScheduledLeftOnlyByOverlap ==
    \A o \in occ : o.status = "SCHEDULED" /\ ~o.linked => o.late

\* The types, and no scheduled row outlives its recurrence but by overlap.
NothingScheduledLeft == RecurrencesTypeOK /\ ScheduledLeftOnlyByOverlap

\* The next date is within the horizon of an active recurrence that has not ended,
\* and there is someone to record it for.
Due(d) ==
    /\ Alive /\ rec.active /\ Recorder(rec.mode) /\ today <= rec.end
    /\ d = NextDate(rec.mode) /\ d <= Ahead(rec.mode) /\ d <= rec.end

\* A date that is due does not stay so: it is made, or the series goes on without
\* it (its insert failed), from another row (that was moved or deleted) or by
\* another rule, or it stops, is paused, ends or has nobody to record it for.
DatesGetGenerated == \A d \in 0..(LastDay + Max({Horizon, BillHorizon})) : Due(d) ~> ~Due(d)
=============================================================================
