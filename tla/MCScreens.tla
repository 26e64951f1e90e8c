------------------------------ MODULE MCScreens ------------------------------
\* Keys that differ in how they are refreshed: one that several pages show, one that
\* an answer overwrites, one that is polled and belongs to the user. Or, in other
\* behaviours, the sheets and the history, one of the pickers, or dates from 2024 to
\* January of 2028 that months and years cut short.
EXTENDS Screens, SheetHistory, Pickers, Calendar

SomeKeys == {"bills", "onboarding", "notifications"}

ShortenedStarts == {[month |-> 1, day |-> 29], [month |-> 11, day |-> 31], [month |-> 12, day |-> 30]}

VARIABLE part

AllInit ==
    /\ part \in {"screen", "sheet", "day", "month", "dates"}
    /\ ScreensInit /\ SheetInit /\ PickerInit /\ MonthInit /\ CalendarInit
    /\ part # "screen" => key = "bills" /\ mine = {1} /\ page = "household"
    /\ part # "day" => reduced /\ desktop /\ day = EmptyField
    /\ part # "month" => field = Today /\ wide
    /\ part # "dates" => subject = "purchase" /\ purchase = [total |-> 100, count |-> 7, date |-> [month |-> 1, day |-> 29]]

AllNext ==
    /\ UNCHANGED part
    /\ part # "screen" => UNCHANGED screenVars
    /\ part # "sheet" => UNCHANGED historyVars
    /\ part # "day" => UNCHANGED pickerVars
    /\ part # "month" => UNCHANGED monthVars
    /\ part # "dates" => UNCHANGED calendarVars
    /\ \/ part = "screen" /\ ScreensNext
       \/ part = "sheet" /\ (SheetHistoryNext \/ HistoryIdle)
       \/ part = "day" /\ (DayPickerNext \/ PickerIdle)
       \/ part = "month" /\ MonthPickerNext
       \/ part = "dates" /\ (CalendarNext \/ CalendarIdle)

AllSpec == AllInit /\ [][AllNext]_<<screenVars, historyVars, pickerVars, monthVars, calendarVars, part>>
=============================================================================
