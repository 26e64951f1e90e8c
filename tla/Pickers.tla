------------------------------- MODULE Pickers --------------------------------
\* The two pickers of date-fields.tsx. They share no state: what each promises is
\* promised of both.
EXTENDS DayPicker, MonthPicker

PickersSpec == DayPickerSpec /\ MonthPickerSpec

\* A month that is swiped, scrolled or stepped to is the one the picker ends up with.
PickersFollowTheHand == CalendarFollowsTheHand /\ MonthsStayTrue
===============================================================================
