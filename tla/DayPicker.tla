------------------------------ MODULE DayPicker -------------------------------
\* DateInput, its DateCalendar and useCalendarSwipe (date-fields.tsx): a month that
\* fingers drag, arrows turn and a click leaves, in a popover, a sheet or a panel of
\* a dialog. The panels are moved at once, the month only when they have come to
\* rest: by transitionend or, when there is no transition, by a timer.
\* Each month has two days, enough to tell the same day from another one. The
\* generation of a slide goes up and is dropped with it, and is left out.
EXTENDS Integers

CONSTANTS
    Pointers,       \* fingers, or a mouse; 0 is none of them
    Farthest,       \* Bound: months around the first one
    MaxGestures     \* Bound: presses, arrows and other acts of the user

ASSUME DayPickerAssumption == Farthest \in Nat \ {0} /\ MaxGestures \in Nat /\ 0 \notin Pointers

VARIABLES
    reduced,        \* prefers-reduced-motion
    desktop,        \* isDesktop: a popover, otherwise a sheet
    day,            \* value of the field, EmptyField when it is empty
    open,
    cursor,         \* month of the calendar, kept while it is closed
    slide,          \* pending, or NoSlide
    px,             \* dragPx: 0, Dragged, or a panel's width to a side
    heading,        \* headingDelta: the panel that answers to clicks
    drag,           \* dragRef, or NoDrag
    down,           \* the pointers that are down
    suppress,       \* suppressClick
    gestures,
    reached,        \* the month that the user's turns add up to
    seized          \* a press took the drag of another, with the panels aside

pickerVars == <<reduced, desktop, day, open, cursor, slide, px, heading, drag, down, suppress, gestures, reached, seized>>

Months == -Farthest..Farthest
EmptyField == [month |-> 0, n |-> 0]
Dates == [month : Months, n : 1..2]
NoSlide == [from |-> 0, delta |-> 0]
NoDrag == [pointer |-> 0, axis |-> "none"]
Dragged == 2        \* neither at rest nor a whole panel away

PickerInit ==
    /\ reduced \in BOOLEAN /\ desktop \in BOOLEAN
    /\ day \in {EmptyField, [month |-> 0, n |-> 1]} /\ cursor = 0 /\ reached = 0
    /\ open = FALSE /\ slide = NoSlide /\ px = 0 /\ heading = 0
    /\ drag = NoDrag /\ down = {} /\ suppress = FALSE /\ gestures = 0 /\ seized = FALSE

Acts == gestures < MaxGestures /\ gestures' = gestures + 1

ResetVisual == slide' = NoSlide /\ px' = 0 /\ heading' = 0 /\ seized' = FALSE

\* The hook goes with its calendar: what it was sliding to is lost.
Unmount ==
    /\ slide' = NoSlide /\ px' = 0 /\ heading' = 0 /\ drag' = NoDrag /\ suppress' = FALSE
    /\ seized' = FALSE

\* The field opens and closes it; so do Escape, a press outside and the sheet.
Toggle ==
    /\ Acts
    /\ open' = ~open /\ Unmount /\ reached' = cursor
    /\ UNCHANGED <<reduced, desktop, day, cursor, down>>

\* The window becomes wider or narrower than DESKTOP_MONTH_QUERY: another shell.
Rotate ==
    /\ Acts /\ open
    /\ desktop' = ~desktop /\ Unmount /\ reached' = cursor
    /\ UNCHANGED <<reduced, day, open, cursor, down>>

\* Fault: the arrow counts from the month still shown in the state.
MonthInState == cursor

\* An arrow counts from where a slide is going.
Base == IF slide # NoSlide THEN slide.from + slide.delta ELSE cursor

Jump(delta) ==
    /\ Base + delta \in Months
    /\ ResetVisual /\ cursor' = Base + delta

Arrow(delta) ==
    /\ Acts /\ open /\ ~suppress /\ Jump(delta) /\ reached' = reached + delta
    /\ UNCHANGED <<reduced, desktop, day, open, drag, down, suppress>>

\* A press is ignored while a slide is pending. It takes the place of another
\* pointer's, or of one whose release never reached the calendar.
PointerDown(p) ==
    /\ Acts /\ open /\ p \notin down
    /\ down' = down \cup {p}
    /\ drag' = IF slide = NoSlide THEN [pointer |-> p, axis |-> "none"] ELSE drag
    /\ seized' = (seized \/ (slide = NoSlide /\ px # 0))
    /\ UNCHANGED <<reduced, desktop, day, open, cursor, slide, px, heading, suppress, reached>>

\* The first ten pixels tell a swipe from a scroll.
PointerMove(p) ==
    /\ open /\ drag.pointer = p
    /\ \/ drag.axis = "none" /\ drag' = NoDrag /\ UNCHANGED <<px, seized>>
       \/ drag' = [drag EXCEPT !.axis = "x"] /\ px' \in {-1, 0, 1, Dragged} /\ seized' = FALSE
    /\ UNCHANGED <<reduced, desktop, day, open, cursor, slide, heading, down, suppress, gestures, reached>>

\* commit: the panels go to the side at once, the month follows.
CommitSwipe(delta) ==
    IF reduced THEN Jump(delta)
    ELSE /\ cursor + delta \in Months
         /\ slide' = [from |-> cursor, delta |-> delta]
         /\ px' = -delta /\ heading' = delta /\ seized' = FALSE /\ UNCHANGED cursor

\* endDrag: too short or too slow a swipe goes back, a cancelled one too.
EndDrag(delta) ==
    /\ drag' = NoDrag
    /\ IF drag.axis # "x" THEN delta = 0 /\ UNCHANGED <<px, heading, slide, seized, cursor, suppress>>
       ELSE /\ suppress' = TRUE
            /\ IF delta = 0 THEN px' = 0 /\ seized' = FALSE /\ UNCHANGED <<heading, slide, cursor>>
               ELSE CommitSwipe(delta)
    /\ reached' = reached + delta

PointerUp(p, delta) ==
    /\ p \in down /\ down' = down \ {p}
    /\ IF open /\ drag.pointer = p THEN EndDrag(delta)
       ELSE delta = 0 /\ UNCHANGED <<px, heading, slide, drag, seized, cursor, suppress, reached>>
    /\ UNCHANGED <<reduced, desktop, day, open, gestures>>

\* The pointer left the calendar before it was captured, and was released outside.
PointerLost(p) ==
    /\ p \in down /\ drag.pointer = p => drag.axis = "none"
    /\ down' = down \ {p}
    /\ UNCHANGED <<reduced, desktop, day, open, cursor, slide, px, heading, drag, suppress, gestures, reached, seized>>

\* finishPending, by transitionend or by the timer; each clears the other.
FinishPending ==
    /\ slide # NoSlide
    /\ ResetVisual /\ cursor' = slide.from + slide.delta
    /\ UNCHANGED <<reduced, desktop, day, open, drag, down, suppress, gestures, reached>>

\* The timer of endDrag.
ClicksAgain ==
    /\ suppress /\ suppress' = FALSE
    /\ UNCHANGED <<reduced, desktop, day, open, cursor, slide, px, heading, drag, down, gestures, reached, seized>>

\* onPick closes the calendar; the effect on value moves the cursor, unless the
\* value is the one there was or empty. "Limpar" is outside the panels, whose clicks
\* are swallowed right after a swipe.
PickDay(next) ==
    /\ Acts /\ open
    /\ next # EmptyField => ~suppress /\ next.month \in (cursor + heading - 1)..(cursor + heading + 1)
    /\ day' = next /\ open' = FALSE /\ Unmount
    /\ cursor' = IF next \in {day, EmptyField} THEN cursor ELSE next.month
    /\ reached' = cursor'
    /\ UNCHANGED <<reduced, desktop, down>>

\* The form sets the field: another entry is edited.
FormSets(next) ==
    /\ Acts /\ ~open /\ next # day
    /\ day' = next
    /\ cursor' = IF next = EmptyField THEN cursor ELSE next.month
    /\ reached' = cursor'
    /\ UNCHANGED <<reduced, desktop, open, slide, px, heading, drag, down, suppress, seized>>

DayPickerNext ==
    \/ Toggle \/ Rotate \/ FinishPending \/ ClicksAgain
    \/ \E delta \in {-1, 1} : Arrow(delta)
    \/ \E p \in Pointers : PointerDown(p) \/ PointerMove(p) \/ PointerLost(p)
                           \/ \E delta \in -1..1 : PointerUp(p, delta)
    \/ \E next \in Dates \cup {EmptyField} : PickDay(next) \/ FormSets(next)

\* The user does nothing more.
PickerIdle == gestures = MaxGestures /\ UNCHANGED pickerVars

DayPickerSpec == PickerInit /\ [][DayPickerNext \/ PickerIdle]_pickerVars

-------------------------------------------------------------------------------
\* Swipes, arrows and picks add up: the month shown, or the one a slide is going to,
\* is the one that all of them lead to, whatever came while a slide was pending.
\* Only a slide cut short by closing the calendar is not counted (date-fields.tsx:264-291).
TurnsAddUp == reached = cursor + slide.delta

\* At rest the month is straight in its place, unless a press took over another
\* pointer's drag and with it the way back of the panels (date-fields.tsx:307-322, 348-372).
RestsStraight ==
    /\ drag = NoDrag /\ slide = NoSlide => px = 0 \/ seized
    /\ heading # 0 => slide # NoSlide

\* The calendar is where the gestures brought it, and straight.
CalendarFollowsTheHand == TurnsAddUp /\ RestsStraight
===============================================================================
