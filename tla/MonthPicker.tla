------------------------------ MODULE MonthPicker -----------------------------
\* MonthInput and WheelColumn (date-fields.tsx) over month-range.ts: two arrows
\* beside the field; a grid of one year on a wide screen, which writes at once; two
\* wheels on a narrow one, which turn a draft until it is confirmed. A scroll is
\* answered with what the last rendering held, and two of them may come before the
\* next. A month is counted as monthIndex does.
EXTENDS Integers

CONSTANTS
    MonthsPerYear,      \* Bound: 12 in the code
    MinYear, MaxYear,\* MIN_MONTH_YEAR and maxMonthYear
    Today,              \* currentMonth
    NoMonth             \* an empty field

Window == (MinYear * MonthsPerYear)..(MaxYear * MonthsPerYear + MonthsPerYear - 1)
AroundWindow == ((MinYear - 1) * MonthsPerYear)..(MaxYear * MonthsPerYear + 2 * MonthsPerYear - 1)

ASSUME MonthPickerAssumption ==
    /\ MonthsPerYear \in Nat \ {0} /\ MinYear \in Nat \ {0} /\ MaxYear \in Nat /\ MinYear <= MaxYear
    /\ Today \in Window /\ NoMonth \notin AroundWindow

VARIABLES
    field,      \* the value of the input
    isOpen,
    wide,       \* isDesktop
    draft,      \* cursor, as the updates leave it
    drawn,      \* cursor, as the last rendering has it
    wheels,     \* what each wheel has in its middle
    byHand,     \* wheels whose fromScroll is set
    together,   \* a wheel was turned before the turn of another was drawn
    inside      \* the field has held a month of the window

monthVars == <<field, isOpen, wide, draft, drawn, wheels, byHand, together, inside>>
wheelVars == <<wheels, byHand, together>>

YearOf(m) == m \div MonthsPerYear
Parts(m) == [month |-> m % MonthsPerYear, year |-> YearOf(m)]
Turned(m, column, item) == IF column = "month" THEN YearOf(m) * MonthsPerYear + item
                           ELSE item * MonthsPerYear + (m % MonthsPerYear)
Columns == {"month", "year"}

Lesser(a, b) == IF a < b THEN a ELSE b
Greater(a, b) == IF a > b THEN a ELSE b

Oldest == MinYear * MonthsPerYear
Newest == MaxYear * MonthsPerYear + MonthsPerYear - 1

\* From inside, up to the edge; from outside, only towards it.
ShiftMonth(m, delta) ==
    IF m = NoMonth THEN m
    ELSE IF m \in Window THEN Lesser(Newest, Greater(Oldest, m + delta))
    ELSE IF (m < Oldest /\ delta < 0) \/ (m > Newest /\ delta > 0) THEN m
    ELSE m + delta

CanShiftYear(year, delta) ==
    IF year < MinYear THEN delta > 0
    ELSE IF year > MaxYear THEN delta < 0
    ELSE year + delta \in MinYear..MaxYear

YearItems == Lesser(MinYear, YearOf(drawn))..Greater(MaxYear, YearOf(drawn))
Items(column) == IF column = "month" THEN 0..(MonthsPerYear - 1) ELSE YearItems

\* The draft that an opening starts from, or a change of the field while open.
Fresh(m) == IF m = NoMonth THEN Today ELSE m

MonthInit ==
    /\ field \in AroundWindow \cup {NoMonth} /\ inside = (field \in Window)
    /\ isOpen = FALSE /\ wide \in BOOLEAN
    /\ draft = Fresh(field) /\ drawn = draft /\ wheels = Parts(draft)
    /\ byHand = {} /\ together = FALSE

WritesMonth(m) == field' = m /\ inside' = (inside \/ m \in Window)

\* A new panel: its wheels are scrolled to the draft.
Mounts(m) == wheels' = Parts(m) /\ byHand' = {} /\ together' = FALSE

\* stepTrigger; the wheels' sheet covers the arrows.
StepTrigger(delta) ==
    LET next == ShiftMonth(field, delta) IN
    /\ isOpen => wide
    /\ next # field /\ WritesMonth(next)
    /\ IF isOpen THEN draft' = next /\ drawn' = next ELSE UNCHANGED <<draft, drawn>>
    /\ UNCHANGED <<isOpen, wide>> /\ UNCHANGED wheelVars

OpenPicker ==
    /\ ~isOpen /\ isOpen' = TRUE
    /\ draft' = Fresh(field) /\ drawn' = draft' /\ Mounts(Fresh(field))
    /\ UNCHANGED <<field, wide, inside>>

\* The field again, Escape, a press outside, the sheet's handle. The draft is left.
ClosePicker ==
    /\ isOpen /\ isOpen' = FALSE /\ draft = drawn
    /\ UNCHANGED <<field, wide, draft, drawn, inside>> /\ UNCHANGED wheelVars

\* The window becomes wider or narrower: the other panel, with the same draft.
Resize ==
    /\ wide' = ~wide /\ draft = drawn /\ Mounts(draft)
    /\ UNCHANGED <<field, isOpen, draft, drawn, inside>>

OnGrid == isOpen /\ wide

Drafts(m) == draft' = m /\ drawn' = m

\* Arrow keys on the grid, three months to a row.
MoveCursor(delta) ==
    /\ OnGrid /\ ShiftMonth(draft, delta) # draft /\ Drafts(ShiftMonth(draft, delta))
    /\ UNCHANGED <<field, isOpen, wide, inside>> /\ UNCHANGED wheelVars

MoveYear(delta) ==
    /\ OnGrid /\ CanShiftYear(YearOf(draft), delta) /\ Drafts(draft + delta * MonthsPerYear)
    /\ UNCHANGED <<field, isOpen, wide, inside>> /\ UNCHANGED wheelVars

\* A month of the grid, or "Mês atual" below it: written, and the panel closes.
PickMonth(m) ==
    /\ OnGrid /\ (YearOf(m) = YearOf(draft) \/ m = Today)
    /\ WritesMonth(m) /\ isOpen' = FALSE
    /\ UNCHANGED <<wide, draft, drawn>> /\ UNCHANGED wheelVars

OnWheels == isOpen /\ ~wide

\* The layout effect of each wheel whose item changed: one turned by hand is already
\* there, the others are scrolled.
Draw(m) ==
    LET moved == {c \in Columns : Parts(m)[c] # Parts(drawn)[c]} IN
    /\ drawn' = m
    /\ byHand' = byHand \ moved
    /\ wheels' = [c \in Columns |-> IF c \in moved \ byHand THEN Parts(m)[c] ELSE wheels[c]]
    /\ together' = (together /\ (byHand' # {} \/ wheels' # Parts(m)))

\* A click on an item, an arrow key, or "Mês atual" below the wheels: drawn at once.
Choose(m) ==
    /\ OnWheels /\ draft = drawn
    /\ m = Today \/ \E c \in Columns : \E item \in Items(c) : m = Turned(drawn, c, item)
    /\ m # drawn /\ draft' = m /\ Draw(m)
    /\ UNCHANGED <<field, isOpen, wide, inside>>

\* A wheel comes to have another item in its middle.
Scroll(column, item) ==
    /\ OnWheels /\ item \in Items(column) \ {wheels[column]}
    /\ wheels' = [wheels EXCEPT ![column] = item]
    /\ IF item # Parts(drawn)[column]
       THEN byHand' = byHand \cup {column} /\ draft' = Turned(drawn, column, item)
       ELSE UNCHANGED <<byHand, draft>>
    /\ together' = (together \/ draft # drawn)
    /\ UNCHANGED <<field, isOpen, wide, drawn, inside>>

RenderPicker ==
    /\ draft # drawn /\ Draw(draft)
    /\ UNCHANGED <<field, isOpen, wide, draft, inside>>

\* "Confirmar" writes the draft it was drawn with.
Confirm ==
    /\ OnWheels /\ draft = drawn
    /\ WritesMonth(drawn) /\ isOpen' = FALSE
    /\ UNCHANGED <<wide, draft, drawn>> /\ UNCHANGED wheelVars

MonthPickerNext ==
    \/ \E delta \in {-1, 1} : StepTrigger(delta) \/ MoveYear(delta)
    \/ \E delta \in {-3, -1, 1, 3} : MoveCursor(delta)
    \/ OpenPicker \/ ClosePicker \/ Resize \/ RenderPicker \/ Confirm
    \/ \E m \in AroundWindow : PickMonth(m) \/ Choose(m)
    \/ \E c \in Columns : \E item \in Items(c) : Scroll(c, item)

MonthPickerSpec == MonthInit /\ [][MonthPickerNext]_monthVars

-------------------------------------------------------------------------------
\* What the wheels have in their middle is the month that Confirmar writes, unless one
\* was turned before the turn of the other was drawn: the second answer then holds
\* the old item of the first, whose wheel stays where it is (date-fields.tsx:646-665, 984-1014).
WheelsShowTheDraft == OnWheels /\ draft = drawn => (wheels = Parts(draft) /\ byHand = {}) \/ together

\* Once the field holds a month of the window, no arrow, year, wheel or key takes it
\* out; from outside it may only come in (month-range.ts:31-51, docs/34 5.2).
StaysInTheWindow ==
    /\ inside => field \in Window
    /\ isOpen /\ inside => draft \in Window

\* The month that is shown is the month that is written, within the window.
MonthsStayTrue == WheelsShowTheDraft /\ StaysInTheWindow
===============================================================================
