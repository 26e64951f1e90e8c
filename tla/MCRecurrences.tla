---------------------------- MODULE MCRecurrences ----------------------------
\* Two generations at a time over three days, weeks of two and months of three.
EXTENDS Recurrences

CONSTANTS g1, g2

MCSchedules == {[frequency |-> "WEEKLY", day |-> 0], [frequency |-> "MONTHLY", day |-> 0]}
=============================================================================
