------------------------- MODULE MCScheduledReports -------------------------
(* Instances of ScheduledReports: 29 February of a leap year from its local  *)
(* midnight, when UTC still has the day before, from UTC midnight, and UTC's *)
(* next day.  The single report is for this day; the others are overdue,     *)
(* because the site was down.                                                *)
EXTENDS ScheduledReports

\* The second year is the leap year.
LeapDay == DayOf(14, 29)
Nights == {4 * LeapDay, 4 * LeapDay + 1, 4 * LeapDay + 5}

Plain(frequency, start, part) ==
    [frequency |-> frequency, start |-> start, weekdays |-> {}, dayOfMonth |-> 31,
     at |-> part]

Created(schedule, day) == [schedule |-> schedule, created |-> 4 * day + 2]

SchedulesChosen ==
    {Created(Plain("once", LeapDay, 0), LeapDay - 1),
     Created(Plain("monthly", LeapDay, 1), LeapDay - 31),
     Created(Plain("yearly", LeapDay, 0), LeapDay - 366)}

EditsChosen == {Plain("daily", LeapDay - 9, 0)}
=============================================================================
