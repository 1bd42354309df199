------------------------------ MODULE NextRun ------------------------------
(***************************************************************************)
(* When a scheduled report of app_risk runs next: calculate_next_run, and  *)
(* the recalculation in ScheduledReport.save().                            *)
(*                                                                         *)
(* A day of the site's time zone has four parts, as long as one likes, of  *)
(* which a report's execution_time begins one; time counts the parts, and  *)
(* part 4*d is the first of day d.  timezone.now() is UTC, whose date      *)
(* changes Offset parts later than the local one.  Months are numbered     *)
(* through the years, so that the next month is k + 1.                     *)
(***************************************************************************)
EXTENDS Integers, FiniteSetsExt

CONSTANTS Years,      \* years in the calendar, the first of which is 1
          LeapYears,
          Offset      \* parts of the day from local midnight to UTC midnight

ASSUME CalendarAssumption == Years \in Nat \ {0} /\ LeapYears \subseteq 1..Years

\* Midnights are less than a day apart; the local one comes first in the east.
ASSUME OffsetAssumption == Offset \in -3..3

Months == 1..(12 * Years)
Year(k) == ((k - 1) \div 12) + 1
MonthOfYear(k) == ((k - 1) % 12) + 1

Length(k) ==
    CASE MonthOfYear(k) = 2 -> IF Year(k) \in LeapYears THEN 29 ELSE 28
      [] MonthOfYear(k) \in {4, 6, 9, 11} -> 30
      [] OTHER -> 31

\* The day number of the first of each month.
FirstDay[k \in Nat \ {0}] == IF k = 1 THEN 0 ELSE FirstDay[k - 1] + Length(k - 1)
FirstDays == [k \in 1..(12 * Years + 1) |-> FirstDay[k]]

MonthOf == [day \in 0..(FirstDays[12 * Years + 1] - 1) |->
               CHOOSE k \in Months : FirstDays[k] <= day /\ day < FirstDays[k + 1]]

DayOf(k, dom) == FirstDays[k] + dom - 1
DayOfMonth(day) == day - FirstDays[MonthOf[day]] + 1
Weekday(day) == day % 7

\* A day the calendar has.
InCalendar(day) == day \in 0..(FirstDays[12 * Years + 1] - 1)

LocalDay(t) == t \div 4
UtcDay(t) == (t - Offset) \div 4

\* The calendar has the UTC date of t and a whole year after the one it is in.
HasSpareYear(t) ==
    t \in Nat /\ UtcDay(t) >= 0 /\ UtcDay(t) < FirstDays[12 * Years - 11]

\* next_run is None.
Unset == -1

Frequencies == {"once", "daily", "weekly", "monthly", "quarterly", "yearly"}
Schedule == [frequency : Frequencies, start : Nat,
             weekdays : SUBSET (0..6), dayOfMonth : 1..31, at : 0..3]

\* execution_time of a local day: make_aware of a date combined with it.
At(day, s) == 4 * day + s.at

-----------------------------------------------------------------------------
(* calculate_next_run of a report with schedule s, by frequency.           *)

\* The dates compared with the start and counted from are UTC's.
StartsLater(s, now) ==
    \/ s.start > UtcDay(now)
    \/ s.start = UtcDay(now) /\ At(s.start, s) > now

\* A missed single run is due at once, as long as the report has never run.
NextOnce(s, now, ran) ==
    IF s.start >= UtcDay(now) \/ ~ran THEN At(s.start, s) ELSE Unset

\* Variant: the report may run again on the UTC day it has just run.
NextDailyToday(s, now) ==
    IF StartsLater(s, now) THEN At(s.start, s) ELSE At(UtcDay(now), s)

\* After the start day it is always the day after UTC's, whatever the time is.
NextDaily(s, now) ==
    IF StartsLater(s, now) THEN At(s.start, s) ELSE At(UtcDay(now) + 1, s)

\* Never UTC's day, and without regard to the start day.
NextWeekly(s, now) ==
    LET ahead == {(w - Weekday(UtcDay(now))) % 7 : w \in s.weekdays}
        offset == IF ahead \ {0} # {} THEN Min(ahead \ {0}) ELSE 7
    IN IF ahead = {} THEN Unset ELSE At(UtcDay(now) + offset, s)

Clamped(k, dom) == DayOf(k, IF dom > Length(k) THEN Length(k) ELSE dom)

\* A day the target month does not have: the next month's, cut to its length.
NextMonthly(s, now) ==
    LET k == MonthOf[UtcDay(now)]
        target == IF DayOfMonth(UtcDay(now)) >= s.dayOfMonth THEN k + 1 ELSE k
    IN At(IF s.dayOfMonth <= Length(target) THEN DayOf(target, s.dayOfMonth)
                                            ELSE Clamped(k + 1, s.dayOfMonth), s)

\* The start's day in January, April, July or October of this year or the next.
NextQuarterly(s, now) ==
    LET thisYear == Year(MonthOf[UtcDay(now)])
        quarters == {k \in Months : k % 3 = 1 /\ Year(k) \in {thisYear, thisYear + 1}}
        candidates == {At(Clamped(k, DayOfMonth(s.start)), s) : k \in quarters}
    IN IF StartsLater(s, now) THEN At(s.start, s)
       ELSE Min({c \in candidates : c > now})

\* This day of next year, which 29 February does not have: ValueError.
HasNextYear(now) ==
    DayOfMonth(UtcDay(now)) <= Length(MonthOf[UtcDay(now)] + 12)
NextYearly(s, now) ==
    At(DayOf(MonthOf[UtcDay(now)] + 12, DayOfMonth(UtcDay(now))), s)

\* `ran` is run_count > 0.
CalculateNextRun(s, now, ran) ==
    CASE s.frequency = "once" -> NextOnce(s, now, ran)
      [] s.frequency = "daily" -> NextDaily(s, now)
      [] s.frequency = "weekly" -> NextWeekly(s, now)
      [] s.frequency = "monthly" -> NextMonthly(s, now)
      [] s.frequency = "quarterly" -> NextQuarterly(s, now)
      [] s.frequency = "yearly" -> NextYearly(s, now)

CanCalculate(s, now) == s.frequency = "yearly" => HasNextYear(now)
=============================================================================
