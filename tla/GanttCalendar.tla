---------------------------- MODULE GanttCalendar ----------------------------
(***************************************************************************)
(* packages/gantt-calc, calendar.ts: the calendar of working days a schedule *)
(* may run in.  Days are numbered from 1970-01-01, a Thursday; a calendar    *)
(* has the days of the week (0 is Sunday) and the dates nobody works.        *)
(***************************************************************************)
EXTENDS Integers, FiniteSets

Weekdays == 0..6
EpochDow == 4
IsCalendar(c) ==
  /\ c.weekend \in SUBSET Weekdays /\ c.weekend # Weekdays
  /\ c.holidays \subseteq Int /\ IsFiniteSet(c.holidays)

DayOfWeek(day) == (day + EpochDow) % 7
\* A holiday at a weekend counts once.
Holidays(c) == {h \in c.holidays : DayOfWeek(h) \notin c.weekend}
IsWorkingDay(c, day) == DayOfWeek(day) \notin c.weekend /\ day \notin Holidays(c)

\* The working slots among the first k of a week that starts on day 0.
WeekPrefix(c, k) == Cardinality({i \in 0..(k - 1) : DayOfWeek(i) \notin c.weekend})
PerWeek(c) == WeekPrefix(c, 7)
WorkOffset(c, n) == CHOOSE i \in Weekdays : DayOfWeek(i) \notin c.weekend /\ WeekPrefix(c, i) = n

Bug_HolidayTomorrow(c, n) ==
  (n \div 7) * PerWeek(c) + WeekPrefix(c, n % 7)
    - Cardinality({h \in Holidays(c) : 0 <= h /\ h <= n})
    + Cardinality({h \in Holidays(c) : n <= h /\ h < 0})
\* The working days of [0, n), or less those of [n, 0).
WorkingDaysUpTo(c, n) ==
  (n \div 7) * PerWeek(c) + WeekPrefix(c, n % 7)
    - Cardinality({h \in Holidays(c) : 0 <= h /\ h < n})
    + Cardinality({h \in Holidays(c) : n <= h /\ h < 0})

ToOrdinal(c, day) == WorkingDaysUpTo(c, day)

Least(S) == CHOOSE x \in S : \A y \in S : x <= y

\* Bound: the days a loop over days may step, a week for each holiday and one more.
Reach(c) == 7 * (Cardinality(Holidays(c)) + 1)
NextWorkingDay(c, day) == Least({d \in day..(day + Reach(c)) : IsWorkingDay(c, d)})

\* The guess ignores the holidays; the loop steps on to the ordinal asked for.
FromOrdinal(c, ordinal) ==
  LET guess == (ordinal \div PerWeek(c)) * 7 + WorkOffset(c, ordinal % PerWeek(c))
  IN  NextWorkingDay(c, Least({d \in guess..(guess + Reach(c)) : WorkingDaysUpTo(c, d) >= ordinal}))
=============================================================================
