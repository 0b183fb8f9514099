---------------------------- MODULE CalendarDays ----------------------------
(***************************************************************************)
(* The calendar as it is defined: one day follows the other.  A walk from  *)
(* a known day keeps the date, the day of the week and the ISO week by the *)
(* rules for the next and the previous day alone, and is the reference for *)
(* the arithmetic of module Calendar.                                      *)
(***************************************************************************)
EXTENDS Calendar

CONSTANTS
    GregorianSpan,  \* bound: days before and after the first day of the Christian era
    ModernSpan,     \* bound: days after the first day of 1601
    JulianSpan      \* bound: days before and after the first day of the Julian calendar

SpanAssumption == {GregorianSpan, ModernSpan, JulianSpan} \subseteq Nat

VARIABLES
    n,              \* the absolute date
    date,           \* [year, month, day, cal]
    weekday,        \* 1 (Monday) .. 7 (Sunday)
    ordinal,        \* the day of the year
    back            \* the walk goes into the past

vars == <<n, date, weekday, ordinal, back>>

Day(y, m, d, c) == [year |-> y, month |-> m, day |-> d, cal |-> c]

\* 400 years have 146097 days, a whole number of weeks
Starts == { [n |-> 1, date |-> Day(1, 1, 1, Gregorian), weekday |-> 1],
            [n |-> 4 * 146097 + 1, date |-> Day(1601, 1, 1, Gregorian), weekday |-> 1],
            [n |-> -1, date |-> Day(1, 1, 1, Julian), weekday |-> 6] }

Init ==
    \E s \in Starts :
        /\ n = s.n /\ date = s.date /\ weekday = s.weekday /\ ordinal = 1
        /\ back \in (IF s.n > 1 THEN {FALSE} ELSE BOOLEAN)

Inside ==
    IF date.cal = Julian THEN n \in -JulianSpan .. JulianSpan
    ELSE n \in -GregorianSpan .. GregorianSpan \/ n \in 4 * 146097 + 1 .. 4 * 146097 + ModernSpan

\* The rule of the calendar itself, without the code's tables
MonthLength(y, m, c) ==
    CASE m \in {4, 6, 9, 11} -> 30
      [] m = 2 -> IF y % 4 = 0 /\ (c = Julian \/ y % 100 # 0 \/ y % 400 = 0) THEN 29 ELSE 28
      [] OTHER -> 31

YearLength(y, c) == 337 + MonthLength(y, 2, c)

Tomorrow ==
    LET y == date.year  m == date.month  d == date.day  c == date.cal IN
    /\ ~back /\ Inside
    /\ n' = n + 1
    /\ date' = CASE d < MonthLength(y, m, c) -> Day(y, m, d + 1, c)
                 [] d = MonthLength(y, m, c) /\ m < 12 -> Day(y, m + 1, 1, c)
                 [] d = MonthLength(y, m, c) /\ m = 12 -> Day(y + 1, 1, 1, c)
    /\ weekday' = (weekday % 7) + 1
    /\ ordinal' = IF date'.year = y THEN ordinal + 1 ELSE 1
    /\ UNCHANGED back

Yesterday ==
    LET y == date.year  m == date.month  d == date.day  c == date.cal IN
    /\ back /\ Inside
    /\ n' = n - 1
    /\ date' = CASE d > 1 -> Day(y, m, d - 1, c)
                 [] d = 1 /\ m > 1 -> Day(y, m - 1, MonthLength(y, m - 1, c), c)
                 [] d = 1 /\ m = 1 -> Day(y - 1, 12, 31, c)
    /\ weekday' = IF weekday = 1 THEN 7 ELSE weekday - 1
    /\ ordinal' = IF date'.year = y THEN ordinal - 1 ELSE YearLength(y - 1, c)
    /\ UNCHANGED back

Next == Tomorrow \/ Yesterday

Spec == Init /\ [][Next]_vars

-----------------------------------------------------------------------------

(* The loop of _setAbsDate that corrects the year stops, for every day.    *)
SearchEnds == LET year == corrected(n, date.cal) IN year[Turns + 1] = year[Turns]

(* normalizedDate and _setAbsDate, with their tables, their special cases  *)
(* for years before the first and their approximation of the year, find    *)
(* for each day its number and for each number its day.                    *)
DatesExact ==
    LET c == date.cal
        forward == normalizedDate(date.year, date.month, date.day, c)
        back_ == setAbsDate(n, c)
    IN  /\ forward.ok = "ok" /\ forward.absdate = n /\ forward.day_of_year = ordinal
        /\ back_.year = date.year /\ back_.month = date.month /\ back_.day = date.day
        /\ back_.day_of_year = ordinal

(* Counted from the end of the month and of the year, as normalizedDate    *)
(* allows, every day has the same absolute date.                           *)
NegativeExact ==
    LET c == date.cal
        counted == normalizedDate(date.year, date.month - 13,
                                  date.day - MonthLength(date.year, date.month, c) - 1, c)
    IN  counted.ok = "ok" /\ counted.absdate = n

(* The day of the week is right on both sides of day 0 and in both         *)
(* calendars.                                                              *)
WeekdayExact == dayOfWeek(n) + 1 = weekday

(* The ISO week is the one its Thursday is in: both of the code's ways to  *)
(* compute it, timelib's for dates after 1600 only (a comment in the code  *)
(* says that it is wrong for early dates).                                 *)
IsoWeekExact ==
    LET thursday == ordinal - weekday + 4
        length == YearLength(date.year, date.cal)
        week(y, o) == [year |-> y, week |-> (o - 1) \div 7 + 1]
        reference == CASE thursday < 1 -> week(date.year - 1, thursday + YearLength(date.year - 1, date.cal))
                       [] thursday > length -> week(date.year + 1, thursday - length)
                       [] OTHER -> week(date.year, thursday)
    IN  /\ getISOWeekTuple(date.year, date.day, dayOfWeek(n), ordinal, date.cal) = reference
        /\ date.year > 1600 => /\ timelib_isoweek_from_date(date.year, date.month, date.day) = reference
                               /\ timelib_iso_day_of_week(date.year, date.month, date.day) = weekday

(* os-datetime.cpp:652 says that day_of_week is 0 on Monday and 6 on       *)
(* Sunday: the letter D of format prints the name of that day.             *)
DayNamed ==
    formatD(dayOfWeek(n)) = <<"Mon", "Tue", "Wed", "Thu", "Fri", "Sat", "Sun">>[weekday]

(* Every day of both calendars has its number, its day of the week and its *)
(* week.                                                                   *)
CalendarExact == SearchEnds /\ DatesExact /\ NegativeExact /\ WeekdayExact /\ IsoWeekExact
=============================================================================
