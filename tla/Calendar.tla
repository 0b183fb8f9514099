------------------------------ MODULE Calendar ------------------------------
(***************************************************************************)
(* The calendar arithmetic of the datetime extension, as functions: the    *)
(* absolute date of a date and back, the day of the week, and the number   *)
(* of the ISO week, which the code computes in two ways.  An absolute date *)
(* is the number of days since the last day of the year 0 of the Gregorian *)
(* calendar.                                                               *)
(***************************************************************************)
EXTENDS Integers, Sequences, FiniteSetsExt

\* Division and remainder of C++ go towards zero
CDiv(a, b) == IF a >= 0 THEN a \div b ELSE -((-a) \div b)
CMod(a, b) == a - b * CDiv(a, b)

Gregorian == 0
Julian == 1
Calendars == {Gregorian, Julian}

\* The index is 1 for an ordinary year and 2 for a leap year
Row(leap) == IF leap THEN 2 ELSE 1

month_offset == << <<0, 31, 59, 90, 120, 151, 181, 212, 243, 273, 304, 334, 365>>,
                   <<0, 31, 60, 91, 121, 152, 182, 213, 244, 274, 305, 335, 366>> >>

days_in_month == << <<31, 28, 31, 30, 31, 30, 31, 31, 30, 31, 30, 31>>,
                    <<31, 29, 31, 30, 31, 30, 31, 31, 30, 31, 30, 31>> >>

isLeapyear(year, cal) ==
    CMod(year, 4) = 0 /\ (cal = Gregorian => CMod(year, 100) # 0 \/ CMod(year, 400) = 0)

\* 0 is Monday
dayOfWeek(absdate) == IF absdate >= 1 THEN (absdate - 1) % 7 ELSE 6 - ((-absdate) % 7)

\* The absolute date of the last day of the year before
yearOffset(year, cal) ==
    LET y == IF year >= 1 THEN year - 1 ELSE -year
        days == y * 365 + y \div 4 - (IF cal = Gregorian THEN y \div 100 - y \div 400 ELSE 0)
    IN  (IF year >= 1 THEN days ELSE -days - 366) - (IF cal = Gregorian THEN 0 ELSE 2)

fromEnd(x, length) == IF x < 0 THEN x + length + 1 ELSE x

\* Negative months and days count from the end; Error stands for the exceptions
Error == "error"

normalizedDate(year, month, day, cal) ==
    LET leap == Row(isLeapyear(year, cal))
        m == fromEnd(month, 12)
        d == fromEnd(day, days_in_month[leap][m])
        yearoffset == yearOffset(year, cal)
    IN  IF m \notin 1 .. 12 \/ d \notin 1 .. days_in_month[leap][m]
        THEN [ok |-> Error]
        ELSE [ok |-> "ok", year |-> year, month |-> m, day |-> d,
              absdate |-> d + month_offset[leap][m] + yearoffset,
              day_of_year |-> d + month_offset[leap][m]]

-----------------------------------------------------------------------------
(* _setAbsDate.                                                            *)

approximateYear(absdate, cal) ==
    (IF cal = Gregorian THEN CDiv(absdate * 400, 146097) ELSE CDiv(absdate * 4, 1461))
        + (IF absdate > 0 THEN 1 ELSE 0)

\* One turn of the loop; a year that stays is the result
correction(year, absdate, cal) ==
    LET dayoffset == absdate - yearOffset(year, cal)
    IN  IF dayoffset <= 0 THEN year - 1
        ELSE IF dayoffset > (IF isLeapyear(year, cal) THEN 366 ELSE 365) THEN year + 1
        ELSE year

\* The year after the given number of turns
corrected(absdate, cal) ==
    LET year[n \in Nat] == IF n = 0 THEN approximateYear(absdate, cal)
                           ELSE correction(year[n - 1], absdate, cal)
    IN  year

\* Bound: the turns after which the approximation is right, one more than with exact division
Turns == 3

monthOf(leap, dayoffset) == Min({ m \in 1 .. 12 : month_offset[leap][m + 1] >= dayoffset })

setAbsDate(absdate, cal) ==
    LET year == corrected(absdate, cal)[Turns]
        leap == Row(isLeapyear(year, cal))
        dayoffset == absdate - yearOffset(year, cal)
        month == monthOf(leap, dayoffset)
    IN  [year |-> year, month |-> month, day |-> dayoffset - month_offset[leap][month],
         day_of_week |-> dayOfWeek(absdate), day_of_year |-> dayoffset]

-----------------------------------------------------------------------------
(* The functions taken over from timelib, for the format letters N, W, o.  *)

century_value(j) ==
    LET i == j - 17
        c == CMod(4 - i * 2 + CDiv(i + 1, 4), 7)
    IN  IF c < 0 THEN c + 7 ELSE c

m_table == << <<0, 3, 3, 6, 1, 4, 6, 2, 5, 0, 3, 5>>,
              <<6, 2, 3, 6, 1, 4, 6, 2, 5, 0, 3, 5>> >>

\* 0 is Sunday
timelib_day_of_week(y, m, d) ==
    LET y1 == CMod(y, 100)
    IN  CMod(century_value(CDiv(y, 100)) + y1 + m_table[Row(isLeapyear(y, Gregorian))][m]
                + CDiv(y1, 4) + d, 7)

timelib_iso_day_of_week(y, m, d) ==
    LET dow == timelib_day_of_week(y, m, d) IN IF dow = 0 THEN 7 ELSE dow

timelib_day_of_year(y, m, d) == month_offset[Row(isLeapyear(y, Gregorian))][m] + d - 1

\* Mutant: the first and the last days always belong to the year they are in
badIsoweek(y, m, d) ==
    LET weekday == timelib_iso_day_of_week(y, m, d)
        jan1weekday == timelib_iso_day_of_week(y, 1, 1)
        week == (timelib_day_of_year(y, m, d) + 1 + (7 - weekday) + (jan1weekday - 1)) \div 7
    IN  [year |-> y, week |-> IF jan1weekday > 4 THEN week - 1 ELSE week]

\* From the first of March of a leap year on doy is one too large
timelib_isoweek_from_date(y, m, d) ==
    LET y_leap == isLeapyear(y, Gregorian)
        prev_y_leap == isLeapyear(y - 1, Gregorian)
        doy == timelib_day_of_year(y, m, d) + 1 + (IF y_leap /\ m > 2 THEN 1 ELSE 0)
        weekday == timelib_iso_day_of_week(y, m, d)
        jan1weekday == timelib_iso_day_of_week(y, 1, 1)
        week == (doy + (7 - weekday) + (jan1weekday - 1)) \div 7
    IN  CASE doy <= 8 - jan1weekday /\ jan1weekday > 4 ->
                [year |-> y - 1,
                 week |-> IF jan1weekday = 5 \/ (jan1weekday = 6 /\ prev_y_leap) THEN 53 ELSE 52]
          [] ~ (doy <= 8 - jan1weekday /\ jan1weekday > 4)
             /\ (IF y_leap THEN 366 - (doy - 1) ELSE 365 - doy) < 4 - weekday ->
                [year |-> y + 1, week |-> 1]
          [] OTHER -> [year |-> y, week |-> IF jan1weekday > 4 THEN week - 1 ELSE week]

\* The other way, from the fields of an object
getISOWeekTuple(year, day, dow, doy, cal) ==
    LET estimate == doy - 1 - dow + 3
        week == estimate \div 7 + 1
    IN  CASE estimate < 0 ->
                [year |-> year - 1,
                 week |-> IF estimate > -2 \/ (estimate = -2 /\ isLeapyear(year - 1, cal)) THEN 53 ELSE 52]
          [] estimate >= 0 /\ week = 53 /\ 31 - day + dow < 3 -> [year |-> year + 1, week |-> 1]
          [] OTHER -> [year |-> year, week |-> week]

-----------------------------------------------------------------------------
(* The names of the days that format prints for the letters D and l.       *)

day_short_names == <<"Sun", "Mon", "Tue", "Wed", "Thu", "Fri", "Sat">>

formatD(day_of_week) == day_short_names[day_of_week + 1]

=============================================================================
