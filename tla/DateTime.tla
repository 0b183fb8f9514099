------------------------------ MODULE DateTime ------------------------------
(***************************************************************************)
(* A DateTime object of the datetime extension.  It stores the same moment *)
(* three times: as absolute date and time, as broken down values, and as   *)
(* a COM date.  Every operation must keep the three together, the ones     *)
(* that fail halfway included.  Times are whole seconds, the double that   *)
(* the code keeps truncated; a COM date is a whole number of days and the  *)
(* part of a day that its double is nearest to, in seconds, of the same    *)
(* sign.  Reading the seconds back out of that double may lose one.        *)
(* Years are small, so that the range checks on them never fail.           *)
(***************************************************************************)
EXTENDS Calendar

CONSTANTS
    Years, Months, MonthDays,       \* arguments of the setters, right and wrong ones
    Hours, Minutes, Seconds,
    AbsDates, AbsTimes,             \* absolute dates and times
    ComDates,                       \* records [int, frac]
    DayOffsets, TimeOffsets,        \* arguments of addAbsDateTimeOffset
    FirstDate, LastDate             \* bound: the absolute dates that additions stay in

DateTimeAssumption ==
    /\ AbsDates \subseteq FirstDate .. LastDate
    /\ \A c \in ComDates : c.frac \in -86399 .. 86399 /\ c.int * c.frac >= 0

VARIABLES
    dt,             \* the fields of the object
    threw,          \* the last operation has set an exception
    torn            \* the last assignment failed after it had written the date

vars == <<dt, threw, torn>>

SecondsPerDay == 86400
ComEpoch == 693594

\* The days since the epoch as a double, the time as a part of a day
com(absdate, abstime) ==
    LET days == absdate - ComEpoch
        signed == IF days < 0 THEN -abstime ELSE abstime
    IN  [int |-> days + CDiv(signed, SecondsPerDay), frac |-> CMod(signed, SecondsPerDay)]

Zero(cal) == [year |-> 0, month |-> 0, day |-> 0, hour |-> 0, minute |-> 0, second |-> 0,
              absdate |-> 0, abstime |-> 0, comdate |-> [int |-> 0, frac |-> 0],
              day_of_week |-> 0, day_of_year |-> 0, calendar |-> cal]

isZero(o) == o = Zero(o.calendar)

Init == dt = Zero(Gregorian) /\ threw = FALSE /\ torn = FALSE

-----------------------------------------------------------------------------
(* _setAbsTime, with its special case for the leap second.                 *)

timeFields(abstime) ==
    IF abstime = SecondsPerDay THEN [hour |-> 23, minute |-> 59, second |-> 60]
    ELSE [hour |-> abstime \div 3600, minute |-> (abstime % 3600) \div 60, second |-> abstime % 60]

withDate(o, absdate, cal) ==
    LET d == setAbsDate(absdate, cal)
    IN  [o EXCEPT !.absdate = absdate, !.calendar = cal, !.year = d.year, !.month = d.month,
                  !.day = d.day, !.day_of_week = d.day_of_week, !.day_of_year = d.day_of_year]

withTime(o, abstime) ==
    LET t == timeFields(abstime)
    IN  [o EXCEPT !.abstime = abstime, !.hour = t.hour, !.minute = t.minute, !.second = t.second]

-----------------------------------------------------------------------------

throws == threw' = TRUE /\ UNCHANGED <<dt, torn>>

setAbsDateTime(absdate, abstime, cal) ==
    IF abstime \notin 0 .. SecondsPerDay
    THEN throws
    ELSE /\ dt' = [withTime(withDate(dt, absdate, cal), abstime) EXCEPT !.comdate = com(absdate, abstime)]
         /\ threw' = FALSE /\ torn' = FALSE

validTime(h, mi, s) ==
    /\ h \in 0 .. 23 /\ mi \in 0 .. 59
    /\ s \in 0 .. 59 \/ (s = 60 /\ h = 23 /\ mi = 59)

\* The date part of setDateAndTime
written(o, d, cal) ==
    [o EXCEPT !.absdate = d.absdate, !.calendar = cal, !.year = d.year, !.month = d.month,
              !.day = d.day, !.day_of_year = d.day_of_year, !.day_of_week = dayOfWeek(d.absdate)]

\* The date is checked and written, then the time is checked
setDateAndTime(y, m, d, h, mi, s, cal) ==
    LET date == normalizedDate(y, m, d, cal)
        abstime == h * 3600 + mi * 60 + s
        whole == [written(dt, date, cal) EXCEPT !.abstime = abstime, !.hour = h, !.minute = mi,
                                                !.second = s, !.comdate = com(date.absdate, abstime)]
    IN
    IF <<y, m, d, h, mi, s>> = <<0, 0, 0, 0, 0, 0>>
    THEN dt' = Zero(cal) /\ threw' = FALSE /\ torn' = FALSE
    ELSE IF date.ok = Error THEN throws
    ELSE /\ dt' = IF validTime(h, mi, s) THEN whole ELSE written(dt, date, cal)
         /\ threw' = ~validTime(h, mi, s)
         /\ torn' = ~validTime(h, mi, s)

setYear(y) == setDateAndTime(y, dt.month, dt.day, dt.hour, dt.minute, dt.second, dt.calendar)
setMonth(m) == setDateAndTime(dt.year, m, dt.day, dt.hour, dt.minute, dt.second, dt.calendar)
setDay(d) == setDateAndTime(dt.year, dt.month, d, dt.hour, dt.minute, dt.second, dt.calendar)
setHour(h) == setDateAndTime(dt.year, dt.month, dt.day, h, dt.minute, dt.second, dt.calendar)
setMinute(mi) == setDateAndTime(dt.year, dt.month, dt.day, dt.hour, mi, dt.second, dt.calendar)
setSecond(s) == setDateAndTime(dt.year, dt.month, dt.day, dt.hour, dt.minute, s, dt.calendar)

\* The properties absdate, abstime and absdays
setAbsdate(absdate) == setAbsDateTime(absdate, dt.abstime, dt.calendar)
setAbsTime(abstime) == setAbsDateTime(dt.absdate, abstime, dt.calendar)
setAbsDays(days, seconds) == setAbsDateTime(days + 1, seconds, Gregorian)

\* Mutant: the part of the day always counts forwards
badComTime(c) == c.frac % SecondsPerDay

\* Before the epoch the part of the day counts backwards
comTime(c) == IF c.frac < 0 THEN -c.frac ELSE c.frac

\* The part of the day is a sum of powers of 1/2: a double has it exactly
isDyadic(frac) == frac % 675 = 0

\* The double may be a little less than the part of the day, and what it comes back as
\* is truncated
readTimes(c) == {comTime(c)} \cup (IF isDyadic(c.frac) THEN {} ELSE {comTime(c) - 1})

setCOMDate(c) ==
    /\ \E t \in readTimes(c) :
          dt' = [withTime(withDate(dt, c.int + ComEpoch, Gregorian), t) EXCEPT !.comdate = c]
    /\ threw' = FALSE /\ torn' = FALSE

-----------------------------------------------------------------------------
(* addAbsDateTimeOffset: the time is brought into one day.                 *)

\* The loop over times before midnight
borrow(t) ==
    IF t.abstime >= 0 THEN t
    ELSE LET days == Max({1, (-t.abstime) \div SecondsPerDay}) + 1
         IN  [absdate |-> t.absdate - days, abstime |-> t.abstime + days * SecondsPerDay]

\* The loop over times after midnight
carry(t) ==
    LET days == t.abstime \div SecondsPerDay
    IN  IF t.abstime < SecondsPerDay THEN t
        ELSE [absdate |-> t.absdate + days, abstime |-> t.abstime - days * SecondsPerDay]

\* The two short cuts for less than a day
shortcut(t) ==
    CASE t.abstime \in -SecondsPerDay .. -1 ->
            [absdate |-> t.absdate - 1, abstime |-> t.abstime + SecondsPerDay]
      [] t.abstime \in SecondsPerDay .. 2 * SecondsPerDay - 1 ->
            [absdate |-> t.absdate + 1, abstime |-> t.abstime - SecondsPerDay]
      [] OTHER -> t

normalized(absdate, abstime) == carry(borrow(shortcut([absdate |-> absdate, abstime |-> abstime])))

\* The object is given the sum of an object, here itself or a clone of it, and the offsets
addAbsDateTimeOffset(days, seconds) ==
    LET t == normalized(dt.absdate + days, dt.abstime + seconds)
    IN  /\ t.absdate \in FirstDate .. LastDate
        /\ setAbsDateTime(t.absdate, t.abstime, dt.calendar)

-----------------------------------------------------------------------------

Next ==
    \/ \E y \in Years, m \in Months, d \in MonthDays, h \in Hours, mi \in Minutes, s \in Seconds,
          cal \in Calendars : setDateAndTime(y, m, d, h, mi, s, cal)
    \/ (\E y \in Years : setYear(y)) \/ (\E m \in Months : setMonth(m)) \/ (\E d \in MonthDays : setDay(d))
    \/ (\E h \in Hours : setHour(h)) \/ (\E mi \in Minutes : setMinute(mi))
    \/ (\E s \in Seconds : setSecond(s))
    \/ \E a \in AbsDates, t \in AbsTimes, cal \in Calendars : setAbsDateTime(a, t, cal)
    \/ (\E a \in AbsDates : setAbsdate(a)) \/ (\E t \in AbsTimes : setAbsTime(t))
    \/ \E a \in AbsDates, t \in AbsTimes \cap 0 .. SecondsPerDay - 1 : setAbsDays(a, t)
    \/ \E c \in ComDates : setCOMDate(c)
    \/ \E a \in DayOffsets, t \in TimeOffsets : addAbsDateTimeOffset(a, t)

Spec == Init /\ [][Next]_vars

-----------------------------------------------------------------------------

(* The broken down values lie in the ranges that the comments of the       *)
(* structure give, except for the zero date.                               *)
TypeOK ==
    /\ threw \in BOOLEAN /\ torn \in BOOLEAN
    /\ isZero(dt) \/ (dt.month \in 1 .. 12 /\ dt.day \in 1 .. 31 /\ dt.day_of_year \in 1 .. 366)
    /\ dt.hour \in 0 .. 23 /\ dt.minute \in 0 .. 59 /\ dt.second \in 0 .. 60
    /\ dt.abstime \in 0 .. SecondsPerDay /\ dt.day_of_week \in 0 .. 6

(* Whatever was assigned in whatever order, through absolute dates, COM    *)
(* dates, fields or sums, and also after assignments that failed, the      *)
(* broken down date and the absolute date are the same day.                *)
DateAgrees ==
    isZero(dt) \/
    LET d == normalizedDate(dt.year, dt.month, dt.day, dt.calendar)
    IN  /\ d.ok = "ok" /\ d.absdate = dt.absdate /\ d.day_of_year = dt.day_of_year
        /\ dt.day_of_week = dayOfWeek(dt.absdate)

(* So are the two times; a second 60 exists only at the end of a day.      *)
TimeAgrees ==
    /\ dt.abstime = dt.hour * 3600 + dt.minute * 60 + dt.second
    /\ dt.second = 60 => dt.hour = 23 /\ dt.minute = 59

(* The COM date is of the same day, and of the same second or, when the    *)
(* object was set from it, of the next one: what its double may lose is    *)
(* never more than that, on either side of the epoch.  This is so unless   *)
(* the last assignment threw after it had written the date, or the object  *)
(* is at a leap second, which COM dates do not have.                       *)
ComDateNamesMoment ==
    \/ torn \/ isZero(dt) \/ dt.abstime = SecondsPerDay
    \/ /\ dt.comdate.int + ComEpoch = dt.absdate
       /\ comTime(dt.comdate) - dt.abstime \in {0, 1}

(* A sum is exactly as far away as its offsets say, and its time lies in   *)
(* the day, whatever the size and the sign of the offset.                  *)
SumExact ==
    \A days \in DayOffsets, seconds \in TimeOffsets :
        LET t == normalized(dt.absdate + days, dt.abstime + seconds)
        IN  /\ t.abstime \in 0 .. SecondsPerDay - 1
            /\ (t.absdate - dt.absdate - days) * SecondsPerDay + (t.abstime - dt.abstime) = seconds

(* The fields of an object name one moment.                                *)
MomentAgrees == TypeOK /\ DateAgrees /\ TimeAgrees /\ ComDateNamesMoment /\ SumExact
=============================================================================
