------------------------------- MODULE Dates --------------------------------
(***************************************************************************)
(* Calendar dates as the engine stores them: the integer YYYYMMDD, and the *)
(* number of days it stands for (numpy datetime64[D], datetime.date).      *)
(***************************************************************************)
EXTENDS Integers

Year(d) == d \div 10000
Month(d) == (d \div 100) % 100
DayOf(d) == d % 100

(* Days since 1970-01-01 of a date of the Gregorian calendar. *)
SinceMarch(y, m, day) ==                 \* of a year that begins with March
  365 * y + y \div 4 - y \div 100 + y \div 400 + (153 * m + 2) \div 5 + day - 719469
DayNumber(d) ==
  IF Month(d) <= 2 THEN SinceMarch(Year(d) - 1, Month(d) + 9, DayOf(d))
  ELSE SinceMarch(Year(d), Month(d) - 3, DayOf(d))

(* The date of a day number, and the date a number of days before another. *)
OfMonth(y, m, day) ==                    \* the inverse of SinceMarch, m from 0 for March
  (IF m < 10 THEN 10000 * y + 100 * (m + 3) ELSE 10000 * (y + 1) + 100 * (m - 9))
    + day - (153 * m + 2) \div 5 + 1
OfYear(y, day) == OfMonth(y, (5 * day + 2) \div 153, day)
OfEra(first, e, y) == OfYear(first + y, e - (365 * y + y \div 4 - y \div 100))
OfCycle(first, e) ==
  OfEra(first, e, (e - e \div 1460 + e \div 36524 - e \div 146096) \div 365)
DateOf(n) == OfCycle(400 * ((n + 719468) \div 146097), (n + 719468) % 146097)
DaysBefore(d, days) == DateOf(DayNumber(d) - days)

(* Monday is 0. 1970-01-05 was a Monday. *)
Weekday(d) == (DayNumber(d) - 4) % 7
Monday(d) == DayNumber(d) - Weekday(d)
Quarter(d) == (Month(d) - 1) \div 3
=============================================================================
