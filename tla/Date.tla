-------------------------------- MODULE Date --------------------------------
(***************************************************************************)
(* Date and the UTC half of TimeZone (base/date.cc, base/time_zone.cc):    *)
(* conversions between a civil date, its Julian day number and the         *)
(* seconds of Unix time.  The code has closed formulas; the specification  *)
(* is a calendar that is turned one day at a time, and the formulas are    *)
(* compared with it on every day.                                          *)
(***************************************************************************)
EXTENDS Integers

CONSTANTS
  FirstYear, LastYear,  \* the days walked: all those of these years
  FirstJulianDay,       \* the Julian day number of January 1 of FirstYear
  FirstWeekDay,         \* and its day of the week, 0 = Sunday
  Clock,                \* times of day at which seconds are converted
  UtcYears              \* the years in which they are

VARIABLES year, month, day, julianDay, weekDay, yearDay

calendarVars == <<year, month, day, julianDay, weekDay, yearDay>>

\* Quotient and remainder of C++, which round towards zero.
Quot(a, b) == IF a >= 0 THEN a \div b ELSE -((-a) \div b)
Rem(a, b) == a - b * Quot(a, b)
-----------------------------------------------------------------------------
getJulianDayNumber(y, mon, d) ==
  LET a == (14 - mon) \div 12
      z == y + 4800 - a
      m == mon + 12 * a - 3
  IN  d + (153 * m + 2) \div 5 + z * 365 + z \div 4 - z \div 100 + z \div 400 - 32045

getYearMonthDay(julianDayNumber) ==
  LET a == julianDayNumber + 32044
      b == (4 * a + 3) \div 146097
      c == a - (b * 146097) \div 4
      d == (4 * c + 3) \div 1461
      e == c - (1461 * d) \div 4
      m == (5 * e + 2) \div 153
  IN  [year |-> b * 100 + d - 4800 + m \div 10,
       month |-> m + 3 - 12 * (m \div 10),
       day |-> e - (153 * m + 2) \div 5 + 1]

kJulianDayOf1970_01_01 == getJulianDayNumber(1970, 1, 1)

\* Date::weekDay().
WeekDay(julianDayNumber) == (julianDayNumber + 1) % 7

kSecondsPerDay == 24 * 60 * 60

fillHMS(seconds) ==
  [sec |-> seconds % 60, min |-> (seconds \div 60) % 60, hour |-> (seconds \div 60) \div 60]

\* The day and the second of the day that toUtcTime() splits a time into.
DaySecond(t) ==
  LET days == Quot(t, kSecondsPerDay)
      seconds == Rem(t, kSecondsPerDay)
  IN  IF seconds < 0 THEN <<days - 1, seconds + kSecondsPerDay>> ELSE <<days, seconds>>

toUtcTime(t) ==
  LET julian == DaySecond(t)[1] + kJulianDayOf1970_01_01
      ymd == getYearMonthDay(julian)
  IN  [date |-> ymd, time |-> fillHMS(DaySecond(t)[2]), wday |-> WeekDay(julian),
       yday |-> julian - getJulianDayNumber(ymd.year, 1, 1)]

fromUtcTime(y, mon, d, hour, minute, seconds) ==
  (getJulianDayNumber(y, mon, d) - kJulianDayOf1970_01_01) * kSecondsPerDay
    + hour * 3600 + minute * 60 + seconds
-----------------------------------------------------------------------------
(* The calendar, turned by hand. *)

Leap == (year % 4 = 0 /\ year % 100 # 0) \/ year % 400 = 0

MonthLength ==
  CASE month = 2 -> IF Leap THEN 29 ELSE 28
    [] month \in {4, 6, 9, 11} -> 30
    [] OTHER -> 31

CalendarInit ==
  /\ year = FirstYear /\ month = 1 /\ day = 1
  /\ julianDay = FirstJulianDay /\ weekDay = FirstWeekDay /\ yearDay = 0

Tomorrow ==
  \/ /\ day < MonthLength
     /\ day' = day + 1 /\ yearDay' = yearDay + 1
     /\ UNCHANGED <<year, month>>
  \/ /\ day = MonthLength /\ month < 12
     /\ day' = 1 /\ month' = month + 1 /\ yearDay' = yearDay + 1
     /\ UNCHANGED year
  \/ /\ day = MonthLength /\ month = 12 /\ year < LastYear
     /\ day' = 1 /\ month' = 1 /\ year' = year + 1 /\ yearDay' = 0

CalendarNext ==
  /\ Tomorrow
  /\ julianDay' = julianDay + 1
  /\ weekDay' = (weekDay + 1) % 7

CalendarSpec == CalendarInit /\ [][CalendarNext]_calendarVars
-----------------------------------------------------------------------------
\* The formulas of Date agree with the calendar in both directions.  Date(y, m, d)
\* numbers the days one after the other, and a day past the end of its month (up
\* to 31) is the day that many days on in the next month; yearMonthDay() and
\* weekDay() give back the civil date and the weekday of every number.
CivilDays ==
  /\ \A d \in 1 .. 31 : getJulianDayNumber(year, month, d) = julianDay + d - day
  /\ getYearMonthDay(julianDay) = [year |-> year, month |-> month, day |-> day]
  /\ WeekDay(julianDay) = weekDay

\* The Unix time of a time of the current day; January 1 1970 is day 2440588.
Instant(c) == (julianDay - 2440588) * 86400 + c.hour * 3600 + c.min * 60 + c.sec

\* toUtcTime() returns the civil time of an instant, with its weekday and its day of
\* the year, also for the negative seconds before 1970, and fromUtcTime() returns
\* the instant of a civil time.
UtcTimes ==
  year \in UtcYears => \A c \in Clock :
    /\ toUtcTime(Instant(c)) =
         [date |-> [year |-> year, month |-> month, day |-> day], time |-> c,
          wday |-> weekDay, yday |-> yearDay]
    /\ fromUtcTime(year, month, day, c.hour, c.min, c.sec) = Instant(c)
=============================================================================
