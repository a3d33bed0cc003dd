------------------------------ MODULE DateTime ------------------------------
(***************************************************************************)
(* The timestamps of the log (src/datetime.rs): the date and the time of   *)
(* day of a SystemTime, which counts from 1970-01-01 forwards and          *)
(* backwards.                                                              *)
(***************************************************************************)
EXTENDS Integers, Sequences

LEAPOCH_DAYS == 11017          \* 2000-03-01
DAYS_PER_400Y == 365 * 400 + 97
DAYS_PER_100Y == 365 * 100 + 24
DAYS_PER_4Y == 365 * 4 + 1
DAYS_IN_MONTH == <<31, 30, 31, 30, 31, 31, 30, 31, 30, 31, 31, 29>>

\* Mutant of Cycles: the last, longer cycle is not held back.
CyclesAll(days, length, most) == days \div length

\* The cycles of a length in a number of days, of which there are at most
\* `most`: the leap day belongs to the last one.
Cycles(days, length, most) ==
  IF days \div length = most + 1 THEN most ELSE days \div length

\* The months, counted from March, that are over after some days of a year;
\* and the days left of it.
MonthOf(remdays) ==
  LET before[m \in 0..12] == IF m = 0 THEN 0 ELSE before[m - 1] + DAYS_IN_MONTH[m]
      months == CHOOSE m \in 0..11 : before[m] <= remdays /\ remdays < before[m + 1]
  IN [months |-> months, days |-> remdays - before[months]]

\* DateTime::from, for a day counted from 1970-01-01.  The divisions of the
\* code round towards zero and are corrected; \div rounds down at once.
DateOf(day) ==
  LET days == day - LEAPOCH_DAYS
      qc == days \div DAYS_PER_400Y
      r400 == days % DAYS_PER_400Y
      c == Cycles(r400, DAYS_PER_100Y, 3)
      r100 == r400 - c * DAYS_PER_100Y
      q == Cycles(r100, DAYS_PER_4Y, 24)
      r4 == r100 - q * DAYS_PER_4Y
      y == Cycles(r4, 365, 3)
      m == MonthOf(r4 - y * 365)
      years == y + 4 * q + 100 * c + 400 * qc
  IN IF m.months >= 10
     THEN [year |-> years + 2001, month |-> m.months - 9, day |-> m.days + 1]
     ELSE [year |-> years + 2000, month |-> m.months + 3, day |-> m.days + 1]

NANOS == 1000000000
DAY_SECS == 86400

\* Whole seconds, rounded down, and the nanoseconds after them, of a time that
\* lies some seconds and nanoseconds after the epoch or before it.
SinceEpoch(past, secs, nanos) ==
  IF ~past THEN <<secs, nanos>>
  ELSE IF nanos = 0 THEN <<-secs, 0>> ELSE <<-secs - 1, NANOS - nanos>>

\* The division of the machine rounds towards zero.
Quotient(a, b) == IF a < 0 THEN -((-a) \div b) ELSE a \div b

\* The day of a second, and the seconds of that day before it.
DayAndSecs(t) ==
  LET days == Quotient(t, DAY_SECS)
      remsecs == t - DAY_SECS * days
  IN IF remsecs < 0 THEN <<days - 1, remsecs + DAY_SECS>> ELSE <<days, remsecs>>

\* The fields of DateTime that are not the date.
TimeOf(remsecs) ==
  [hour |-> remsecs \div 3600, minute |-> (remsecs \div 60) % 60, second |-> remsecs % 60]

-----------------------------------------------------------------------------
(* The Gregorian calendar.                                                 *)

Leap(year) == year % 4 = 0 /\ (year % 100 # 0 \/ year % 400 = 0)

DaysIn(year, month) ==
  IF month = 2 THEN (IF Leap(year) THEN 29 ELSE 28)
  ELSE IF month \in {4, 6, 9, 11} THEN 30 ELSE 31

\* The day after date d.
DayAfter(d) ==
  IF d.day < DaysIn(d.year, d.month) THEN [d EXCEPT !.day = @ + 1]
  ELSE IF d.month < 12 THEN [d EXCEPT !.day = 1, !.month = @ + 1]
  ELSE [year |-> d.year + 1, month |-> 1, day |-> 1]

\* The date of the next day is the day after in the Gregorian calendar, and
\* day 0 is 1970-01-01 (DateTime::from).
FollowsCalendar(day) ==
  /\ DateOf(day + 1) = DayAfter(DateOf(day))
  /\ DateOf(0) = [year |-> 1970, month |-> 1, day |-> 1]

\* A moment of a day is given that day, its time and its nanoseconds, although
\* before 1970 it comes as a duration to be counted back (DateTime::from).
ReadsClock(day, hour, minute, second, nanos) ==
  LET secs == DAY_SECS * day + 3600 * hour + 60 * minute + second
      t == IF day >= 0 THEN SinceEpoch(FALSE, secs, nanos)
           ELSE IF nanos = 0 THEN SinceEpoch(TRUE, -secs, 0)
           ELSE SinceEpoch(TRUE, -secs - 1, NANOS - nanos)
  IN /\ t[2] = nanos
     /\ DayAndSecs(t[1])[1] = day
     /\ TimeOf(DayAndSecs(t[1])[2]) = [hour |-> hour, minute |-> minute, second |-> second]
=============================================================================
