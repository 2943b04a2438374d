------------------------------ MODULE Calendar ------------------------------
(***************************************************************************)
(* Civil dates and months.  A date is <<year, month, day>>; a month is its *)
(* index year * 12 + month - 1, as monthIndex computes it in the sources.  *)
(***************************************************************************)
EXTENDS Integers

NoDate == <<0, 0, 0>>  \* a date that was not given

MonthIndex(d) == d[1] * 12 + d[2] - 1
YearOf(m)     == m \div 12
MonthNo(m)    == (m % 12) + 1

Leap(y) == (y % 4 = 0 /\ y % 100 # 0) \/ y % 400 = 0
DaysIn(m) == IF MonthNo(m) = 2 THEN (IF Leap(YearOf(m)) THEN 29 ELSE 28)
             ELSE IF MonthNo(m) \in {4, 6, 9, 11} THEN 30 ELSE 31

Date(m, day) == <<YearOf(m), MonthNo(m), day>>
DatesIn(m)   == {Date(m, day) : day \in 1 .. DaysIn(m)}
First(m)     == Date(m, 1)
Last(m)      == Date(m, DaysIn(m))
IsCivil(d)   == MonthIndex(d) \in Int /\ d \in DatesIn(MonthIndex(d))

\* the order of dates written YYYY-MM-DD
UpTo(d, e) == \/ MonthIndex(d) < MonthIndex(e)
              \/ MonthIndex(d) = MonthIndex(e) /\ d[3] <= e[3]

\* days since a fixed origin, counting years from March (Date.UTC, DATEDIFF)
DayNumber(d) ==
  LET y == IF d[2] <= 2 THEN d[1] - 1 ELSE d[1]
      m == (d[2] + 9) % 12
  IN 365 * y + (y \div 4) - (y \div 100) + (y \div 400) + ((153 * m + 2) \div 5) + d[3]

\* days since the last Monday (WEEKDAY, and getUTCDay shifted by six)
Weekday(d) == (DayNumber(d) + 1) % 7
==============================================================================
