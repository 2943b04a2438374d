----------------------------- MODULE Recurrence -----------------------------
(***************************************************************************)
(* The dates of a monthly event, computed twice: by MonthlyEvent in        *)
(* TypeScript, for a decision on one occurrence, and by an SQL condition,  *)
(* for lists and planned amounts.                                          *)
(***************************************************************************)
EXTENDS Calendar

Recurrences == {"AUCUNE", "HEBDOMADAIRE", "MENSUELLE", "TRIMESTRIELLE", "ANNUELLE"}

\* rules that MonthlyEvent.create accepts
Rules(starts, ends) ==
  {r \in [start: starts, recurrence: Recurrences, end: ends \union {NoDate}] :
     r.end # NoDate => r.recurrence # "AUCUNE" /\ UpTo(r.start, r.end)}

IsRule(r) == /\ r.recurrence \in Recurrences /\ IsCivil(r.start)
             /\ r.end # NoDate => IsCivil(r.end) /\ r.recurrence # "AUCUNE" /\ UpTo(r.start, r.end)

Interval(recurrence) == CASE recurrence = "TRIMESTRIELLE" -> 3
                          [] recurrence = "ANNUELLE"      -> 12
                          [] OTHER                        -> 1

BeforeEnd(r, d) == r.end = NoDate \/ UpTo(d, r.end)

\* every seventh day from the first one that falls in the month or after
Weekly(r, m) ==
  LET distance == DayNumber(First(m)) - DayNumber(r.start)
      first    == IF distance <= 0 THEN 0 ELSE (distance + 6) \div 7
  IN {d \in DatesIn(m) : /\ \E k \in first .. first + 4 : DayNumber(d) = DayNumber(r.start) + 7 * k
                         /\ BeforeEnd(r, d)}

\* Fault: a day the month lacks falls on no date instead of its last day.
AnniversaryUnclamped(r, m) ==
  {d \in DatesIn(m) : /\ (m - MonthIndex(r.start)) % Interval(r.recurrence) = 0
                      /\ d[3] = r.start[3]
                      /\ UpTo(r.start, d) /\ BeforeEnd(r, d)}

\* the day of the start, or the last day of a shorter month
Anniversary(r, m) ==
  {d \in DatesIn(m) : /\ (m - MonthIndex(r.start)) % Interval(r.recurrence) = 0
                      /\ d[3] = IF r.start[3] <= DaysIn(m) THEN r.start[3] ELSE DaysIn(m)
                      /\ UpTo(r.start, d) /\ BeforeEnd(r, d)}

OccurrencesIn(r, m) ==
  IF r.recurrence = "AUCUNE" THEN {r.start} \intersect DatesIn(m)
  ELSE IF ~UpTo(r.start, Last(m)) \/ ~BeforeEnd(r, First(m)) THEN {}
  ELSE IF r.recurrence = "HEBDOMADAIRE" THEN Weekly(r, m)
  ELSE Anniversary(r, m)

\* matchesOccurrenceSql, for the rule e and the date d
MatchesSql(e, d) ==
  /\ UpTo(e.start, d)
  /\ e.end = NoDate \/ UpTo(d, e.end)
  /\ \/ e.recurrence = "AUCUNE" /\ e.start = d
     \/ e.recurrence = "HEBDOMADAIRE" /\ (DayNumber(d) - DayNumber(e.start)) % 7 = 0
     \/ /\ d[3] = IF e.start[3] < Last(MonthIndex(d))[3] THEN e.start[3] ELSE Last(MonthIndex(d))[3]
        /\ \/ e.recurrence = "MENSUELLE"
           \/ e.recurrence = "TRIMESTRIELLE" /\ (MonthIndex(d) - MonthIndex(e.start)) % 3 = 0
           \/ e.recurrence = "ANNUELLE" /\ (MonthIndex(d) - MonthIndex(e.start)) % 12 = 0

\* the rows a series of dates joins with a rule
PlannedDates(r, dates) == {d \in dates : MatchesSql(r, d)}
==============================================================================
