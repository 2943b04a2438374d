------------------------------ MODULE EventPlans ------------------------------
(***************************************************************************)
(* What the events of an owner still plan, read in two ways: summed by day *)
(* and kind for the budget of one month and currency, and listed one by    *)
(* one in the queue of occurrences to decide.  A rule of Recurrence has an *)
(* identifier, a status, a kind, a currency and cents; a decision is the   *)
(* identifier of a rule and a date.                                        *)
(***************************************************************************)
EXTENDS Recurrence, FiniteSetsExt

Scenarios == {"standard", "simulation"}
PendingWindowMonths == 12

IsPlan(c) == /\ IsFiniteSet(c.rules) /\ c.month \in Int /\ IsCivil(c.today)
             /\ \A r \in c.rules : /\ IsRule(r) /\ r.cents \in Int
                                  /\ r.status \in {"CONFIRME", "POTENTIEL"} /\ r.kind \in {"DEPENSE", "ENTREE"}

\* expirePotentialEvents: potential rules that start before the month of today are deleted,
\* and their decisions, before anything is read
Maintained(rules, today) ==
  {r \in rules : ~(r.status = "POTENTIEL" /\ ~UpTo(First(MonthIndex(today)), r.start))}

\* Fault: the decisions of a date are joined without the event they are about.
UndecidedByDate(rules, decided, dates) ==
  UNION {{[rule |-> r, date |-> d] :
            d \in {d \in PlannedDates(r, dates) : \A x \in decided : x[2] # d}} : r \in rules}

\* the rows of the join: LEFT JOIN EventOccurrenceResolution ... WHERE r.id IS NULL
Undecided(rules, decided, dates) ==
  UNION {{[rule |-> r, date |-> d] :
            d \in {d \in PlannedDates(r, dates) : <<r.id, d>> \notin decided}} : r \in rules}

\* plannedMovements: one movement for each date and kind
PlannedMovements(c, month, currency, scenario) ==
  LET counted == {r \in Maintained(c.rules, c.today) :
                    /\ r.currency = currency
                    /\ scenario = "simulation" \/ r.status = "CONFIRME"}
      rows == Undecided(counted, c.decided, DatesIn(month))
      of(x) == {y \in rows : y.date = x.date /\ y.rule.kind = x.rule.kind}
      cents(x) == x.rule.cents
  IN {[date |-> x.date, kind |-> x.rule.kind, total |-> MapThenSumSet(cents, of(x)),
       count |-> Cardinality(of(x))] : x \in rows}

\* unresolvedCount, stored with a month when it closes
UnresolvedCount(c, month, currency) ==
  LET count(x) == x.count
  IN MapThenSumSet(count, PlannedMovements(c, month, currency, "standard"))

\* the queue goes from the first day of the eleventh month before to the last day asked for
PendingDates(last) ==
  {d \in UNION {DatesIn(m) : m \in MonthIndex(last) - (PendingWindowMonths - 1) .. MonthIndex(last)} :
     UpTo(d, last)}

\* listPending, all currencies together
Pending(c, last) ==
  Undecided({r \in Maintained(c.rules, c.today) : r.status = "CONFIRME"}, c.decided,
            PendingDates(last))
===============================================================================
