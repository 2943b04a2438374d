---------------------------- MODULE FixedCharges ----------------------------
(***************************************************************************)
(* The fixed base of a month: the user's part of each charge by the month, *)
(* the totals of the charges and incomes, read with or without a month,    *)
(* and what the occurrences written for a month replace in them.           *)
(* Amounts are in cents, shares in hundredths of a percent.                *)
(***************************************************************************)
EXTENDS Integers, FiniteSetsExt

\* FIXED_CHARGE_MONTHS
ChargeMonths == [MENSUELLE |-> 1, BIMESTRIELLE |-> 2, TRIMESTRIELLE |-> 3,
                 SEMESTRIELLE |-> 6, ANNUELLE |-> 12]
WholeShare == 10000

\* the rows in effect in a month, and the occurrences written for it: one for a source
IsMonth(rows, occurrences) ==
  /\ IsFiniteSet(rows) /\ IsFiniteSet(occurrences)
  /\ \A r \in rows : /\ r.type \in {"CHARGE", "REVENU"} /\ r.period \in DOMAIN ChargeMonths
                     /\ r.amount \in Nat /\ r.share \in 0 .. WholeShare
  /\ \A o \in occurrences : o.kind \in {"DEPENSE", "ENTREE"} /\ o.planned \in Int
  /\ \A o, p \in occurrences : o.source = p.source => o = p

\* personalChargeMinorUnits: half a cent goes up
PersonalCharge(row, monthly) ==
  LET denominator == WholeShare * (IF monthly THEN ChargeMonths[row.period] ELSE 1)
  IN (row.amount * row.share + denominator \div 2) \div denominator

\* the same amount by the decimal ROUND of SQL: away from zero at the half
SqlCharge(row) ==
  LET parts == WholeShare * ChargeMonths[row.period]
      exact == row.amount * row.share
  IN exact \div parts + IF 2 * (exact % parts) >= parts THEN 1 ELSE 0

OfType(rows, type) == {r \in rows : r.type = type}
MonthlyAmount(row) == IF row.type = "CHARGE" THEN PersonalCharge(row, TRUE) ELSE row.amount

\* loadFixedTotals of a month, over the rows in effect in it
MonthTotals(rows) == [income  |-> MapThenSumSet(MonthlyAmount, OfType(rows, "REVENU")),
                      expense |-> MapThenSumSet(MonthlyAmount, OfType(rows, "CHARGE"))]

\* loadFixedTotals without a month: one aggregate over the current rows
SqlTotals(rows) ==
  LET amount(r) == r.amount
  IN [income  |-> MapThenSumSet(amount, OfType(rows, "REVENU")),
      expense |-> MapThenSumSet(SqlCharge, OfType(rows, "CHARGE"))]

SourcesOf(o, rows) == {r \in rows : r.id = o.source}
KindOf(type) == IF type = "CHARGE" THEN "DEPENSE" ELSE "ENTREE"

\* Fault: the amount of the source is taken off the total of the occurrence's kind.
ReplacedByOccurrenceKind(kind, occurrences, rows) ==
  LET old(o) == MapThenSumSet(MonthlyAmount, SourcesOf(o, rows))
  IN MapThenSumSet(old, {o \in occurrences : o.kind = kind})

\* what the sources of the occurrences count for in a total
Replaced(kind, occurrences, rows) ==
  LET old(o) == MapThenSumSet(MonthlyAmount, {r \in SourcesOf(o, rows) : KindOf(r.type) = kind})
  IN MapThenSumSet(old, occurrences)
Written(kind, occurrences) ==
  LET planned(o) == o.planned
  IN MapThenSumSet(planned, {o \in occurrences : o.kind = kind})

\* reconcileFixedTotals: an occurrence replaces its source, and stays when the source is gone
Reconciled(raw, occurrences, rows) ==
  [income  |-> raw.income - Replaced("ENTREE", occurrences, rows) + Written("ENTREE", occurrences),
   expense |-> raw.expense - Replaced("DEPENSE", occurrences, rows)
               + Written("DEPENSE", occurrences)]
=============================================================================
