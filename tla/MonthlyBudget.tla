---------------------------- MODULE MonthlyBudget ----------------------------
(***************************************************************************)
(* The balance of one month and its forecast: calculateRealBudget,         *)
(* calculateForecastBudget and the projection of BudgetForecastService.    *)
(* Amounts are integer cents.  The payments are numbered in the order of   *)
(* the repository; one may carry the occurrence it is linked to, whose     *)
(* planned amount is part of the fixed base.                               *)
(***************************************************************************)
EXTENDS Calendar, Sequences, FiniteSetsExt

Unlinked == 0

\* the effect of an amount on the balance
Signed(kind, amount) == IF kind = "ENTREE" THEN amount ELSE -amount
AtLeast(a, b) == IF a >= b THEN a ELSE b
AtMost(a, b)  == IF a <= b THEN a ELSE b

\* Math.round(a / n), ties upwards
RoundedShare(a, n) == (2 * a + n) \div (2 * n)
\* Math.trunc(a / n)
Truncated(a, n) == IF a >= 0 THEN a \div n ELSE -((-a) \div n)

\* the budget of a month: a payment may be linked to a plan of its kind; only a closed month is frozen
IsBudget(b) ==
  /\ {b.month, b.income, b.expense, b.carry} \union b.frozen \subseteq Int
  /\ b.frozen # {} => b.closed
  /\ IsFiniteSet(DOMAIN b.plans) /\ Unlinked \notin DOMAIN b.plans
  /\ \A o \in DOMAIN b.plans : b.plans[o].planned \in Nat /\ b.plans[o].kind \in {"DEPENSE", "ENTREE"}
  /\ IsFiniteSet(DOMAIN b.movements) /\ DOMAIN b.movements \subseteq Nat
  /\ \A i \in DOMAIN b.movements :
       LET x == b.movements[i] IN
       /\ x.day \in 1 .. DaysIn(b.month) /\ x.cents \in Int /\ x.kind \in {"DEPENSE", "ENTREE"}
       /\ x.link # Unlinked => x.link \in DOMAIN b.plans /\ b.plans[x.link].kind = x.kind

Sum(amount(_), indices) == MapThenSumSet(amount, indices)
Moves(b, S) == {i \in DOMAIN b.movements : b.movements[i].day \in S}
OfKind(b, kind) == {i \in DOMAIN b.movements : b.movements[i].kind = kind}
PaymentsOf(b, o) == {i \in DOMAIN b.movements : b.movements[i].link = o}
CentsOf(b, I) == LET cents(i) == b.movements[i].cents IN Sum(cents, I)

\* Fault: payments are covered in the order of the repository.
PaidBeforeInRepositoryOrder(b, i) ==
  CentsOf(b, {j \in PaymentsOf(b, b.movements[i].link) : j < i})

\* what the earlier payments of the same occurrence amount to, by date
PaidBefore(b, i) ==
  CentsOf(b, {j \in PaymentsOf(b, b.movements[i].link) :
                \/ b.movements[j].day < b.movements[i].day
                \/ b.movements[j].day = b.movements[i].day /\ j < i})

\* the part of a payment that its plan already holds in the base
Covered(b, i) ==
  LET x == b.movements[i]
      plan == b.plans[x.link].planned
  IN IF x.link = Unlinked THEN 0
     ELSE AtMost(PaidBefore(b, i) + x.cents, plan) - AtMost(PaidBefore(b, i), plan)

ReconciledPlans(b) == {b.movements[i].link : i \in DOMAIN b.movements} \ {Unlinked}

\* a known payment replaces its plan when the month closes
UnusedPlans(b) ==
  LET unused(o) == -Signed(b.plans[o].kind,
                           AtLeast(b.plans[o].planned - CentsOf(b, PaymentsOf(b, o)), 0))
  IN Sum(unused, ReconciledPlans(b))

CoveredBy(b, I) == LET effect(i) == -Signed(b.movements[i].kind, Covered(b, i)) IN Sum(effect, I)

\* the adjustment of the whole month; a closed period keeps the one it was closed with
Adjustment(b) == IF b.frozen # {} THEN CHOOSE x \in b.frozen : TRUE
                 ELSE CoveredBy(b, DOMAIN b.movements) + (IF b.closed THEN UnusedPlans(b) ELSE 0)

Base(b) == b.income - b.expense
EntriesLessExpenses(b, I) == CentsOf(b, I \intersect OfKind(b, "ENTREE"))
                             - CentsOf(b, I \intersect OfKind(b, "DEPENSE"))
Balance(b) == Base(b) + b.carry + EntriesLessExpenses(b, DOMAIN b.movements) + Adjustment(b)

\* the balance at the end of each day; what is not a payment falls on the last one
DailyBalance(b, day) ==
  LET upTo == Moves(b, 1 .. day) IN
  Base(b) + b.carry + EntriesLessExpenses(b, upTo) + CoveredBy(b, upTo)
  + IF day = DaysIn(b.month) THEN Adjustment(b) - CoveredBy(b, upTo) ELSE 0

\* PrismaReconciliationRepository.summary: what is planned and paid, by kind; an occurrence
\* is projected at the larger of its plan and its payments
Tracked(b, kind) == {o \in DOMAIN b.plans : b.plans[o].kind = kind}
TrackedPlanned(b, kind) == LET planned(o) == b.plans[o].planned IN Sum(planned, Tracked(b, kind))
Projected(b, kind) ==
  LET larger(o) == AtLeast(b.plans[o].planned, CentsOf(b, PaymentsOf(b, o)))
  IN CentsOf(b, PaymentsOf(b, Unlinked) \intersect OfKind(b, kind)) + Sum(larger, Tracked(b, kind))

RemainingDays(b) == IF MonthIndex(b.today) = b.month THEN DaysIn(b.month) - b.today[3] + 1 ELSE 0
DailyAllowance(b) == RoundedShare(Balance(b), RemainingDays(b))
-----------------------------------------------------------------------------
\* planned movements of one kind on some days
PlannedOn(p, kind, days) ==
  LET cents(i) == p[i].cents
  IN Sum(cents, {i \in DOMAIN p : p[i].kind = kind /\ p[i].day \in days})
PlannedEffect(p, days) == PlannedOn(p, "ENTREE", days) - PlannedOn(p, "DEPENSE", days)

ForecastBalance(b, p, savings) == Balance(b) + PlannedEffect(p, 1 .. DaysIn(b.month)) - savings
DailyForecast(b, p, savings, day) == DailyBalance(b, day) + PlannedEffect(p, 1 .. day) - savings

\* the base by the day, its remainder on the last one, with what was paid and is planned
DailyRemaining(b, p, day) ==
  (IF day = DaysIn(b.month) THEN Base(b) ELSE Truncated(Base(b), DaysIn(b.month)) * day)
  + (DailyBalance(b, day) - Base(b) - b.carry) + PlannedEffect(p, 1 .. day)

Overdue(p, today, month) == {i \in DOMAIN p : ~UpTo(today, Date(month, p[i].day))}
-----------------------------------------------------------------------------
\* only payments already linked to a plan count in a coming month
LinkedPayments(b) == [i \in DOMAIN b.movements \ PaymentsOf(b, Unlinked) |-> b.movements[i]]

\* month k after the current one: today is its first day and its carry the forecast before
MonthAhead(w, k, carry) ==
  LET b == [w.budgets[k + 1] EXCEPT !.carry = carry] IN
  IF k = 0 THEN b ELSE [b EXCEPT !.today = First(b.month), !.movements = LinkedPayments(b)]

\* the months a forecast goes through, from the current one, with what is planned in each
BudgetFields ==
  {"month", "today", "income", "expense", "carry", "movements", "plans", "closed", "frozen"}
IsForecast(w) ==
  LET current == w.budgets[1].today IN
  /\ Len(w.budgets) \in Nat \ {0} /\ w.offset \in Nat /\ w.savings \in Int /\ IsCivil(current)
  /\ \A k \in 1 .. Len(w.budgets) :
       /\ IsBudget(w.budgets[k]) /\ DOMAIN w.budgets[k] = BudgetFields
       /\ w.budgets[k].month = MonthIndex(current) + k - 1
       /\ w.planned[k] \in Seq([day: Int, kind: {"DEPENSE", "ENTREE"}, cents: Int])

\* BudgetForecastService.forecast refuses a window it does not cover: 1 to 24 months that start
\* 0 to 23 months after the current one
ValidWindow(w) == Len(w.budgets) - w.offset \in 1 .. 24 /\ w.offset \in 0 .. 23

\* the balances BudgetForecastService projects, one month after the other
Projection(w) ==
  LET remaining[k \in 0 .. Len(w.budgets) - 1] ==
        ForecastBalance(MonthAhead(w, k, IF k = 0 THEN w.budgets[1].carry ELSE remaining[k - 1]),
                        w.planned[k + 1], w.savings)
  IN remaining

\* what a month starts from: the real balance first, then the forecast before it
ProjectionCarry(w, k) == IF k = 0 THEN Balance(w.budgets[1]) ELSE Projection(w)[k - 1]

\* the allowance of a week is not seven rounded days: JavaScript's % keeps the sign
WeeklyAllowance(remaining, days) ==
  LET week == AtMost(7, days)
      q == Truncated(remaining, days)
  IN q * week + RoundedShare((remaining - q * days) * week, days)
==============================================================================
