------------------------------- MODULE Savings -------------------------------
(***************************************************************************)
(* Financial goals: the forecast of one goal, the effort and the capacity  *)
(* of all of them, and the trajectories of a selected one over the         *)
(* projected months.  Goals of one owner and currency are a sequence of    *)
(* [target, saved, contribution, deadline], amounts in cents.              *)
(***************************************************************************)
EXTENDS MonthlyBudget

\* minorUnitsOf: an amount is refused when negative, a target also when it is zero
Amounts(cents, allowZero) == {x \in cents : x > 0 \/ (allowZero /\ x = 0)}

\* goals that FinancialGoal.create accepts: what is saved may exceed the target, and the
\* deadline may be past
Goals(cents, deadlines) ==
  [target: Amounts(cents, FALSE), saved: Amounts(cents, TRUE), contribution: Amounts(cents, TRUE),
   deadline: deadlines \union {NoDate}]

CeilDiv(a, b) == (a + b - 1) \div b
Missing(g)  == AtLeast(0, g.target - g.saved)
Active(g)   == g.saved < g.target
Never == -1  \* a number of months that is not known
MaxForecastMonths == 1200

\* how many contributions the goal still needs
Needed(g) == IF Missing(g) = 0 THEN 0
             ELSE IF g.contribution = 0 THEN Never ELSE CeilDiv(Missing(g), g.contribution)

\* Fault: the first contribution is counted in the reference month.
ReachMonthEarly(g, today) == IF Needed(g) = Never \/ Needed(g) > MaxForecastMonths THEN {}
                             ELSE {MonthIndex(today) + AtLeast(Needed(g) - 1, 0)}

\* the first future contribution is the month after the reference one
ReachMonth(g, today) == IF Needed(g) = Never \/ Needed(g) > MaxForecastMonths THEN {}
                        ELSE {MonthIndex(today) + Needed(g)}

MonthsAvailable(g, today) == MonthIndex(g.deadline) - MonthIndex(today)
Status(g, today) == IF Missing(g) = 0 THEN "REACHED"
                    ELSE IF g.deadline = NoDate THEN "NO_DEADLINE"
                    ELSE IF MonthsAvailable(g, today) <= 0 THEN "MISSED"
                    ELSE IF Needed(g) # Never /\ Needed(g) <= MonthsAvailable(g, today)
                         THEN "ON_TRACK" ELSE "BEHIND"

\* the contribution that keeps the deadline, rounded up; none without a coming deadline
Required(g, today) == IF Status(g, today) \in {"ON_TRACK", "BEHIND"}
                      THEN {CeilDiv(Missing(g), MonthsAvailable(g, today))} ELSE {}
-----------------------------------------------------------------------------
\* calculateSavingsEffort: only goals with a contribution enter the totals
Included(goals) == {i \in DOMAIN goals : Active(goals[i]) /\ goals[i].contribution > 0}
TotalPlanned(goals) == LET planned(i) == goals[i].contribution IN Sum(planned, Included(goals))
TotalRequired(goals, today) ==
  LET required(i) == CHOOSE x \in Required(goals[i], today) : TRUE
  IN IF \E i \in Included(goals) : Required(goals[i], today) = {} THEN {}
     ELSE {Sum(required, Included(goals))}

\* what an unreached goal lacks every month to keep its deadline, or has to spare
Gap(g, today) == IF Active(g) THEN {r - g.contribution : r \in Required(g, today)} ELSE {}

\* PrismaBudgetPeriodRepository.goalSavings, what a forecast reserves every month
GoalSavings(goals) ==
  LET c(i) == goals[i].contribution
  IN Sum(c, {i \in DOMAIN goals : goals[i].contribution > 0 /\ Active(goals[i])})

\* what the goals are planned over: the repository gives the forecast the savings of the same
\* goals, and calculateSavingsTrajectory refuses a negative assumption
IsGoal(g) == /\ g.target \in Nat \ {0} /\ g.saved \in Nat /\ g.contribution \in Nat
             /\ g.deadline = NoDate \/ IsCivil(g.deadline)
IsWindow(w) ==
  /\ DOMAIN w = {"budgets", "planned", "savings", "offset", "goals", "selected", "assumed"}
  /\ IsForecast(w)
  /\ IsFiniteSet(DOMAIN w.goals) /\ w.selected \in DOMAIN w.goals
  /\ \A i \in DOMAIN w.goals : IsGoal(w.goals[i])
  /\ w.savings = GoalSavings(w.goals)
  /\ {w.assumed.current, w.assumed.future, w.assumed.margin} \subseteq Nat

\* Fault: the reservations of the masked months are not undone.
BeforeGoalsOfWindow(w, k) == Projection(w)[k] + w.savings * (k - w.offset + 1)

\* SavingsCapacityService: the forecast of month k, its k + 1 reservations undone
BeforeGoals(w, k) == Projection(w)[k] + w.savings * (k + 1)

\* calculateSavingsBalance
AfterPlanned(w, k) == BeforeGoals(w, k) - TotalPlanned(w.goals) * (k + 1)
AfterRequired(w, k) == {BeforeGoals(w, k) - r * (k + 1) :
                          r \in TotalRequired(w.goals, w.budgets[1].today)}
Sustainability(w, k) ==
  LET known == {AfterPlanned(w, k)} \union AfterRequired(w, k) IN
  CASE \E x \in known : x < 0     -> "NON_TENABLE"
    [] AfterRequired(w, k) = {}   -> "INDETERMINE"
    [] OTHER -> IF 0 \in known THEN "TENDU" ELSE "TENABLE"
\* SavingsCapacityService.calculate: one month of its answer
Capacity(w, k) == [before |-> BeforeGoals(w, k), after |-> AfterPlanned(w, k),
                   required |-> AfterRequired(w, k), health |-> Sustainability(w, k)]
-----------------------------------------------------------------------------
\* calculateSavingsTrajectory.  Reservations keep their amount over the whole horizon.
Committed(g) == IF Active(g) THEN g.contribution ELSE 0
TotalCommitted(goals) == LET c(i) == Committed(goals[i]) IN Sum(c, DOMAIN goals)

Assumed(w, mode) == IF mode = "reasonable" THEN w.assumed
                    ELSE [current |-> 0, future |-> 0, margin |-> 0]

\* the month's own flow, without what was carried or reserved
KnownFlow(w, k) == Projection(w)[k] - ProjectionCarry(w, k) + w.savings

\* the positive balance of the current month is protected, then a margin every month
CurrentState(w, mode) ==
  LET a == Assumed(w, mode)
      balance == Projection(w)[0] - a.current
      safe == AtLeast(0, balance - a.margin) + a.margin
  IN [balance |-> balance, safe |-> safe, free |-> balance - safe, extra |-> 0,
      saved |-> [i \in DOMAIN w.goals |-> w.goals[i].saved]]

\* what the selected goal receives on top of its contribution
Supplement(w, free, safe, missing) == AtMost(AtLeast(0, free), missing)

\* one more month of the trajectory
NextState(w, mode, state, k) ==
  LET a == Assumed(w, mode)
      safe == state.safe + a.margin
      paid == state.balance + KnownFlow(w, k) - a.future - TotalCommitted(w.goals)
      chosen == w.goals[w.selected]
      missing == AtLeast(0, AtLeast(0, chosen.target - state.saved[w.selected]) - Committed(chosen))
      extra == IF mode = "planned" THEN 0 ELSE Supplement(w, paid - safe, safe, missing)
      reserved(i) == Committed(w.goals[i]) + IF i = w.selected THEN extra ELSE 0
  IN [balance |-> paid - extra, safe |-> safe, free |-> paid - safe, extra |-> extra,
      saved |-> [i \in DOMAIN w.goals |->
                   state.saved[i] + AtMost(reserved(i), AtLeast(0, w.goals[i].target - state.saved[i]))]]

Trajectory(w, mode) ==
  LET state[k \in 0 .. Len(w.budgets) - 1] ==
        IF k = 0 THEN CurrentState(w, mode) ELSE NextState(w, mode, state[k - 1], k)
  IN state

Fundable(state) == state.free >= 0
Earliest(months) == {k \in months : \A j \in months : k <= j}
ReachedBy(w, t) == {k \in DOMAIN t : t[k].saved[w.selected] >= w.goals[w.selected].target}
ScheduledReach(w, t) == Earliest(ReachedBy(w, t))
EstimatedReach(w, t) == IF 0 \in ReachedBy(w, t) THEN {0}
                        ELSE Earliest({k \in ReachedBy(w, t) : Fundable(t[k])})
ReachReason(w, t) ==
  LET last == Len(w.budgets) - 1
      chosen == w.goals[w.selected]
  IN CASE ~Active(chosen) -> "REACHED"
       [] Active(chosen) /\ EstimatedReach(w, t) # {} -> "PROJECTED"
       [] OTHER -> IF ~Fundable(t[last]) THEN "BUDGET_DEFICIT"
                   ELSE IF last = 0 \/ t[last].saved[w.selected] > chosen.saved
                        THEN "OUTSIDE_HORIZON" ELSE "NO_CONTRIBUTION"
==============================================================================
