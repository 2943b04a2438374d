---------------------------- MODULE Calculations ----------------------------
(***************************************************************************)
(* The calculations that keep no state, one answer per request: the dates  *)
(* of a rule, the balance of a month, its forecast and the goals over the  *)
(* coming months, the fixed totals, operations by period and envelopes;    *)
(* what a series of releases or of deployments leaves.                     *)
(* Each property compares an answer with another view the program gives of *)
(* the same data, or with what its parts say it stands for.                *)
(***************************************************************************)
EXTENDS Savings, EventPlans

CONSTANTS RuleCases,      \* rules, each with a month to expand
          PlanCases,      \* rules and decisions, a month and today
          MonthCases,     \* months with movements and plans
          HorizonCases,   \* consecutive months with goals and assumptions
          ChargeCases,    \* fixed rows and the occurrences of a month
          AnalyticsCases, \* a query and operations
          EnvelopeCases,  \* occurrences of envelopes and payments
          ReleaseCases,   \* the files of a project and runs of the release script
          DeploymentCases \* a server and deployments

Charges == INSTANCE FixedCharges
Reports == INSTANCE Reporting
Releases == INSTANCE Release
Deployments == INSTANCE Deployment

\* what the program stores or accepts
ASSUME RuleAssumption == \A c \in RuleCases : IsRule(c.rule) /\ c.month \in Int
ASSUME PlanAssumption == \A c \in PlanCases : IsPlan(c)
ASSUME MonthAssumption ==
  \A c \in MonthCases : /\ IsBudget(c.budget) /\ c.savings \in Int
                        /\ c.planned \in Seq([day: Int, kind: {"DEPENSE", "ENTREE"}, cents: Int])
ASSUME HorizonAssumption == \A c \in HorizonCases : IsWindow(c)
ASSUME ChargeAssumption == \A c \in ChargeCases : Charges!IsMonth(c.rows, c.occurrences)
ASSUME AnalyticsAssumption == \A c \in AnalyticsCases : Reports!IsAnalysis(c.query, c.operations)
ASSUME EnvelopeAssumption == \A c \in EnvelopeCases : Reports!IsEnvelopes(c.rows, c.payments)
ASSUME ReleaseAssumption == \A c \in ReleaseCases : Releases!IsSeries(c.tree, c.runs)
\* a server that a deployment left, or a new one
ASSUME DeploymentAssumption ==
  \A c \in DeploymentCases : /\ c.server \in Deployments!States /\ Deployments!FindsSchema(c.server)
                             /\ c.runs \in Seq(Deployments!Runs)

VARIABLES request, answer
vars == <<request, answer>>

NoAnswer == [of |-> "nothing"]
Modes == {"planned", "reasonable", "maximum"}
Horizon(w) == 0 .. Len(w.budgets) - 1
Shown(w) == w.offset .. Len(w.budgets) - 1  \* the months before the window are projected too
Ask(cases, name) == {[of |-> name, on |-> c] : c \in cases}

Init == /\ \/ request \in Ask(DeploymentCases, "deployments")
           \/ request \in Ask(ChargeCases, "charges")
           \/ request \in Ask(EnvelopeCases, "envelopes")
           \/ request \in Ask(ReleaseCases, "releases")
           \/ request \in Ask(PlanCases, "plans")
           \/ request \in Ask(RuleCases, "dates")
           \/ request \in Ask(AnalyticsCases, "analytics")
           \/ request \in Ask(MonthCases, "month")
           \/ request \in Ask(HorizonCases, "horizon")
        /\ answer = NoAnswer

Reply(name, result) == /\ request.of = name
                       /\ answer = NoAnswer
                       /\ answer' = result
                       /\ UNCHANGED request

\* EventOccurrenceUseCases expands the rule in memory, the lists expand it in SQL
Expand == LET c == request.on IN
  Reply("dates", [of |-> "dates", decided |-> OccurrencesIn(c.rule, c.month),
                  listed |-> PlannedDates(c.rule, DatesIn(c.month))])

\* what a budget counts as planned, and the queue up to today
PlanEvents == LET c == request.on
                  currencies == {r.currency : r \in c.rules} IN
  Reply("plans",
    [of |-> "plans",
     planned |-> [k \in currencies |-> [s \in Scenarios |-> PlannedMovements(c, c.month, k, s)]],
     unresolved |-> [k \in currencies |-> UnresolvedCount(c, c.month, k)],
     pending |-> Pending(c, c.today)])

\* one month with its days and the planned movements that remain
ForecastMonth == LET b == request.on.budget
                     p == request.on.planned
                     days == 1 .. DaysIn(b.month) IN
  Reply("month", [of |-> "month", balance |-> Balance(b), days |-> RemainingDays(b),
                  allowance |-> IF RemainingDays(b) = 0 THEN {} ELSE {DailyAllowance(b)},
                  planned |-> TrackedPlanned(b, "ENTREE") - TrackedPlanned(b, "DEPENSE"),
                  projected |-> Projected(b, "ENTREE") - Projected(b, "DEPENSE"),
                  daily |-> [d \in days |-> DailyBalance(b, d)],
                  forecast |-> ForecastBalance(b, p, request.on.savings),
                  dailyForecast |-> [d \in days |-> DailyForecast(b, p, request.on.savings, d)],
                  dailyRemaining |-> [d \in days |-> DailyRemaining(b, p, d)],
                  overdue |-> Overdue(p, b.today, b.month)])

\* BudgetForecastService, SavingsCapacityService and SavingsTrajectoryService
PlanGoals == LET w == request.on
                 today == w.budgets[1].today
                 course == [mode \in Modes |-> Trajectory(w, mode)] IN
  /\ request.of = "horizon" /\ ValidWindow(w)
  /\ Reply("horizon",
    [of |-> "horizon", remaining |-> Projection(w),
     weekly |-> [k \in Shown(w) |-> WeeklyAllowance(Projection(w)[k], RemainingDays(MonthAhead(w, k, 0)))],
     capacity |-> [k \in Shown(w) |-> Capacity(w, k)],
     gap |-> [i \in DOMAIN w.goals |-> Gap(w.goals[i], today)],
     status |-> [i \in DOMAIN w.goals |-> Status(w.goals[i], today)],
     reach |-> [i \in DOMAIN w.goals |-> ReachMonth(w.goals[i], today)],
     course |-> course,
     scheduled |-> [mode \in Modes |-> ScheduledReach(w, course[mode])],
     estimated |-> [mode \in Modes |-> EstimatedReach(w, course[mode])],
     reason |-> [mode \in Modes |-> ReachReason(w, course[mode])]])

\* the base of a month: its rows, then what its occurrences replace
TotalCharges == LET c == request.on IN
  Reply("charges", [of |-> "charges", month |-> Charges!MonthTotals(c.rows),
                    current |-> Charges!SqlTotals(c.rows),
                    base |-> Charges!Reconciled(Charges!MonthTotals(c.rows), c.occurrences, c.rows)])

Analyse == LET c == request.on IN
  Reply("analytics", [of |-> "analytics", result |-> Reports!Analytics(c.query, c.operations)])

\* PrismaEnvelopeReporting: overview by envelope, analytics by category
ReportEnvelopes ==
  LET c == request.on
      byEnvelope(s) == Reports!EnvelopeMonths(s, c.rows, c.payments)
      byCategory(k) == Reports!CategoryMonths(k, c.rows, c.payments)
      sources == {r.source : r \in c.rows}
      categories == {r.category : r \in c.rows}
  IN Reply("envelopes",
       [of |-> "envelopes",
        months |-> [s \in sources |-> byEnvelope(s)],
        totals |-> [s \in sources |-> Reports!EnvelopeTotals(s, c.rows, c.payments)],
        means |-> [s \in sources |-> Reports!Statistics(byEnvelope(s), c.current)],
        categoryMonths |-> [k \in categories |-> byCategory(k)],
        categoryMeans |-> [k \in categories |-> Reports!Statistics(byCategory(k), c.current)]])

PrepareReleases ==
  Reply("releases", [of |-> "releases", trees |-> Releases!Trees(request.on.tree, request.on.runs)])

Deploy ==
  Reply("deployments",
        [of |-> "deployments", servers |-> Deployments!Servers(request.on.server, request.on.runs)])

Next == \/ Expand
        \/ PlanEvents
        \/ ForecastMonth
        \/ PlanGoals
        \/ TotalCharges
        \/ Analyse
        \/ ReportEnvelopes
        \/ PrepareReleases
        \/ Deploy

Spec == Init /\ [][Next]_vars
-----------------------------------------------------------------------------
\* A decision on an occurrence finds exactly the dates the lists and forecasts show, at the
\* ends of short months and over leap years (MonthlyEvent.occurrencesIn, eventOccurrenceSql).
OccurrencesAgree == answer.of = "dates" => answer.decided = answer.listed

\* Every occurrence a confirmed rule has in a month is planned once, with its amount, in the
\* currency of the rule, until it is decided; a simulation adds the potential rules that have
\* not expired.  What a month stores as unresolved when it closes is what the queue still asks
\* to decide in it (plannedMovements, unresolvedCount, listPending, occurrencesIn).
PlansAgree ==
  answer.of = "plans" =>
    LET c == request.on
        open(r) == {d \in OccurrencesIn(r, c.month) : <<r.id, d>> \notin c.decided}
        times(r) == Cardinality(open(r))
        cents(r) == r.cents * times(r)
        count(x) == x.count
        total(x) == x.total
        confirmed == {r \in c.rules : r.status = "CONFIRME"}
        foreseen == {r \in c.rules : r.status = "CONFIRME" \/ MonthIndex(c.today) <= MonthIndex(r.start)}
        rulesOf(s) == IF s = "standard" THEN confirmed ELSE foreseen
    IN \A k \in DOMAIN answer.planned :
         /\ \A s \in Scenarios, kind \in {"DEPENSE", "ENTREE"} :
              LET own == {r \in rulesOf(s) : r.currency = k /\ r.kind = kind}
                  movements == {x \in answer.planned[k][s] : x.kind = kind}
              IN /\ Sum(count, movements) = Sum(times, own)
                 /\ Sum(total, movements) = Sum(cents, own)
                 /\ {x.date : x \in movements} = UNION {open(r) : r \in own}
         /\ c.month \in MonthIndex(c.today) - (PendingWindowMonths - 1) .. MonthIndex(c.today) - 1 =>
              answer.unresolved[k] =
                Cardinality({x \in answer.pending : x.rule.currency = k /\ MonthIndex(x.date) = c.month})

\* what one occurrence adds to the base: more than planned while the month is open,
\* the difference with the plan once it closes
Excess(b, o, days, final) ==
  LET paid == CentsOf(b, PaymentsOf(b, o) \intersect Moves(b, days))
      plan == b.plans[o]
  IN Signed(plan.kind, IF final THEN paid - plan.planned ELSE AtLeast(paid - plan.planned, 0))

ReferenceBalance(b, days, final) ==
  LET excess(o) == Excess(b, o, days, final)
  IN Base(b) + b.carry + Sum(excess, ReconciledPlans(b))
     + EntriesLessExpenses(b, PaymentsOf(b, Unlinked) \intersect Moves(b, days))

\* A linked payment counts for what exceeds its plan while the month is open and replaces the
\* plan when it closes, whatever the order of the rows; the last day shows the balance of the
\* month, and a closed month the adjustment it closed with (BudgetPeriod.calculateRealBudget).
\* The reconciliation summary of an open month projects the same balance, once the plans it
\* tracks are taken out of the base (PrismaReconciliationRepository.summary).
BalanceReplacesPlans ==
  answer.of = "month" =>
    LET b == request.on.budget
        last == DaysIn(b.month) IN
    /\ \A d \in 1 .. last - 1 : answer.daily[d] = ReferenceBalance(b, 1 .. d, FALSE)
    /\ answer.daily[last] = answer.balance
    /\ b.frozen = {} => answer.balance = ReferenceBalance(b, 1 .. last, b.closed)
    /\ ~b.closed => answer.projected - answer.planned + Base(b) + b.carry = answer.balance
    /\ answer.dailyForecast[last] = answer.forecast
    /\ answer.dailyRemaining[last] + b.carry - request.on.savings = answer.forecast

\* What the capacity shows before goals is the forecast without reservations, every month of
\* the window; after the planned contributions, and along the trajectory that makes only those,
\* it is the forecast.  A week gets its share of the month to the cent, losses included
\* (SavingsCapacityService, SavingsTrajectory, BudgetForecastService).
SavingsFollowForecast ==
  answer.of = "horizon" =>
    LET w == request.on IN
    /\ \A k \in Shown(w) :
         LET days == RemainingDays(MonthAhead(w, k, 0)) IN
         /\ answer.capacity[k].before = Projection([w EXCEPT !.savings = 0])[k]
         /\ answer.capacity[k].after = answer.remaining[k]
         /\ answer.weekly[k] = RoundedShare(answer.remaining[k] * AtMost(7, days), days)
    /\ \A k \in Horizon(w) : answer.course["planned"][k].balance = answer.remaining[k]

\* The month a goal is reached, its status, its planned trajectory and the contribution it lacks
\* tell the same, up to a deadline so far ahead that no month is told of it; a trajectory that
\* saves more never reaches the goal later, and none takes what is protected or saves beyond a
\* target (FinancialGoal.forecast, calculateSavingsTrajectory; docs/financial-goals.md:37).
GoalViewsAgree ==
  answer.of = "horizon" =>
    LET w == request.on
        goal == w.goals[w.selected]
        month0 == MonthIndex(w.budgets[1].today)
        alone == {r - month0 : r \in answer.reach[w.selected]}
        \* no month stands for one beyond the horizon
        month(mode) == Min(answer.scheduled[mode] \union {Len(w.budgets)})
    IN /\ answer.scheduled["planned"] = alone \intersect Horizon(w)
       /\ LET ahead == MonthIndex(goal.deadline) - month0 IN
          goal.deadline # NoDate /\ answer.status[w.selected] # "REACHED" /\ ahead <= MaxForecastMonths
            => (answer.status[w.selected] = "ON_TRACK" <=> \E k \in alone : k <= ahead)
       /\ \A i \in DOMAIN w.goals : \A gap \in answer.gap[i] :
            answer.status[i] = IF gap <= 0 THEN "ON_TRACK" ELSE "BEHIND"
       /\ month("maximum") <= month("reasonable") /\ month("reasonable") <= month("planned")
       /\ \A mode \in Modes, k \in Horizon(w) :
            LET state == answer.course[mode][k] IN
            /\ state.extra > 0 => state.balance >= state.safe
            /\ \A i \in DOMAIN w.goals : state.saved[i] <= AtLeast(w.goals[i].target, w.goals[i].saved)

\* Every fixed row counts once in the base of a month: by its occurrence when the month has
\* one, else by its own share; both ways of adding the rows agree to the cent
\* (loadFixedTotals, reconcileFixedTotals).
FixedTotalsAgree ==
  answer.of = "charges" =>
    LET c == request.on
        free == {r \in c.rows : \A o \in c.occurrences : o.source # r.id}
        planned(o) == o.planned
        total(kind, type) == MapThenSumSet(planned, {o \in c.occurrences : o.kind = kind})
                             + MapThenSumSet(Charges!MonthlyAmount, Charges!OfType(free, type))
    IN /\ answer.month = answer.current
       /\ answer.base = [income  |-> total("ENTREE", "REVENU"),
                         expense |-> total("DEPENSE", "CHARGE")]

\* Every operation of the period is in exactly one bucket and one series of it, and its
\* amount with it, at the first and last days of the period too (assembleAnalytics).
NoOperationLost ==
  answer.of = "analytics" =>
    LET q == request.on.query
        asked == {o \in request.on.operations : /\ UpTo(q.from, o.date) /\ UpTo(o.date, q.to)
                                                /\ q.kind \in {"", o.kind}}
        whole(totals, field) ==
          LET part(k) == totals[k][field]
          IN MapThenSumSet(part, {k \in DOMAIN totals : totals[k].count > 0})
    IN \A result \in answer.result : \A field \in {"income", "expense", "count"} :
         LET totals == [key \in DOMAIN result |-> result[key].total] IN
         /\ whole(totals, field) = Reports!Totals(asked)[field]
         /\ q.split # "" => \A key \in DOMAIN result :
              whole(result[key].series, field) = result[key].total[field]

\* A category tells of a month what its envelopes tell, and of every month when it has one
\* envelope; all categories add up to all envelopes; a month enters the mean of a category
\* exactly when it enters the mean of every envelope of it, so the current month and a month
\* with an unpaid envelope never do (PrismaEnvelopeReporting.overview and analytics).
EnvelopeViewsAgree ==
  answer.of = "envelopes" =>
    LET c == request.on
        sampled(s) == {m.month : m \in Reports!Sample(answer.months[s], c.current)}
        sum(k, m, field) ==
          LET part(s) == (CHOOSE x \in answer.months[s] : x.month = m)[field]
          IN MapThenSumSet(part, {r.source : r \in Reports!InCategory(k, m, c.rows)})
        spent(s) == answer.totals[s].actual
        ofCategory(k) == MapThenSumSet(LAMBDA x : x.actual, answer.categoryMonths[k])
    IN
    /\ MapThenSumSet(spent, DOMAIN answer.totals)
         = MapThenSumSet(ofCategory, DOMAIN answer.categoryMonths)
    /\ \A k \in DOMAIN answer.categoryMonths, s \in DOMAIN answer.months :
         {r \in c.rows : r.category = k} = {r \in c.rows : r.source = s} =>
           answer.categoryMeans[k] = answer.means[s]
    /\ \A k \in DOMAIN answer.categoryMonths : \A x \in answer.categoryMonths[k] :
         /\ x.planned = sum(k, x.month, "planned")
         /\ x.actual = sum(k, x.month, "actual")
         /\ x \in Reports!Sample(answer.categoryMonths[k], c.current)
              <=> \A r \in Reports!InCategory(k, x.month, c.rows) : x.month \in sampled(r.source)

\* No fragment is lost, even by a run that stops between two of its writes; a section is as far
\* above the one below as its fragments ask for; the notes of a version tell users of the
\* fragments of its section.  When no run is cut off every fragment is told once, every version
\* has its notes and its link, and the newest section is that of the package
\* (scripts/release.cjs; docs/release-process.md:16-26).
FragmentsToldOnce ==
  answer.of = "releases" =>
    \A i \in DOMAIN answer.trees :
      LET runs == request.on.runs
          tree == answer.trees[i]
          sections == tree.log.sections
          body(k) == Range(sections[k].body)
          told(f) == {k \in DOMAIN sections : f \in body(k)}
          added == UNION {runs[j].added : j \in 1 .. i}
          writes == 3 + Cardinality(Releases!FragmentsOf(request.on.tree, runs))  \* no run has more
          \* the parts of a version that fragments of these types must raise
          raises(k, n, types) ==
            (\E f \in body(k) : f.type \in types) =>
               SubSeq(sections[k].version, 1, n) # SubSeq(sections[k + 1].version, 1, n)
      IN /\ \A f \in added : f \in tree.pending \/ told(f) # {}
         /\ \A k \in 1 .. Len(sections) - 1 :
              /\ Releases!Older(sections[k + 1].version, sections[k].version)
              /\ raises(k, 1, {"removed"})
              /\ raises(k, 2, {"added", "changed", "deprecated"})
              /\ LET notes == Releases!ComposedNotes(tree, sections[k].version) IN
                 /\ notes.technical = sections[k].body
                 /\ \A lines \in notes.user : Range(lines) = {f \in body(k) : f.user}
         /\ (\A j \in 1 .. i : runs[j].cut >= writes) =>
              /\ tree.version = sections[1].version
              /\ \A f \in added : (f \in tree.pending) # (Cardinality(told(f)) = 1)
              /\ \A k \in 1 .. Len(sections) - 1 :
                   /\ sections[k].version \in DOMAIN tree.notes
                   /\ tree.log.compared # Releases!NoVersion =>
                        <<sections[k + 1].version, sections[k].version>> \in tree.log.links

\* Whatever fails and wherever a deployment is cut off, the image that runs finds the schema it
\* was built for or a later one, and the image to fall back to has answered its probe.  A
\* deployment that is not cut off and starts from a server that runs its recorded image leaves
\* one that does, and that answers when the image it went back to does
\* (scripts/deploy-production.sh; docs/ci-cd.md:18-21).
DeploymentsRecover ==
  answer.of = "deployments" =>
    \A i \in DOMAIN request.on.runs :
      LET run == request.on.runs[i]
          before == answer.servers[i - 1]
          server == answer.servers[i]
          tried == {request.on.runs[j] : j \in 1 .. i}
      IN /\ server.running.level <= server.schema
         /\ server.recorded \in {request.on.server.recorded} \union {r.image : r \in {t \in tried : t.healthy}}
         /\ /\ run.steps = 3
            /\ before.running = before.recorded
            /\ before.recorded # Deployments!NoImage \/ run.healthy
            => /\ server.running = server.recorded
               /\ before.answers /\ (run.healthy \/ run.restored) => server.answers
=============================================================================
