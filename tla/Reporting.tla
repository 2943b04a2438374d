------------------------------ MODULE Reporting ------------------------------
(***************************************************************************)
(* What the user reads of the past: operations grouped by day, week, month,*)
(* year, category or kind, and envelopes month by month, by envelope and   *)
(* by category.  A key is a tuple of numbers: a date, <<year, month>>,     *)
(* <<year>>, <<category>> or <<kind>>.                                     *)
(***************************************************************************)
EXTENDS Calendar, Sequences, FiniteSetsExt

Kinds == <<"DEPENSE", "ENTREE">>
Temporal == {"day", "week", "month", "year"}
MaxPoints == 500

\* what validation lets through: a period, and the operations stored
IsAnalysis(q, operations) ==
  /\ IsCivil(q.from) /\ IsCivil(q.to) /\ IsFiniteSet(operations)
  /\ \A o \in operations : IsCivil(o.date) /\ o.kind \in {"DEPENSE", "ENTREE"} /\ o.cents \in Int

Dates(from, to) == {d \in UNION {DatesIn(m) : m \in MonthIndex(from) .. MonthIndex(to)} :
                      UpTo(from, d) /\ UpTo(d, to)}
\* isoWeekStart
Monday(d) == CHOOSE e \in DatesIn(MonthIndex(d) - 1) \union DatesIn(MonthIndex(d)) :
               DayNumber(e) = DayNumber(d) - Weekday(d)

\* Fault: the weeks are counted from the first day asked for.
WeeksFromFirstDay(from, to) ==
  {d \in Dates(from, Monday(to)) : (DayNumber(d) - DayNumber(from)) % 7 = 0}

Weeks(from, to) ==
  {d \in Dates(Monday(from), Monday(to)) : (DayNumber(d) - DayNumber(Monday(from))) % 7 = 0}

\* temporalKeys: every key of the period, both ends included
TemporalKeys(q) ==
  CASE q.group = "day"   -> Dates(q.from, q.to)
    [] q.group = "week"  -> Weeks(q.from, q.to)
    [] q.group = "month" -> {<<YearOf(m), MonthNo(m)>> : m \in MonthIndex(q.from) .. MonthIndex(q.to)}
    [] q.group = "year"  -> {<<y>> : y \in q.from[1] .. q.to[1]}
    [] OTHER             -> {}

KindKeys(q) == {<<k>> : k \in {k \in 1 .. 2 : q.kind \in {"", Kinds[k]}}}
TooManyPoints(buckets, series) == buckets * (IF series > 1 THEN series ELSE 1) > MaxPoints

\* validateAnalyticsRange: each grouping has its own longest period
ValidRange(q) ==
  LET months == MonthIndex(q.to) - MonthIndex(q.from) + 1
      weeks  == (DayNumber(Monday(q.to)) - DayNumber(Monday(q.from))) \div 7 + 1
  IN /\ UpTo(q.from, q.to)
     /\ CASE q.group = "day"  -> DayNumber(q.to) - DayNumber(q.from) + 1 <= 366
          [] q.group = "week" -> weeks <= 156
          [] q.group = "year" -> q.to[1] - q.from[1] + 1 <= 30
          [] OTHER            -> months <= 120
     /\ q.split = "kind" => ~TooManyPoints(Cardinality(TemporalKeys(q)), Cardinality(KindKeys(q)))

\* the SQL expression of each dimension
Key(dimension, o) ==
  CASE dimension = "day"      -> o.date
    [] dimension = "week"     -> Monday(o.date)
    [] dimension = "month"    -> <<o.date[1], o.date[2]>>
    [] dimension = "year"     -> <<o.date[1]>>
    [] dimension = "category" -> <<o.category>>
    [] dimension = "kind"     -> <<CHOOSE k \in 1 .. 2 : Kinds[k] = o.kind>>

\* the rows of the aggregate, operation by operation
Selected(q, operations) == {o \in operations : /\ UpTo(q.from, o.date) /\ UpTo(o.date, q.to)
                                               /\ q.kind \in {"", o.kind}}
InBucket(q, S, key) == {o \in S : Key(q.group, o) = key}
InSeries(q, S, key) == {o \in S : Key(q.split, o) = key}

Totals(S) == LET cents(o) == o.cents IN
             [income  |-> MapThenSumSet(cents, {o \in S : o.kind = "ENTREE"}),
              expense |-> MapThenSumSet(cents, {o \in S : o.kind = "DEPENSE"}),
              count   |-> Cardinality(S)]

\* assembleAnalytics.  Periods and kinds are listed even when empty.
BucketKeys(q, S) == CASE q.group \in Temporal -> TemporalKeys(q)
                      [] q.group = "kind"     -> KindKeys(q)
                      [] OTHER                -> {Key(q.group, o) : o \in S}
SeriesKeys(q, S) == IF q.split = "" THEN {} ELSE {Key(q.split, o) : o \in S}

\* the answer to q, or none when the period or the number of points is too large
Analytics(q, operations) ==
  LET S == Selected(q, operations)
      buckets == BucketKeys(q, S)
      series == SeriesKeys(q, S)
      points(key) == [s \in series |-> Totals(InSeries(q, InBucket(q, S, key), s))]
  IN IF ~ValidRange(q) \/ TooManyPoints(Cardinality(buckets), Cardinality(series)) THEN {}
     ELSE {[key \in buckets |-> [total |-> Totals(InBucket(q, S, key)), series |-> points(key)]]}
-----------------------------------------------------------------------------
\* an occurrence of an envelope in a month: [id, source, category, month, planned];
\* a payment: [id, link, cents]

\* rows as they are stored: one for each envelope and month, each with its own id
IsEnvelopes(rows, payments) ==
  /\ IsFiniteSet(rows) /\ IsFiniteSet(payments)
  /\ \A r \in rows : r.planned \in Int
  /\ \A p \in payments : p.cents \in Int
  /\ \A r, s \in rows : r.id = s.id \/ <<r.source, r.month>> = <<s.source, s.month>> => r = s

Paid(payments, rows) ==
  LET cents(p) == p.cents IN MapThenSumSet(cents, {p \in payments : p.link \in {r.id : r \in rows}})
PaidTimes(payments, rows) == Cardinality({p \in payments : p.link \in {r.id : r \in rows}})
Planned(rows) == LET planned(r) == r.planned IN MapThenSumSet(planned, rows)
Over(a, b) == IF a > b THEN a - b ELSE 0

\* metrics of an envelope
Metrics(planned, actual) ==
  [planned |-> planned, actual |-> actual, remaining |-> Over(planned, actual),
   overrun |-> Over(actual, planned),
   progress |-> IF planned = 0 THEN {} ELSE {(actual * 10000 + planned \div 2) \div planned},
   status |-> IF actual > planned THEN "EXCEEDED"
              ELSE IF actual = planned THEN "REACHED" ELSE "AVAILABLE"]

RoundedMean(value, count) == (value + count \div 2) \div count

\* analyzeEnvelopeMonths: only ended months that have payments enter the means
Sample(months, current) == {m \in months : m.month < current /\ m.count > 0}
Statistics(months, current) ==
  LET sample == Sample(months, current)
      n == Cardinality(sample)
      actual(m) == m.actual
      planned(m) == m.planned
      overrun(m) == Over(m.actual, m.planned)
      mean(amount(_)) == IF n = 0 THEN {} ELSE {RoundedMean(MapThenSumSet(amount, sample), n)}
      exceeded == Cardinality({m \in sample : m.actual > m.planned})
  IN [sample |-> n, ended |-> Cardinality({m \in months : m.month < current}),
      meanActual |-> mean(actual), meanPlanned |-> mean(planned), meanOverrun |-> mean(overrun),
      exceeded |-> exceeded,
      rate |-> IF n = 0 THEN {} ELSE {(exceeded * 20000 + n) \div (2 * n)}]

\* the months of one envelope
EnvelopeMonths(source, rows, payments) ==
  {[month |-> r.month, planned |-> r.planned, actual |-> Paid(payments, {r}),
    count |-> PaidTimes(payments, {r})] : r \in {r \in rows : r.source = source}}
EnvelopeTotals(source, rows, payments) ==
  LET own == {r \in rows : r.source = source} IN Metrics(Planned(own), Paid(payments, own))

InCategory(category, month, rows) == {r \in rows : r.category = category /\ r.month = month}

\* Fault: a month counts as soon as one of its envelopes has payments.
CategoryCountAny(rows, payments) == PaidTimes(payments, rows)

\* a month with an envelope nobody paid for counts as having no payment
CategoryCount(rows, payments) ==
  IF \E r \in rows : PaidTimes(payments, {r}) = 0 THEN 0 ELSE PaidTimes(payments, rows)

\* the months of one category, over the envelopes it had in each
CategoryMonths(category, rows, payments) ==
  {LET own == InCategory(category, m, rows)
   IN [month |-> m, planned |-> Planned(own), actual |-> Paid(payments, own),
       count |-> CategoryCount(own, payments)] :
     m \in {r.month : r \in {r \in rows : r.category = category}}}
==============================================================================
