--------------------------- MODULE BudgetPreview ---------------------------
(***************************************************************************)
(* The carry the multi-month forecast starts from, beside the chain the    *)
(* summary writes.                                                         *)
(*                                                                         *)
(* BudgetForecastService.currentCarry never writes: where the current      *)
(* month has no period it replays, in memory, the months the engine would  *)
(* open and close.  The two are different code: the engine walks down and  *)
(* back up through the table, the forecast walks up from the latest closed *)
(* row.  Here every summary of the current month first notes what a        *)
(* forecast asked for at that moment starts from.                          *)
(***************************************************************************)
EXTENDS BudgetPeriods

VARIABLE preview  \* per request: {carry of the forecast}, {} when there is none

previewVars == <<vars, preview>>

-----------------------------------------------------------------------------
\* firstActivityMonth, as the set of its value.
Origin ==
  {m \in Months : NothingBefore(m) /\ \E o \in OpIds : ops[o] \in Operation /\ ops[o].month = m}

\* The closed rows a forecast may start from: those of origin..month-1.
ClosedBefore(month) ==
  {m \in Months : /\ m < month
                  /\ \E first \in Origin : first <= m
                  /\ row[m] # NoRow
                  /\ row[m].status = "CLOSED"}

\* Fault: a missing month always repeats the fixed totals of the one before.
ReplayedBaseUnplanned(m, base) == IF row[m] # NoRow THEN row[m].base ELSE base

\* The fixed totals of month `m': its snapshot, the live ones where
\* reconciliation plans await, else those of the month before.
ReplayedBase(m, base) ==
  CASE row[m] # NoRow -> row[m].base
    [] row[m] = NoRow /\ m \in PlannedMonths -> fixed[m]
    [] OTHER -> base

\* The months from `first' on, replayed on top of `start'.
Replay(first, start) ==
  LET after[m \in (first - 1)..LastMonth] ==
        IF m < first
        THEN start
        ELSE LET base == ReplayedBase(m, after[m - 1].base)
             IN  [base  |-> base,
                  carry |-> base + Income(m) - Expense(m) + after[m - 1].carry]
  IN  after

\* currentCarry
CurrentCarry(month) ==
  CASE row[month] # NoRow -> row[month].carry
    [] row[month] = NoRow /\ \A first \in Origin : first >= month -> 0
    [] OTHER ->
         IF ClosedBefore(month) = {}
         THEN LET first == CHOOSE m \in Origin : TRUE
              IN  Replay(first, [base |-> fixed[first], carry |-> 0])[month - 1].carry
         ELSE LET last == CHOOSE m \in ClosedBefore(month) :
                            \A k \in ClosedBefore(month) : k <= m
              IN  Replay(last + 1, [base  |-> row[last].base,
                                    carry |-> row[last].remaining])[month - 1].carry

-----------------------------------------------------------------------------
PreviewInit == Init /\ preview = [w \in Workers |-> {}]

\* A summary of the current month starts: note the forecast of the moment.
StartSummary(w) ==
  /\ Summarize(w)
  /\ preview' = [preview EXCEPT ![w] = IF top'[w] = now THEN {CurrentCarry(now)} ELSE {}]

\* Every other step keeps the note, unless it answers the request or changes
\* the fixed operations the note was computed from.
PreviewNext ==
  \/ \E w \in Workers : StartSummary(w)
  \/ /\ Next
     /\ \A w \in Workers : ~(pc[w] = "idle" /\ kind'[w] = "summarize")
     /\ preview' = [w \in Workers |->
                      IF fixed' # fixed \/ pc'[w] = "idle" THEN {} ELSE preview[w]]

PreviewSpec == PreviewInit /\ [][PreviewNext]_previewVars

-----------------------------------------------------------------------------
\* The forecast and the summary agree on the carry of the current month: what
\* currentCarry replays without writing is what the engine then stores
\* (docs/budget-forecast.md, "le report est reconstruit en memoire depuis le
\* dernier bilan cloture ou le premier mois d'activite, avec les snapshots
\* fixes historiques").  A correction that died half-way may leave a past open
\* period the two treat differently, so such behaviours are excused.
ForecastFollowsSummary ==
  [][\A w \in Workers :
       pc[w] # "idle" /\ pc'[w] = "idle" /\ preview[w] # {} /\ ~excused' =>
         row'[top[w]] # NoRow /\ row'[top[w]].carry \in preview[w]]_previewVars
=============================================================================
