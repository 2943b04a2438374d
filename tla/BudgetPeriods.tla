--------------------------- MODULE BudgetPeriods ---------------------------
(***************************************************************************)
(* The monthly balance chain of one owner in one currency:                 *)
(* BudgetPeriodEngine, BudgetCorrectionService, the budget period table    *)
(* and the writes of one-off operations that feed them.                    *)
(*                                                                         *)
(* Operations are the facts.  A budget period (`row') is derived from      *)
(* them: its carry is the closed balance of the month before, and a CLOSED *)
(* row stores totals that a correction must bring up to date after every   *)
(* write in a past month.  The write commits first, the correction runs    *)
(* afterwards and outside the transaction, every repository call is an     *)
(* await, and several requests run at once: one action below is one        *)
(* repository call (or one database transaction).                          *)
(*                                                                         *)
(* Abstractions.  Months are 1..LastMonth.  Every operation is worth one   *)
(* minor unit, so sums of operations are cardinalities.  The fixed income  *)
(* and expense of a row are kept as their difference, `base'.  Operations  *)
(* linked to a reconciliation occurrence are left out, so the frozen       *)
(* reconciliation adjustment of every closed row is zero.                  *)
(***************************************************************************)
EXTENDS Integers, FiniteSets

CONSTANTS
  Workers,        \* requests being served at once
  OpIds,          \* identifiers of one-off operations, never reused
  LastMonth,      \* bound: the last civil month of the model
  StartMonth,     \* the civil month in which the behaviour starts
  MaxAttempts,    \* MAX_RECALCULATION_ATTEMPTS
  MaxRequests,    \* bound: requests and fixed changes started
  OpKinds,        \* kinds of the operations written: "ENTREE", "DEPENSE"
  Requests,       \* which requests are made, a subset of RequestKinds
  Crashes,        \* TRUE when the process may die in the middle of a request
  BaseValues,     \* the values of the live fixed base
  Seeds,          \* which histories behaviours start from, see Init
  PlannedMonths,  \* months holding reconciliation plans
  NoRow,          \* absence of a budget period row
  NoOp,           \* an identifier no operation carries yet
  Deleted,        \* an operation that was deleted
  Free            \* the owner lock when nobody holds it

Months == 1..LastMonth
Kinds == {"ENTREE", "DEPENSE"}
RequestKinds ==
  {"create", "update", "delete", "realize", "summarize", "fixed", "rollover"}

Row == [status : {"OPEN", "CLOSED"}, base : Int, carry : Int, income : Nat,
        expense : Nat, remaining : Int, revision : Nat]
Operation == [month : Months, kind : OpKinds]

ASSUME MonthsAssumption ==
  /\ LastMonth \in Nat
  /\ StartMonth \in 1..LastMonth
  /\ MaxAttempts \in Nat \ {0}
  /\ MaxRequests \in Nat
ASSUME OpsAssumption == IsFiniteSet(OpIds) /\ OpKinds \subseteq Kinds
ASSUME BaseAssumption == BaseValues \subseteq Int /\ BaseValues # {}
ASSUME ChoiceAssumption == Requests \subseteq RequestKinds /\ Crashes \in BOOLEAN
ASSUME SentinelAssumption ==
  /\ NoRow \notin Row
  /\ \A o \in {NoOp, Deleted} : o \notin [month : Months, kind : Kinds]
  /\ NoOp # Deleted /\ NoOp \notin OpIds
  /\ Free \notin Workers

VARIABLES
  \* the database and the clock
  now,      \* civil month in Europe/Paris
  ops,      \* the one-off operations
  fixed,    \* live fixed base of each month
  row,      \* the budget periods
  lock,     \* owner row lock (SELECT id FROM Utilisateur ... FOR UPDATE)
  \* the requests being served
  pc,       \* the call each worker makes next
  kind,     \* the request each worker serves
  op,       \* operation being changed: its id and the month known for it
  touched,  \* months of the operation's dates before and after the write
  today,    \* civil month the request works with
  from,     \* month the recalculation starts at
  listed,   \* periods read by listFrom
  top,      \* month being summarized or recalculated
  cursor,   \* month being resolved, at most `top'
  prev,     \* closed period of the month before `cursor', NoRow for none
  held,     \* period image computed from earlier reads, about to be written
  tries,    \* attempts of the recalculation
  started,  \* requests started (bounded by MaxRequests)
  excused   \* TRUE once a request died or gave up with an error

db == <<now, ops, fixed, row, lock>>
request == <<kind, op, touched, today, from, listed, top>>
vars == <<now, ops, fixed, row, lock, pc, kind, op, touched, today, from,
          listed, top, cursor, prev, held, tries, started, excused>>

-----------------------------------------------------------------------------
(* Reads of the operation table.                                           *)

OpsIn(m, k) == {o \in OpIds : ops[o] = [month |-> m, kind |-> k]}
Income(m) == Cardinality(OpsIn(m, "ENTREE"))
Expense(m) == Cardinality(OpsIn(m, "DEPENSE"))

\* month <= firstActivityMonth, or no operation at all
NothingBefore(m) ==
  \A o \in OpIds : ops[o] \in Operation => m <= ops[o].month

\* Fault: the carry is left out of the remaining balance.
RecomputedWithoutCarry(r, m, carry) ==
  [r EXCEPT !.carry = carry, !.income = Income(m), !.expense = Expense(m),
            !.remaining = r.base + Income(m) - Expense(m)]

\* calculateRealBudget for a closed row, on the operations of the moment.
Recomputed(r, m, carry) ==
  [r EXCEPT !.carry = carry, !.income = Income(m), !.expense = Expense(m),
            !.remaining = r.base + Income(m) - Expense(m) + carry]

\* Row `r' takes the totals computed in `image', at its next revision.
WithTotals(r, image) ==
  [r EXCEPT !.income = image.income, !.expense = image.expense,
            !.remaining = image.remaining, !.revision = r.revision + 1]

\* Fault: a negative balance is not carried over.
CarryFromPositive(previous) ==
  IF previous = NoRow \/ previous.remaining < 0 THEN 0 ELSE previous.remaining

CarryFrom(previous) == IF previous = NoRow THEN 0 ELSE previous.remaining

OpenRow(base, carry) ==
  [status |-> "OPEN", base |-> base, carry |-> carry, income |-> 0,
   expense |-> 0, remaining |-> 0, revision |-> 1]

-----------------------------------------------------------------------------
(* Moving a worker from one call to the next.                              *)

Goto(w, call) == pc' = [pc EXCEPT ![w] = call]

\* The request is answered; its local variables are forgotten.
Done(w) ==
  /\ Goto(w, "idle")
  /\ kind' = [kind EXCEPT ![w] = "none"]
  /\ op' = [op EXCEPT ![w] = [id |-> NoOp, month |-> StartMonth]]
  /\ touched' = [touched EXCEPT ![w] = {}]
  /\ today' = [today EXCEPT ![w] = StartMonth]
  /\ from' = [from EXCEPT ![w] = StartMonth]
  /\ listed' = [listed EXCEPT ![w] = [m \in Months |-> NoRow]]
  /\ top' = [top EXCEPT ![w] = StartMonth]
  /\ cursor' = [cursor EXCEPT ![w] = StartMonth]
  /\ prev' = [prev EXCEPT ![w] = NoRow]
  /\ held' = [held EXCEPT ![w] = NoRow]
  /\ tries' = [tries EXCEPT ![w] = 0]

\* The request is answered with an error; a correction that ends so is not done.
Fail(w) ==
  /\ Done(w)
  /\ excused' = (excused \/ kind[w] # "summarize")

Begin(w, k) ==
  /\ pc[w] = "idle"
  /\ k \in Requests
  /\ started < MaxRequests
  /\ started' = started + 1
  /\ kind' = [kind EXCEPT ![w] = k]

\* previousClosed returned `r' for the month above `m'.
HavePrevious(w, m, r) ==
  /\ prev' = [prev EXCEPT ![w] = r]
  /\ cursor' = [cursor EXCEPT ![w] = m + 1]
  /\ Goto(w, IF kind[w] # "summarize" /\ m + 1 = top[w] THEN "apply" ELSE "open")
  /\ held' = [held EXCEPT ![w] = NoRow]
  /\ UNCHANGED <<request, tries>>

\* Fault: summarize closes the current month too.
ResolvedEarly(w, r) ==
  LET summarized == kind[w] = "summarize" /\ cursor[w] = top[w]
  IN  \/ /\ r.status = "OPEN"
         /\ summarized => top[w] <= today[w]
         /\ Goto(w, "closeRead")
         /\ UNCHANGED <<request, cursor, prev, held, tries>>
      \/ /\ summarized
         /\ r.status = "CLOSED" \/ top[w] > today[w]
         /\ Done(w)
      \/ /\ ~summarized
         /\ r.status = "CLOSED"
         /\ HavePrevious(w, cursor[w], r)

\* resolve returned row `r' for the month under the cursor: summarize closes
\* its own month when it is over, previousClosed closes the one it asked for.
Resolved(w, r) ==
  LET summarized == kind[w] = "summarize" /\ cursor[w] = top[w]
  IN  \/ /\ r.status = "OPEN"
         /\ summarized => top[w] < today[w]
         /\ Goto(w, "closeRead")
         /\ UNCHANGED <<request, cursor, prev, held, tries>>
      \/ /\ summarized
         /\ r.status = "CLOSED" \/ top[w] >= today[w]
         /\ Done(w)
      \/ /\ ~summarized
         /\ r.status = "CLOSED"
         /\ HavePrevious(w, cursor[w], r)

-----------------------------------------------------------------------------
(* Writes of one-off operations (OneOffOperationUseCases and its           *)
(* repository).  Every write transaction starts by taking the owner lock;  *)
(* it is one step, taken while nobody else holds the lock.                 *)

\* Identifiers the database has not given out.
Unused == {o \in OpIds : ops[o] = NoOp /\ \A v \in Workers : op[v].id # o}

\* OneOffOperationUseCases.create up to the commit
Create(w) ==
  /\ Begin(w, "create")
  /\ lock = Free
  /\ \E o \in Unused, x \in Operation :
       /\ ops' = [ops EXCEPT ![o] = x]
       /\ touched' = [touched EXCEPT ![w] = {x.month}]
  /\ Goto(w, "correct")
  /\ UNCHANGED <<now, fixed, row, lock, op, today, from, listed, top, cursor,
                 prev, held, tries, excused>>

\* update and delete first read the operation, outside the transaction
ReadBefore(w) ==
  /\ \E k \in {"update", "delete"} : Begin(w, k)
  /\ \E o \in OpIds :
       /\ ops[o] \in Operation
       /\ op' = [op EXCEPT ![w] = [id |-> o, month |-> ops[o].month]]
  /\ Goto(w, "commit")
  /\ UNCHANGED <<db, touched, today, from, listed, top, cursor, prev, held,
                 tries, excused>>

CommitUpdate(w) ==
  /\ pc[w] = "commit"
  /\ kind[w] = "update"
  /\ lock = Free
  /\ ops[op[w].id] \in Operation
  /\ \E x \in Operation :
       /\ ops' = [ops EXCEPT ![op[w].id] = x]
       /\ touched' = [touched EXCEPT ![w] = {op[w].month, x.month}]
  /\ Goto(w, "correct")
  /\ UNCHANGED <<now, fixed, row, lock, kind, op, today, from, listed, top,
                 cursor, prev, held, tries, started, excused>>

CommitDelete(w) ==
  /\ pc[w] = "commit"
  /\ kind[w] = "delete"
  /\ lock = Free
  /\ ops[op[w].id] \in Operation
  /\ ops' = [ops EXCEPT ![op[w].id] = Deleted]
  /\ touched' = [touched EXCEPT ![w] = {op[w].month}]
  /\ Goto(w, "correct")
  /\ UNCHANGED <<now, fixed, row, lock, kind, op, today, from, listed, top,
                 cursor, prev, held, tries, started, excused>>

\* The operation was deleted in between: OPERATION_NOT_FOUND.
CommitNotFound(w) ==
  /\ pc[w] = "commit"
  /\ lock = Free
  /\ ops[op[w].id] = Deleted
  /\ Done(w)
  /\ UNCHANGED <<db, started, excused>>

\* EventOccurrenceUseCases.realize: assertPeriodOpen on the operation's date
CheckPeriodOpen(w) ==
  /\ Begin(w, "realize")
  /\ \E o \in Unused, m \in Months :
       /\ m >= now
       /\ row[m] # NoRow => row[m].status = "OPEN"
       /\ op' = [op EXCEPT ![w] = [id |-> o, month |-> m]]
  /\ Goto(w, "insert")
  /\ UNCHANGED <<db, touched, today, from, listed, top, cursor, prev, held, tries,
                 excused>>

\* ... then the transaction that inserts the operation.  It takes no owner
\* lock, but the foreign key to the owner makes it wait for a holder.
InsertRealized(w) ==
  /\ pc[w] = "insert"
  /\ lock = Free
  /\ \E x \in Operation :
       /\ x.month = op[w].month
       /\ ops' = [ops EXCEPT ![op[w].id] = x]
  /\ Done(w)
  /\ UNCHANGED <<now, fixed, row, lock, started, excused>>

-----------------------------------------------------------------------------
(* BudgetCorrectionService.afterOperationChange and recalculateFrom.       *)

\* The earliest touched month, if it is over; otherwise nothing to correct.
Correct(w) ==
  /\ pc[w] = "correct"
  /\ \/ /\ \A m \in touched[w] : m >= now
        /\ Done(w)
     \/ \E m \in touched[w] :
          /\ m < now
          /\ \A k \in touched[w] : m <= k
          /\ from' = [from EXCEPT ![w] = m]
          /\ today' = [today EXCEPT ![w] = now]
          /\ tries' = [tries EXCEPT ![w] = 1]
          /\ Goto(w, "list")
          /\ UNCHANGED <<kind, op, touched, listed, top, cursor, prev, held>>
  /\ UNCHANGED <<db, started, excused>>

\* The first listed period above `m' is recalculated next, if there is one.
Recalculate(w, periods, m) ==
  \/ /\ \A k \in Months : k > m => periods[k] = NoRow
     /\ Done(w)
  \/ \E k \in Months :
       /\ k > m /\ periods[k] # NoRow
       /\ \A j \in Months : j > m /\ periods[j] # NoRow => k <= j
       /\ listed' = [listed EXCEPT ![w] = periods]
       /\ top' = [top EXCEPT ![w] = k]
       /\ cursor' = [cursor EXCEPT ![w] = k]
       /\ prev' = [prev EXCEPT ![w] = NoRow]
       /\ held' = [held EXCEPT ![w] = NoRow]
       /\ Goto(w, "origin")
       /\ UNCHANGED <<kind, op, touched, today, from, tries>>

\* Fault: the corrected month itself is left out of the recalculation.
ListAfter(w) ==
  /\ pc[w] = "list"
  /\ Recalculate(w, [m \in Months |-> IF m > from[w] THEN row[m] ELSE NoRow],
                 from[w])
  /\ UNCHANGED <<db, started, excused>>

\* listFrom
ListFrom(w) ==
  /\ pc[w] = "list"
  /\ Recalculate(w, [m \in Months |-> IF m >= from[w] THEN row[m] ELSE NoRow],
                 from[w] - 1)
  /\ UNCHANGED <<db, started, excused>>

\* The carry is known: compute the row to write.  An OPEN period only takes a
\* new carry; a CLOSED one is recomputed with its frozen fixed snapshot.
ComputePeriod(w) ==
  LET period == listed[w][top[w]]
      carry  == CarryFrom(prev[w])
      image  == IF period.status = "OPEN"
                THEN [period EXCEPT !.carry = carry]
                ELSE Recomputed(period, top[w], carry)
  IN  /\ pc[w] = "apply"
      /\ \/ /\ image = period
            /\ Recalculate(w, listed[w], top[w])
         \/ /\ image # period
            /\ held' = [held EXCEPT ![w] = image]
            /\ Goto(w, "write")
            /\ UNCHANGED <<request, cursor, prev, tries>>
      /\ UNCHANGED <<db, started, excused>>

\* Fault: the update is conditional on the status only.
SameStatus(r, expected) ==
  /\ r # NoRow
  /\ r.status = expected.status

\* The WHERE clause of `recalculate': same revision, same status.
SameRevision(r, expected) ==
  /\ r # NoRow
  /\ r.revision = expected.revision
  /\ r.status = expected.status

\* repository.recalculate when the row is still the one that was listed
WritePeriod(w) ==
  /\ pc[w] = "write"
  /\ SameRevision(row[top[w]], listed[w][top[w]])
  /\ LET r == WithTotals(row[top[w]], held[w])
     IN  row' = [row EXCEPT ![top[w]] = [r EXCEPT !.carry = held[w].carry]]
  /\ Recalculate(w, listed[w], top[w])
  /\ UNCHANGED <<now, ops, fixed, lock, started, excused>>

\* ... otherwise start over from listFrom, or give up with CONCURRENT_UPDATE:
\* the operation stays written and the request answers with an error.
WriteConflict(w) ==
  /\ pc[w] = "write"
  /\ ~SameRevision(row[top[w]], listed[w][top[w]])
  /\ \/ /\ tries[w] < MaxAttempts
        /\ tries' = [tries EXCEPT ![w] = @ + 1]
        /\ Goto(w, "list")
        /\ held' = [held EXCEPT ![w] = NoRow]
        /\ prev' = [prev EXCEPT ![w] = NoRow]
        /\ UNCHANGED <<request, cursor, excused>>
     \/ /\ tries[w] = MaxAttempts
        /\ Done(w)
        /\ excused' = TRUE
  /\ UNCHANGED <<db, started>>

-----------------------------------------------------------------------------
(* BudgetPeriodEngine.summarize, resolve and previousClosed.  The mutual   *)
(* recursion walks down from `top' while rows are missing, then back up,   *)
(* opening and closing one month at a time.                                *)

\* summarize refuses a month that has not started (FUTURE_PERIOD).
Summarize(w) ==
  /\ Begin(w, "summarize")
  /\ \E m \in Months :
       /\ m <= now
       /\ top' = [top EXCEPT ![w] = m]
       /\ cursor' = [cursor EXCEPT ![w] = m]
  /\ today' = [today EXCEPT ![w] = now]
  /\ Goto(w, "find")
  /\ UNCHANGED <<db, op, touched, from, listed, prev, held, tries, excused>>

\* resolve: read the row; the current month's OPEN row is compared with the
\* live fixed base and refreshed.
FindPeriod(w) ==
  LET r == row[cursor[w]]
      stale == /\ r # NoRow
               /\ r.status = "OPEN"
               /\ cursor[w] = today[w]
               /\ r.base # fixed[cursor[w]]
  IN  /\ pc[w] = "find"
      /\ \/ /\ r = NoRow
            /\ Goto(w, "origin")
            /\ UNCHANGED <<request, cursor, prev, held, tries>>
         \/ /\ stale
            /\ held' = [held EXCEPT ![w] = [r EXCEPT !.base = fixed[cursor[w]]]]
            /\ Goto(w, "refresh")
            /\ UNCHANGED <<request, cursor, prev, tries>>
         \/ /\ r # NoRow
            /\ ~stale
            /\ Resolved(w, r)
      /\ UNCHANGED <<db, started, excused>>

\* Fault: the snapshot is refreshed whatever the status of the row.
RefreshAnyway(w) ==
  /\ pc[w] = "refresh"
  /\ LET r == [row[cursor[w]] EXCEPT
                 !.base = held[w].base,
                 !.revision = row[cursor[w]].revision + 1]
     IN  /\ row' = [row EXCEPT ![cursor[w]] = r]
         /\ Resolved(w, r)
  /\ UNCHANGED <<now, ops, fixed, lock, started, excused>>

\* updateOpenFixedSnapshot, guarded by the status; BUDGET_PERIOD_NOT_OPEN ends
\* the request when the row was closed meanwhile.
RefreshSnapshot(w) ==
  /\ pc[w] = "refresh"
  /\ \/ /\ row[cursor[w]].status = "OPEN"
        /\ LET r == [row[cursor[w]] EXCEPT
                        !.base = held[w].base,
                        !.revision = row[cursor[w]].revision + 1]
           IN  /\ row' = [row EXCEPT ![cursor[w]] = r]
               /\ Resolved(w, r)
        /\ UNCHANGED excused
     \/ /\ row[cursor[w]].status # "OPEN"
        /\ Fail(w)
        /\ UNCHANGED row
  /\ UNCHANGED <<now, ops, fixed, lock, started>>

\* previousClosed: the chain starts at the first month with an operation.
FirstActivity(w) ==
  /\ pc[w] = "origin"
  /\ \/ /\ NothingBefore(cursor[w])
        /\ prev' = [prev EXCEPT ![w] = NoRow]
        /\ Goto(w, IF kind[w] # "summarize" /\ cursor[w] = top[w]
                   THEN "apply" ELSE "open")
        /\ UNCHANGED <<request, cursor, held, tries>>
     \/ /\ ~NothingBefore(cursor[w])
        /\ cursor' = [cursor EXCEPT ![w] = @ - 1]
        /\ Goto(w, "find")
        /\ UNCHANGED <<request, prev, held, tries>>
  /\ UNCHANGED <<db, started, excused>>

\* A month that is over takes the fixed snapshot of the month before it.
OpeningBase(w) ==
  IF prev[w] # NoRow /\ cursor[w] < today[w] /\ cursor[w] \notin PlannedMonths
  THEN prev[w].base
  ELSE fixed[cursor[w]]

\* repository.open: an upsert, which MySQL runs as a select and an insert.  A
\* row somebody else inserted is kept, or the insert that lost the race fails on
\* the unique key.  An insert waits for the owner lock (foreign key), the carry
\* was read before.
OpenPeriod(w) ==
  /\ pc[w] = "open"
  /\ lock = Free
  /\ \/ /\ LET r == IF row[cursor[w]] = NoRow
                    THEN OpenRow(OpeningBase(w), CarryFrom(prev[w]))
                    ELSE row[cursor[w]]
           IN  /\ row' = [row EXCEPT ![cursor[w]] = r]
               /\ Resolved(w, r)
        /\ UNCHANGED excused
     \/ /\ row[cursor[w]] # NoRow
        /\ Fail(w)
        /\ UNCHANGED row
  /\ UNCHANGED <<now, ops, fixed, lock, started>>

\* What follows close, for summarize and for previousClosed.
Closed(w, r) ==
  IF kind[w] = "summarize" /\ cursor[w] = top[w]
  THEN Done(w)
  ELSE HavePrevious(w, cursor[w], r)

\* Fault: returning a row closed meanwhile leaves the transaction open.
CloseReadLeaks(w) ==
  LET m == cursor[w]
  IN  /\ pc[w] = "closeRead"
      /\ lock = Free
      /\ lock' = w
      /\ \/ /\ row[m].status = "CLOSED"
            /\ Closed(w, row[m])
         \/ /\ row[m].status = "OPEN"
            /\ held' = [held EXCEPT ![w] = Recomputed(row[m], m, row[m].carry)]
            /\ Goto(w, "closeWrite")
            /\ UNCHANGED <<request, cursor, prev, tries>>
      /\ UNCHANGED <<now, ops, fixed, row, started, excused>>

\* repository.close: take the owner lock, then read the row and the operations
\* in the transaction's snapshot.  A row closed meanwhile is returned as it is.
CloseRead(w) ==
  LET m == cursor[w]
  IN  /\ pc[w] = "closeRead"
      /\ lock = Free
      /\ \/ /\ row[m].status = "CLOSED"
            /\ Closed(w, row[m])
            /\ UNCHANGED lock
         \/ /\ row[m].status = "OPEN"
            /\ lock' = w
            /\ held' = [held EXCEPT ![w] = Recomputed(row[m], m, row[m].carry)]
            /\ Goto(w, "closeWrite")
            /\ UNCHANGED <<request, cursor, prev, tries>>
      /\ UNCHANGED <<now, ops, fixed, row, started, excused>>

\* ... and write status and totals by id, whatever the row has become; carry
\* and fixed snapshot are not written.
CloseWrite(w) ==
  /\ pc[w] = "closeWrite"
  /\ LET r == [WithTotals(row[cursor[w]], held[w]) EXCEPT !.status = "CLOSED"]
     IN  /\ row' = [row EXCEPT ![cursor[w]] = r]
         /\ Closed(w, r)
  /\ lock' = Free
  /\ UNCHANGED <<now, ops, fixed, started, excused>>

-----------------------------------------------------------------------------
(* The environment: time, fixed operations and the process itself.         *)

Rollover ==
  /\ "rollover" \in Requests
  /\ now < LastMonth
  /\ now' = now + 1
  /\ UNCHANGED <<ops, fixed, row, lock, pc, request, cursor, prev, held, tries,
                 started, excused>>

\* A version of a fixed operation applies from a month not yet over; creating,
\* deleting or editing an unversioned one changes every month.  No period is
\* written either way.
ChangeFixed ==
  /\ "fixed" \in Requests
  /\ started < MaxRequests
  /\ started' = started + 1
  /\ \E m \in {1} \cup now..LastMonth, v \in BaseValues :
       fixed' = [k \in Months |-> IF k >= m THEN v ELSE fixed[k]]
  /\ UNCHANGED <<now, ops, row, lock, pc, request, cursor, prev, held, tries,
                 excused>>

\* The process dies: an open transaction is rolled back, nothing resumes.
Crash(w) ==
  /\ Crashes
  /\ pc[w] # "idle"
  /\ lock' = IF lock = w THEN Free ELSE lock
  /\ Done(w)
  /\ excused' = TRUE
  /\ UNCHANGED <<now, ops, fixed, row, started>>

-----------------------------------------------------------------------------
(* Initial states: a new owner; an owner who recorded operations and never *)
(* read a summary; one whose chain is closed up to the current month, which *)
(* may or may not be open yet.                                             *)

\* Carry of month m when every month has base b, as a closed formula.
SeedCarry(m, b) ==
  b * Cardinality({k \in Months : k < m /\ ~NothingBefore(k + 1)})
  + Cardinality({o \in OpIds : \E k \in Months : k < m /\ o \in OpsIn(k, "ENTREE")})
  - Cardinality({o \in OpIds : \E k \in Months : k < m /\ o \in OpsIn(k, "DEPENSE")})

SeedRow(m, b) ==
  LET r == OpenRow(b, SeedCarry(m, b))
  IN  IF m < now
      THEN [Recomputed(r, m, r.carry) EXCEPT !.status = "CLOSED", !.revision = 2]
      ELSE r

Init ==
  /\ now = StartMonth
  /\ \/ /\ "empty" \in Seeds
        /\ ops = [o \in OpIds |-> NoOp]
     \/ /\ Seeds \cap {"recorded", "settled"} # {}
        /\ ops \in [OpIds -> Operation \cup {NoOp}]
  /\ \E b \in BaseValues :
       /\ fixed = [m \in Months |-> b]
       /\ \/ /\ Seeds \cap {"empty", "recorded"} # {}
             /\ row = [m \in Months |-> NoRow]
          \/ /\ "settled" \in Seeds
             /\ \E last \in {now - 1, now} :
                  row = [m \in Months |-> IF m <= last THEN SeedRow(m, b) ELSE NoRow]
  /\ lock = Free
  /\ pc = [w \in Workers |-> "idle"]
  /\ kind = [w \in Workers |-> "none"]
  /\ op = [w \in Workers |-> [id |-> NoOp, month |-> StartMonth]]
  /\ touched = [w \in Workers |-> {}]
  /\ today = [w \in Workers |-> StartMonth]
  /\ from = [w \in Workers |-> StartMonth]
  /\ listed = [w \in Workers |-> [m \in Months |-> NoRow]]
  /\ top = [w \in Workers |-> StartMonth]
  /\ cursor = [w \in Workers |-> StartMonth]
  /\ prev = [w \in Workers |-> NoRow]
  /\ held = [w \in Workers |-> NoRow]
  /\ tries = [w \in Workers |-> 0]
  /\ started = 0
  /\ excused = FALSE

Start(w) ==
  \/ Create(w)
  \/ ReadBefore(w)
  \/ CheckPeriodOpen(w)
  \/ Summarize(w)

Continue(w) ==
  \/ CommitUpdate(w)
  \/ CommitDelete(w)
  \/ CommitNotFound(w)
  \/ InsertRealized(w)
  \/ Correct(w)
  \/ ListFrom(w)
  \/ ComputePeriod(w)
  \/ WritePeriod(w)
  \/ WriteConflict(w)
  \/ FindPeriod(w)
  \/ RefreshSnapshot(w)
  \/ FirstActivity(w)
  \/ OpenPeriod(w)
  \/ CloseRead(w)
  \/ CloseWrite(w)

Next ==
  \/ \E w \in Workers : Start(w) \/ Continue(w) \/ Crash(w)
  \/ Rollover
  \/ ChangeFixed

Spec == Init /\ [][Next]_vars

\* The event loop and the database eventually serve every call a request has
\* made; nobody is forced to make a request, and the process need not crash.
FairSpec == Spec /\ \A w \in Workers : WF_vars(Continue(w))

-----------------------------------------------------------------------------
(* Properties                                                              *)

Calls == {"idle", "commit", "insert", "correct", "list", "apply", "write",
          "find", "refresh", "origin", "open", "closeRead", "closeWrite"}

\* Every variable has its type (fields of the requests included).
TypeOK ==
  /\ now \in Months
  /\ ops \in [OpIds -> Operation \cup {NoOp, Deleted}]
  /\ fixed \in [Months -> Int]
  /\ row \in [Months -> Row \cup {NoRow}]
  /\ lock \in Workers \cup {Free}
  /\ pc \in [Workers -> Calls]
  /\ kind \in [Workers -> RequestKinds \cup {"none"}]
  /\ op \in [Workers -> [id : OpIds \cup {NoOp}, month : Months]]
  /\ touched \in [Workers -> SUBSET Months]
  /\ today \in [Workers -> Months]
  /\ from \in [Workers -> Months]
  /\ listed \in [Workers -> [Months -> Row \cup {NoRow}]]
  /\ top \in [Workers -> Months]
  /\ cursor \in [Workers -> Months]
  /\ prev \in [Workers -> Row \cup {NoRow}]
  /\ held \in [Workers -> Row \cup {NoRow}]
  /\ tries \in [Workers -> Nat]
  /\ started \in Nat
  /\ excused \in BOOLEAN

\* The call of a walk that resolves the month under the cursor.
Resolving == {"find", "refresh", "open", "closeRead", "closeWrite"}
Walking == Resolving \cup {"origin", "apply", "write"}

\* A period exists only for a month that has started and is closed only once
\* its month is over.
PeriodsInTime ==
  \A m \in Months :
    row[m] # NoRow =>
      /\ m <= now
      /\ row[m].status = "CLOSED" => m < now
      /\ row[m].revision > 0

\* The owner lock is held exactly while a period is being closed, and the
\* period under it is still the open one that was read.
ClosingIsExclusive ==
  \A w \in Workers :
    /\ pc[w] = "closeWrite" <=> lock = w
    /\ pc[w] = "closeWrite" =>
         row[cursor[w]] # NoRow /\ row[cursor[w]].status = "OPEN"

\* What a request knows stays within the months that have started: its civil
\* month, the periods it listed, the months it walks through.
RequestInTime(w) ==
  /\ today[w] <= now
  /\ \A m \in Months : listed[w][m] # NoRow => m <= now
  /\ pc[w] \in Walking => cursor[w] <= top[w] /\ top[w] <= now
  /\ pc[w] \in {"closeRead", "closeWrite"} => cursor[w] < now

\* Where a request stands in its walk, and what it holds there.
RequestOnPath(w) ==
  /\ pc[w] \in {"commit", "correct", "list", "apply", "write"} =>
       kind[w] # "summarize"
  /\ pc[w] \in Walking /\ kind[w] = "summarize" => top[w] <= today[w]
  /\ pc[w] \in Walking /\ kind[w] # "summarize" =>
       /\ listed[w][top[w]] # NoRow
       /\ pc[w] \in Resolving => cursor[w] < top[w]
  /\ pc[w] \in {"refresh", "closeRead", "closeWrite"} => row[cursor[w]] # NoRow
  /\ pc[w] \in {"refresh", "write", "closeWrite"} => held[w] # NoRow

\* The inductive invariant: no request closes, opens or refreshes a period it
\* should not, because of what it knows at each call.
IInv ==
  /\ TypeOK
  /\ StartMonth <= now
  /\ PeriodsInTime
  /\ ClosingIsExclusive
  /\ \A w \in Workers : RequestInTime(w) /\ RequestOnPath(w)

\* A stored row agrees with the facts and with the row before it: its carry is
\* the closed balance of the previous month (zero at or before the first month
\* with an operation), and the totals of a closed row are those of its
\* operations.
AgreesWithFacts(m) ==
  LET r == row[m]
  IN  r # NoRow =>
        /\ IF NothingBefore(m)
           THEN r.carry = 0
           ELSE /\ row[m - 1] # NoRow
                /\ row[m - 1].status = "CLOSED"
                /\ r.carry = row[m - 1].remaining
        /\ r.status = "CLOSED" => r = Recomputed(r, m, r.carry)

\* Whenever no request is in flight and none died or gave up, the whole chain
\* agrees with the facts: every correction has been propagated to every later
\* month (docs/daily-budget-domain.md, "Corrections d'un mois clôturé").
SettledChain ==
  (\A w \in Workers : pc[w] = "idle") /\ ~excused =>
     \A m \in Months : AgreesWithFacts(m)

\* A closed row is arithmetically sound at every moment: remaining = fixed
\* base + income - expense + carry, as its readers recompute it.
ClosedRowAdds ==
  \A m \in Months :
    row[m] # NoRow /\ row[m].status = "CLOSED" =>
      row[m].remaining =
        row[m].base + row[m].income - row[m].expense + row[m].carry

\* When a month ends, its open period carries the fixed operations of the
\* moment: being over, it takes no later refresh and closes with what it has.
MonthEndsUpToDate ==
  [][now' = now + 1 /\ row[now] # NoRow => row[now].base = fixed[now]]_vars

\* A correction that runs to its end repairs every row from its month on, also
\* what an earlier correction that died had left behind.
CorrectionRepaired(w) ==
  (ListFrom(w) \/ ComputePeriod(w) \/ WritePeriod(w)) /\ pc'[w] = "idle" =>
     \A m \in Months : m >= from[w] => AgreesWithFacts(m)'

CorrectionRepairs == [][\A w \in Workers : CorrectionRepaired(w)]_vars

\* The period table keeps its promises whatever requests run at once: a period
\* opens in a month that has started, closes once, after its month, under the
\* owner lock, never reopens, and its fixed snapshot is frozen when it closes.
Lifecycle ==
  INSTANCE PeriodLifecycle WITH
    phase <- [m \in Months |-> IF row[m] = NoRow THEN "NONE" ELSE row[m].status],
    base <- [m \in Months |-> IF row[m] = NoRow THEN 0 ELSE row[m].base],
    revision <- [m \in Months |-> IF row[m] = NoRow THEN 0 ELSE row[m].revision]
LifecycleSpec == Lifecycle!Spec

\* Every request is answered: neither the walk down the months, nor the
\* retries, nor the owner lock keeps one going forever.
EveryRequestAnswered ==
  \A w \in Workers : pc[w] # "idle" ~> pc[w] = "idle"
=============================================================================
