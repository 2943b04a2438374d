------------------------ MODULE BudgetPeriodsProofs ------------------------
(***************************************************************************)
(* Proofs about BudgetPeriods, for every number of requests, operations,   *)
(* months and attempts: its variables are typed, the table of periods      *)
(* keeps its promises (PeriodLifecycle), and what that rests on.           *)
(***************************************************************************)
EXTENDS BudgetPeriods, FiniteSetTheorems, TLAPS

(* ---------------------------------------------------------------------- *)
(* Sums and rows.                                                          *)

\* Totals of a month are natural numbers.
LEMMA TotalsType ==
  ASSUME NEW m \in Months
  PROVE  Income(m) \in Nat /\ Expense(m) \in Nat
<1>1. \A k : OpsIn(m, k) \subseteq OpIds
  BY DEF OpsIn
<1>2. \A k : IsFiniteSet(OpsIn(m, k))
  BY <1>1, OpsAssumption, FS_Subset
<1> QED BY <1>2, FS_CardinalityType DEF Income, Expense

\* Recomputing a row gives a row with the same status, base and revision.
LEMMA RecomputedType ==
  ASSUME NEW m \in Months, NEW r \in Row, NEW c \in Int
  PROVE  /\ Recomputed(r, m, c) \in Row
         /\ Recomputed(r, m, c).status = r.status
         /\ Recomputed(r, m, c).base = r.base
         /\ Recomputed(r, m, c).revision = r.revision
<1>1. Income(m) \in Nat /\ Expense(m) \in Nat
  BY TotalsType
<1>2. r.base + Income(m) - Expense(m) + c \in Int
  BY <1>1 DEF Row
<1> QED BY <1>1, <1>2 DEF Recomputed, Row

\* Taking totals keeps status, base and carry and advances the revision.
LEMMA WithTotalsType ==
  ASSUME NEW r \in Row, NEW image \in Row
  PROVE  /\ WithTotals(r, image) \in Row
         /\ WithTotals(r, image).status = r.status
         /\ WithTotals(r, image).base = r.base
         /\ WithTotals(r, image).revision = r.revision + 1
<1>1. /\ image.income \in Nat /\ image.expense \in Nat
      /\ image.remaining \in Int /\ r.revision + 1 \in Nat
  BY DEF Row
<1> QED BY <1>1 DEF WithTotals, Row

\* A newly opened period is an open row at revision 1.
LEMMA OpenRowType ==
  ASSUME NEW b \in Int, NEW c \in Int
  PROVE  /\ OpenRow(b, c) \in Row
         /\ OpenRow(b, c).status = "OPEN"
         /\ OpenRow(b, c).base = b
         /\ OpenRow(b, c).revision = 1
BY DEF OpenRow, Row

\* The seeded rows of the initial states are rows of the table.
LEMMA SeedRowType ==
  ASSUME NEW m \in Months, NEW b \in Int, now \in Months
  PROVE  /\ SeedRow(m, b) \in Row
         /\ SeedRow(m, b).status = IF m < now THEN "CLOSED" ELSE "OPEN"
         /\ SeedRow(m, b).base = b
         /\ SeedRow(m, b).revision > 0
<1>1. SeedCarry(m, b) \in Int
  <2> DEFINE before == {k \in Months : k < m /\ ~NothingBefore(k + 1)}
             summed(t) == {o \in OpIds : \E k \in Months : k < m /\ o \in OpsIn(k, t)}
  <2>1. IsFiniteSet(Months)
    BY MonthsAssumption, FS_Interval DEF Months
  <2>2. before \subseteq Months /\ \A t : summed(t) \subseteq OpIds
    OBVIOUS
  <2>3. Cardinality(before) \in Nat
    BY <2>1, <2>2, FS_Subset, FS_CardinalityType
  <2>4. \A t : Cardinality(summed(t)) \in Nat
    BY <2>2, OpsAssumption, FS_Subset, FS_CardinalityType
  <2>5. SeedCarry(m, b) = b * Cardinality(before) + Cardinality(summed("ENTREE"))
                            - Cardinality(summed("DEPENSE"))
    BY DEF SeedCarry
  <2> HIDE DEF before, summed
  <2> QED BY <2>3, <2>4, <2>5
<1> DEFINE r == OpenRow(b, SeedCarry(m, b))
           c == Recomputed(r, m, r.carry)
<1>2. r \in Row /\ r.status = "OPEN" /\ r.base = b /\ r.revision = 1
  BY <1>1, OpenRowType
<1>3. r.carry \in Int
  BY <1>2 DEF Row
<1>4. c \in Row /\ c.base = b
  BY <1>2, <1>3, RecomputedType
<1> DEFINE closed == [c EXCEPT !.status = "CLOSED"]
<1>5. SeedRow(m, b) = IF m < now THEN [closed EXCEPT !.revision = 2] ELSE r
  BY DEF SeedRow
<1> HIDE DEF c
<1>6. closed \in Row /\ closed.status = "CLOSED" /\ closed.base = b
  BY <1>4 DEF Row
<1> HIDE DEF closed, r
<1>7. CASE m < now
  <2> DEFINE seeded == [closed EXCEPT !.revision = 2]
  <2>1. seeded \in Row /\ seeded.status = "CLOSED" /\ seeded.base = b
        /\ seeded.revision > 0
    BY <1>6 DEF Row
  <2>2. SeedRow(m, b) = seeded
    BY <1>5, <1>7
  <2> QED BY <1>7, <2>1, <2>2
<1>8. CASE ~(m < now)
  BY <1>2, <1>5, <1>8
<1> QED BY <1>7, <1>8

(* ---------------------------------------------------------------------- *)
(* The inductive invariant holds initially.                                *)

LEMMA InitInv == Init => IInv
<1> SUFFICES ASSUME Init PROVE IInv
  OBVIOUS
<1> USE MonthsAssumption DEF Months
<1>1. now \in Months /\ now = StartMonth
  BY DEF Init
<1>2. PICK b \in BaseValues :
        /\ fixed = [m \in Months |-> b]
        /\ \/ row = [m \in Months |-> NoRow]
           \/ \E last \in {now - 1, now} :
                row = [m \in Months |-> IF m <= last THEN SeedRow(m, b) ELSE NoRow]
  BY DEF Init
<1>3. b \in Int
  BY BaseAssumption
<1>4. \A m \in Months :
        /\ SeedRow(m, b) \in Row
        /\ SeedRow(m, b).status = IF m < now THEN "CLOSED" ELSE "OPEN"
        /\ SeedRow(m, b).revision > 0
  BY <1>1, <1>3, SeedRowType
<1>5. row \in [Months -> Row \cup {NoRow}] /\ PeriodsInTime
  <2>1. CASE row = [m \in Months |-> NoRow]
    BY <2>1 DEF PeriodsInTime
  <2>2. ASSUME NEW last \in {now - 1, now},
               row = [m \in Months |-> IF m <= last THEN SeedRow(m, b) ELSE NoRow]
        PROVE  row \in [Months -> Row \cup {NoRow}] /\ PeriodsInTime
    <3>1. \A m \in Months : row[m] = IF m <= last THEN SeedRow(m, b) ELSE NoRow
      BY <2>2
    <3>2. row \in [Months -> Row \cup {NoRow}]
      BY <1>4, <2>2
    <3>3. ASSUME NEW m \in Months, row[m] # NoRow
          PROVE  m <= now /\ (row[m].status = "CLOSED" => m < now) /\ row[m].revision > 0
      <4>1. m <= last /\ row[m] = SeedRow(m, b)
        BY <3>1, <3>3
      <4> QED BY <1>1, <1>4, <4>1
    <3> QED BY <3>2, <3>3 DEF PeriodsInTime
  <2> QED BY <1>2, <2>1, <2>2
<1>6. ops \in [OpIds -> Operation \cup {NoOp, Deleted}]
  BY DEF Init
<1>7. fixed \in [Months -> Int]
  BY <1>2, <1>3
<1>8. TypeOK
  BY <1>1, <1>5, <1>6, <1>7 DEF Init, TypeOK, Calls
<1>9. ClosingIsExclusive
  BY SentinelAssumption DEF Init, ClosingIsExclusive
<1>10. \A w \in Workers : RequestInTime(w) /\ RequestOnPath(w)
  BY DEF Init, RequestInTime, RequestOnPath, Walking, Resolving
<1> QED BY <1>1, <1>5, <1>8, <1>9, <1>10 DEF IInv

(* ---------------------------------------------------------------------- *)
(* What one request's step leaves alone.                                   *)

\* The requests are typed.
RequestsTyped ==
  /\ pc \in [Workers -> Calls]
  /\ kind \in [Workers -> RequestKinds \cup {"none"}]
  /\ op \in [Workers -> [id : OpIds \cup {NoOp}, month : Months]]
  /\ touched \in [Workers -> SUBSET Months]
  /\ today \in [Workers -> Months]
  /\ from \in [Workers -> Months]
  /\ listed \in [Workers -> [Months -> Row \cup {NoRow}]]
  /\ top \in [Workers -> Months]
  /\ cursor \in [Workers -> Months]
  /\ prev \in [Workers -> Row \cup {NoRow}]
  /\ held \in [Workers -> Row \cup {NoRow}]
  /\ tries \in [Workers -> Nat]

\* The rest of the type invariant.
TablesTyped ==
  /\ ops \in [OpIds -> Operation \cup {NoOp, Deleted}]
  /\ fixed \in [Months -> Int]
  /\ started \in Nat
  /\ excused \in BOOLEAN

\* No period disappears, reopens or closes.
StatusesStay ==
  \A m \in Months :
    row[m] # NoRow => row'[m] # NoRow /\ row'[m].status = row[m].status

\* Request `v' is where it was.
SameRequest(v) ==
  /\ pc'[v] = pc[v] /\ kind'[v] = kind[v] /\ today'[v] = today[v]
  /\ listed'[v] = listed[v] /\ top'[v] = top[v] /\ cursor'[v] = cursor[v]
  /\ held'[v] = held[v]

\* Request `w' made a call other than locking a period to close it; what it
\* knows is in order, and the other requests are where they were.
OrdinaryCall(w) ==
  /\ RequestsTyped'
  /\ RequestInTime(w)' /\ RequestOnPath(w)'
  /\ pc'[w] # "closeWrite"
  /\ \A v \in Workers \ {w} : SameRequest(v)

\* A request that is where it was stays in order while time passes and
\* periods are added.
LEMMA OthersStay ==
  ASSUME IInv, NEW v \in Workers, SameRequest(v), now' \in Months, now' >= now,
         \A m \in Months : row[m] # NoRow => row'[m] # NoRow
  PROVE  RequestInTime(v)' /\ RequestOnPath(v)'
<1> USE DEF SameRequest
<1>1. RequestInTime(v) /\ RequestOnPath(v) /\ cursor[v] \in Months
      /\ today[v] \in Months /\ top[v] \in Months /\ now \in Months
  BY DEF IInv, TypeOK
<1>2. RequestInTime(v)'
  BY <1>1 DEF RequestInTime, Months
<1>3. RequestOnPath(v)'
  BY <1>1 DEF RequestOnPath
<1> QED BY <1>2, <1>3

\* An ordinary call that leaves clock, periods and lock alone keeps IInv.
LEMMA QuietStep ==
  ASSUME IInv, NEW w \in Workers, pc[w] # "closeWrite", OrdinaryCall(w),
         UNCHANGED <<now, row, lock>>, TablesTyped'
  PROVE  IInv'
<1>1. TypeOK'
  BY DEF IInv, TypeOK, OrdinaryCall, RequestsTyped, TablesTyped
<1>2. PeriodsInTime'
  BY DEF IInv, PeriodsInTime
<1>3. ClosingIsExclusive'
  <2> SUFFICES ASSUME NEW v \in Workers
               PROVE  /\ pc'[v] = "closeWrite" <=> lock = v
                      /\ pc'[v] = "closeWrite" =>
                           row[cursor'[v]] # NoRow /\ row[cursor'[v]].status = "OPEN"
    BY DEF ClosingIsExclusive
  <2>1. pc[v] = "closeWrite" <=> lock = v
    BY DEF IInv, ClosingIsExclusive
  <2>2. CASE v = w
    BY <2>1, <2>2 DEF OrdinaryCall
  <2>3. CASE v # w
    BY <2>3 DEF OrdinaryCall, SameRequest, IInv, ClosingIsExclusive
  <2> QED BY <2>2, <2>3
<1>4. \A v \in Workers : RequestInTime(v)' /\ RequestOnPath(v)'
  <2> SUFFICES ASSUME NEW v \in Workers
               PROVE  RequestInTime(v)' /\ RequestOnPath(v)'
    OBVIOUS
  <2>1. CASE v = w
    BY <2>1 DEF OrdinaryCall
  <2>2. CASE v # w
    <3>1. SameRequest(v)
      BY <2>2 DEF OrdinaryCall
    <3>2. now' \in Months /\ now' >= now
      BY DEF IInv, TypeOK, Months
    <3> QED BY <3>1, <3>2, OthersStay
  <2> QED BY <2>1, <2>2
<1>5. StartMonth <= now'
  BY DEF IInv
<1> QED BY <1>1, <1>2, <1>3, <1>4, <1>5 DEF IInv

\* An ordinary call that writes one period, without closing it, keeps IInv.
LEMMA RowStep ==
  ASSUME IInv, NEW w \in Workers, pc[w] # "closeWrite", OrdinaryCall(w),
         UNCHANGED <<now, lock>>, TablesTyped',
         NEW m \in Months, NEW r \in Row, row' = [row EXCEPT ![m] = r],
         m <= now, r.revision > 0,
         row[m] = NoRow => r.status = "OPEN",
         row[m] # NoRow => r.status = row[m].status
  PROVE  IInv'
<1>0. row \in [Months -> Row \cup {NoRow}] /\ NoRow \notin Row
  BY SentinelAssumption DEF IInv, TypeOK
<1>1. /\ row' \in [Months -> Row \cup {NoRow}]
      /\ row'[m] = r /\ r # NoRow
      /\ \A k \in Months \ {m} : row'[k] = row[k]
  BY <1>0
<1>2. TypeOK'
  BY <1>1 DEF IInv, TypeOK, OrdinaryCall, RequestsTyped, TablesTyped
<1>3. PeriodsInTime'
  <2> SUFFICES ASSUME NEW k \in Months, row'[k] # NoRow
               PROVE  /\ k <= now
                      /\ row'[k].status = "CLOSED" => k < now
                      /\ row'[k].revision > 0
    BY DEF PeriodsInTime
  <2>1. CASE k = m
    BY <1>1, <2>1 DEF IInv, PeriodsInTime
  <2>2. CASE k # m
    BY <1>1, <2>2 DEF IInv, PeriodsInTime
  <2> QED BY <2>1, <2>2
<1>4. StatusesStay
  BY <1>0, <1>1 DEF StatusesStay
<1>5. ClosingIsExclusive'
  <2> SUFFICES ASSUME NEW v \in Workers
               PROVE  /\ pc'[v] = "closeWrite" <=> lock = v
                      /\ pc'[v] = "closeWrite" =>
                           row'[cursor'[v]] # NoRow /\ row'[cursor'[v]].status = "OPEN"
    BY DEF ClosingIsExclusive
  <2>1. /\ pc[v] = "closeWrite" <=> lock = v
        /\ pc[v] = "closeWrite" =>
             row[cursor[v]] # NoRow /\ row[cursor[v]].status = "OPEN"
        /\ cursor[v] \in Months
    BY DEF IInv, TypeOK, ClosingIsExclusive
  <2>2. CASE v = w
    BY <2>1, <2>2 DEF OrdinaryCall
  <2>3. CASE v # w
    BY <1>4, <2>1, <2>3 DEF OrdinaryCall, SameRequest, StatusesStay
  <2> QED BY <2>2, <2>3
<1>6. \A v \in Workers : RequestInTime(v)' /\ RequestOnPath(v)'
  <2> SUFFICES ASSUME NEW v \in Workers
               PROVE  RequestInTime(v)' /\ RequestOnPath(v)'
    OBVIOUS
  <2>1. CASE v = w
    BY <2>1 DEF OrdinaryCall
  <2>2. CASE v # w
    <3>1. SameRequest(v)
      BY <2>2 DEF OrdinaryCall
    <3>2. now' \in Months /\ now' >= now
      BY DEF IInv, TypeOK, Months
    <3> QED BY <1>4, <3>1, <3>2, OthersStay DEF StatusesStay
  <2> QED BY <2>1, <2>2
<1>7. StartMonth <= now'
  BY DEF IInv
<1> QED BY <1>2, <1>3, <1>5, <1>6, <1>7 DEF IInv

(* ---------------------------------------------------------------------- *)
(* How a call ends: answered, previous month known, month resolved, next   *)
(* period to recalculate.                                                  *)

LEMMA DoneOrdinary ==
  ASSUME IInv, NEW w \in Workers, Done(w), UNCHANGED now
  PROVE  OrdinaryCall(w) /\ pc'[w] = "idle"
<1> USE MonthsAssumption, SentinelAssumption DEF Months
<1>1. RequestsTyped
  BY DEF IInv, TypeOK, RequestsTyped
<1>2. RequestsTyped'
  BY <1>1 DEF Done, Goto, RequestsTyped, Calls
<1>3. /\ pc'[w] = "idle" /\ today'[w] = StartMonth
      /\ \A m \in Months : listed'[w][m] = NoRow
  BY <1>1 DEF Done, Goto, RequestsTyped
<1>4. RequestInTime(w)' /\ RequestOnPath(w)'
  BY <1>3 DEF RequestInTime, RequestOnPath, Walking, Resolving, IInv
<1>5. \A v \in Workers \ {w} : SameRequest(v)
  BY <1>1 DEF Done, Goto, RequestsTyped, SameRequest
<1> QED BY <1>2, <1>3, <1>4, <1>5 DEF OrdinaryCall

\* The month below is known: the walk steps up, at most to its top.
LEMMA HavePreviousOrdinary ==
  ASSUME IInv, NEW w \in Workers, pc[w] \in Resolving, NEW r \in Row,
         kind[w] = "summarize" => cursor[w] # top[w],
         HavePrevious(w, cursor[w], r), UNCHANGED now
  PROVE  OrdinaryCall(w)
<1> USE MonthsAssumption DEF Months
<1>1. RequestsTyped /\ RequestInTime(w) /\ RequestOnPath(w) /\ now \in Months
  BY DEF IInv, TypeOK, RequestsTyped
<1>2. cursor[w] < top[w] /\ cursor[w] + 1 \in Months
  BY <1>1 DEF RequestInTime, RequestOnPath, Walking, RequestsTyped
<1>3. /\ pc'[w] = IF kind[w] # "summarize" /\ cursor[w] + 1 = top[w]
                   THEN "apply" ELSE "open"
      /\ cursor'[w] = cursor[w] + 1
      /\ top' = top /\ kind' = kind /\ today' = today /\ listed' = listed
  BY <1>1 DEF HavePrevious, Goto, RequestsTyped, request
<1>4. RequestsTyped'
  BY <1>1, <1>2 DEF HavePrevious, Goto, RequestsTyped, request, Calls
<1>5. RequestInTime(w)'
  BY <1>1, <1>2, <1>3 DEF RequestInTime, RequestsTyped, Walking, Resolving
<1>6. RequestOnPath(w)'
  <2>1. CASE kind[w] = "summarize"
    BY <1>1, <1>3, <2>1 DEF RequestOnPath, Walking, Resolving
  <2>2. CASE kind[w] # "summarize"
    <3>1. listed[w][top[w]] # NoRow
      BY <1>1, <2>2 DEF RequestOnPath, Walking
    <3>2. pc'[w] = "open" => cursor'[w] < top'[w]
      BY <1>1, <1>2, <1>3, <2>2 DEF RequestsTyped
    <3> QED BY <1>3, <2>2, <3>1, <3>2 DEF RequestOnPath, Walking, Resolving
  <2> QED BY <2>1, <2>2
<1>7. \A v \in Workers \ {w} : SameRequest(v)
  BY <1>1 DEF HavePrevious, Goto, RequestsTyped, SameRequest, request
<1>8. pc'[w] # "closeWrite"
  BY <1>3
<1> QED BY <1>4, <1>5, <1>6, <1>7, <1>8 DEF OrdinaryCall

\* The month under the cursor is resolved: it is closed only if it is over.
LEMMA ResolvedOrdinary ==
  ASSUME IInv, NEW w \in Workers, pc[w] \in Resolving, NEW r \in Row,
         row'[cursor[w]] # NoRow, Resolved(w, r), UNCHANGED now
  PROVE  OrdinaryCall(w)
<1> USE MonthsAssumption DEF Months
<1>1. RequestsTyped /\ RequestInTime(w) /\ RequestOnPath(w) /\ now \in Months
  BY DEF IInv, TypeOK, RequestsTyped
<1>2. ASSUME kind[w] = "summarize" /\ cursor[w] = top[w] => top[w] < today[w],
             Goto(w, "closeRead"), UNCHANGED <<request, cursor, prev, held, tries>>
      PROVE  OrdinaryCall(w)
  <2>1. /\ pc'[w] = "closeRead" /\ cursor' = cursor /\ top' = top
        /\ kind' = kind /\ today' = today /\ listed' = listed
    BY <1>1, <1>2 DEF Goto, RequestsTyped, request
  <2>2. RequestsTyped'
    BY <1>1, <1>2 DEF Goto, RequestsTyped, request, Calls
  <2>3. cursor[w] < now
    BY <1>1, <1>2 DEF RequestInTime, RequestOnPath, Walking, RequestsTyped
  <2>4. RequestInTime(w)'
    BY <1>1, <2>1, <2>3 DEF RequestInTime, Walking
  <2>5. RequestOnPath(w)'
    BY <1>1, <2>1 DEF RequestOnPath, Walking, Resolving
  <2>6. \A v \in Workers \ {w} : SameRequest(v)
    BY <1>1, <1>2 DEF Goto, RequestsTyped, SameRequest, request
  <2> QED BY <2>1, <2>2, <2>4, <2>5, <2>6 DEF OrdinaryCall
<1>3. ASSUME Done(w) PROVE OrdinaryCall(w)
  BY <1>3, DoneOrdinary
<1>4. ASSUME ~(kind[w] = "summarize" /\ cursor[w] = top[w]),
             HavePrevious(w, cursor[w], r)
      PROVE  OrdinaryCall(w)
  BY <1>4, HavePreviousOrdinary
<1> QED BY <1>2, <1>3, <1>4 DEF Resolved

\* The next period to recalculate is one of those listed.
LEMMA RecalculateOrdinary ==
  ASSUME IInv, NEW w \in Workers, kind[w] # "summarize",
         NEW periods \in [Months -> Row \cup {NoRow}],
         \A k \in Months : periods[k] # NoRow => k <= now,
         NEW m, Recalculate(w, periods, m), UNCHANGED now
  PROVE  OrdinaryCall(w)
<1> USE MonthsAssumption DEF Months
<1>1. RequestsTyped /\ RequestInTime(w) /\ RequestOnPath(w) /\ now \in Months
  BY DEF IInv, TypeOK, RequestsTyped
<1>2. ASSUME Done(w) PROVE OrdinaryCall(w)
  BY <1>2, DoneOrdinary
<1>3. ASSUME NEW k \in Months, periods[k] # NoRow,
             listed' = [listed EXCEPT ![w] = periods],
             top' = [top EXCEPT ![w] = k],
             cursor' = [cursor EXCEPT ![w] = k],
             prev' = [prev EXCEPT ![w] = NoRow],
             held' = [held EXCEPT ![w] = NoRow],
             Goto(w, "origin"),
             UNCHANGED <<kind, op, touched, today, from, tries>>
      PROVE  OrdinaryCall(w)
  <2>1. /\ pc'[w] = "origin" /\ cursor'[w] = k /\ top'[w] = k
        /\ listed'[w] = periods /\ kind' = kind /\ today' = today
    BY <1>1, <1>3 DEF Goto, RequestsTyped
  <2>2. RequestsTyped'
    BY <1>1, <1>3 DEF Goto, RequestsTyped, Calls
  <2>3. RequestInTime(w)'
    BY <1>1, <1>3, <2>1 DEF RequestInTime, Walking
  <2>4. RequestOnPath(w)'
    BY <1>3, <2>1 DEF RequestOnPath, Walking, Resolving
  <2>5. \A v \in Workers \ {w} : SameRequest(v)
    BY <1>1, <1>3 DEF Goto, RequestsTyped, SameRequest
  <2> QED BY <2>1, <2>2, <2>3, <2>4, <2>5 DEF OrdinaryCall
<1> QED BY <1>2, <1>3 DEF Recalculate

(* ---------------------------------------------------------------------- *)
(* Every call keeps the inductive invariant.                               *)

\* A request that only starts or moves to a call outside the walk.
LEMMA StartInv ==
  ASSUME IInv, NEW w \in Workers, Start(w)
  PROVE  IInv'
<1> USE MonthsAssumption DEF Months
<1>1. RequestsTyped /\ RequestInTime(w) /\ RequestOnPath(w) /\ TablesTyped
      /\ now \in Months
  BY DEF IInv, TypeOK, RequestsTyped, TablesTyped
<1>2. pc[w] = "idle"
  BY DEF Start, Create, ReadBefore, CheckPeriodOpen, Summarize, Begin
<1>3. CASE Create(w)
  <2>1. PICK o \in OpIds, x \in Operation :
          /\ ops' = [ops EXCEPT ![o] = x]
          /\ touched' = [touched EXCEPT ![w] = {x.month}]
    BY <1>3 DEF Create, Unused
  <2>2. x.month \in Months
    BY DEF Operation
  <2>3. kind' = [kind EXCEPT ![w] = "create"] /\ pc' = [pc EXCEPT ![w] = "correct"]
    BY <1>3 DEF Create, Begin, Goto
  <2>4. TablesTyped'
    <3>1. started' = started + 1 /\ UNCHANGED <<fixed, excused>>
      BY <1>3 DEF Create, Begin
    <3>2. ops' \in [OpIds -> Operation \cup {NoOp, Deleted}]
      BY <1>1, <2>1 DEF TablesTyped
    <3> QED BY <1>1, <3>1, <3>2 DEF TablesTyped
  <2>5. RequestsTyped'
    BY <1>1, <1>3, <2>1, <2>2, <2>3 DEF RequestsTyped, Create, Calls, RequestKinds
  <2>6. OrdinaryCall(w)
    BY <1>1, <1>3, <2>3, <2>5
    DEF OrdinaryCall, RequestsTyped, RequestInTime, RequestOnPath, SameRequest,
        Walking, Resolving, Create
  <2> QED BY <1>2, <1>3, <2>4, <2>6, QuietStep DEF Create
<1>4. CASE ReadBefore(w)
  <2>1. PICK k \in {"update", "delete"} : Begin(w, k)
    BY <1>4 DEF ReadBefore
  <2>2. PICK o \in OpIds :
          /\ ops[o] \in Operation
          /\ op' = [op EXCEPT ![w] = [id |-> o, month |-> ops[o].month]]
    BY <1>4 DEF ReadBefore
  <2>3. ops[o].month \in Months
    BY <2>2 DEF Operation
  <2>4. kind' = [kind EXCEPT ![w] = k] /\ pc' = [pc EXCEPT ![w] = "commit"]
    BY <1>4, <2>1 DEF ReadBefore, Begin, Goto
  <2>5. TablesTyped'
    BY <1>1, <1>4, <2>1 DEF TablesTyped, ReadBefore, Begin, db
  <2>6. RequestsTyped'
    BY <1>1, <1>4, <2>2, <2>3, <2>4 DEF RequestsTyped, ReadBefore, Calls, RequestKinds, db
  <2>7. OrdinaryCall(w)
    BY <1>1, <1>4, <2>4, <2>6
    DEF OrdinaryCall, RequestsTyped, RequestInTime, RequestOnPath, SameRequest,
        Walking, Resolving, ReadBefore, db
  <2> QED BY <1>2, <1>4, <2>5, <2>7, QuietStep DEF ReadBefore, db
<1>5. CASE CheckPeriodOpen(w)
  <2>1. PICK o \in OpIds, m \in Months :
          op' = [op EXCEPT ![w] = [id |-> o, month |-> m]]
    BY <1>5 DEF CheckPeriodOpen, Unused
  <2>2. kind' = [kind EXCEPT ![w] = "realize"] /\ pc' = [pc EXCEPT ![w] = "insert"]
    BY <1>5 DEF CheckPeriodOpen, Begin, Goto
  <2>3. TablesTyped'
    BY <1>1, <1>5 DEF TablesTyped, CheckPeriodOpen, Begin, db
  <2>4. RequestsTyped'
    BY <1>1, <1>5, <2>1, <2>2 DEF RequestsTyped, CheckPeriodOpen, Calls, RequestKinds, db
  <2>5. OrdinaryCall(w)
    BY <1>1, <1>5, <2>2, <2>4
    DEF OrdinaryCall, RequestsTyped, RequestInTime, RequestOnPath, SameRequest,
        Walking, Resolving, CheckPeriodOpen, db
  <2> QED BY <1>2, <1>5, <2>3, <2>5, QuietStep DEF CheckPeriodOpen, db
<1>6. CASE Summarize(w)
  <2>1. PICK m \in Months :
          /\ m <= now
          /\ top' = [top EXCEPT ![w] = m]
          /\ cursor' = [cursor EXCEPT ![w] = m]
    BY <1>6 DEF Summarize
  <2>2. /\ kind' = [kind EXCEPT ![w] = "summarize"]
        /\ pc' = [pc EXCEPT ![w] = "find"]
        /\ today' = [today EXCEPT ![w] = now]
    BY <1>6 DEF Summarize, Begin, Goto
  <2>3. TablesTyped'
    BY <1>1, <1>6 DEF TablesTyped, Summarize, Begin, db
  <2>4. RequestsTyped'
    BY <1>1, <1>6, <2>1, <2>2 DEF RequestsTyped, Summarize, Calls, RequestKinds, db
  <2>5. OrdinaryCall(w)
    BY <1>1, <1>6, <2>1, <2>2, <2>4
    DEF OrdinaryCall, RequestsTyped, RequestInTime, RequestOnPath, SameRequest,
        Walking, Resolving, Summarize, db
  <2> QED BY <1>2, <1>6, <2>3, <2>5, QuietStep DEF Summarize, db
<1> QED BY <1>3, <1>4, <1>5, <1>6 DEF Start

\* Writes of operations.
LEMMA WriteInv ==
  ASSUME IInv, NEW w \in Workers,
         \/ CommitUpdate(w) \/ CommitDelete(w) \/ CommitNotFound(w)
         \/ InsertRealized(w) \/ Correct(w)
  PROVE  IInv'
<1> USE MonthsAssumption DEF Months
<1>1. RequestsTyped /\ RequestInTime(w) /\ RequestOnPath(w) /\ TablesTyped
      /\ now \in Months
  BY DEF IInv, TypeOK, RequestsTyped, TablesTyped
<1>2. pc[w] # "closeWrite"
  BY DEF CommitUpdate, CommitDelete, CommitNotFound, InsertRealized, Correct
<1>3. CASE CommitUpdate(w)
  <2>1. PICK x \in Operation :
          /\ ops' = [ops EXCEPT ![op[w].id] = x]
          /\ touched' = [touched EXCEPT ![w] = {op[w].month, x.month}]
    BY <1>3 DEF CommitUpdate
  <2>2. x.month \in Months /\ op[w].month \in Months
    BY <1>1 DEF Operation, RequestsTyped
  <2>3. TablesTyped'
    BY <1>1, <1>3, <2>1 DEF TablesTyped, CommitUpdate
  <2>4. RequestsTyped'
    BY <1>1, <1>3, <2>1, <2>2 DEF RequestsTyped, CommitUpdate, Goto, Calls
  <2>5. OrdinaryCall(w)
    BY <1>1, <1>3, <2>4
    DEF OrdinaryCall, RequestsTyped, RequestInTime, RequestOnPath, SameRequest,
        Walking, Resolving, CommitUpdate, Goto
  <2> QED BY <1>2, <1>3, <2>3, <2>5, QuietStep DEF CommitUpdate
<1>4. CASE CommitDelete(w)
  <2>1. op[w].month \in Months
    BY <1>1 DEF RequestsTyped
  <2>2. TablesTyped'
    BY <1>1, <1>4 DEF TablesTyped, CommitDelete
  <2>3. RequestsTyped'
    BY <1>1, <1>4, <2>1 DEF RequestsTyped, CommitDelete, Goto, Calls
  <2>4. OrdinaryCall(w)
    BY <1>1, <1>4, <2>3
    DEF OrdinaryCall, RequestsTyped, RequestInTime, RequestOnPath, SameRequest,
        Walking, Resolving, CommitDelete, Goto
  <2> QED BY <1>2, <1>4, <2>2, <2>4, QuietStep DEF CommitDelete
<1>5. CASE CommitNotFound(w)
  BY <1>1, <1>2, <1>5, DoneOrdinary, QuietStep DEF CommitNotFound, TablesTyped, db
<1>6. CASE InsertRealized(w)
  <2>1. PICK x \in Operation : ops' = [ops EXCEPT ![op[w].id] = x]
    BY <1>6 DEF InsertRealized
  <2>2. TablesTyped'
    BY <1>1, <1>6, <2>1 DEF TablesTyped, InsertRealized
  <2> QED BY <1>2, <1>6, <2>2, DoneOrdinary, QuietStep DEF InsertRealized
<1>7. CASE Correct(w)
  <2>1. TablesTyped' /\ UNCHANGED <<now, row, lock>>
    BY <1>1, <1>7 DEF TablesTyped, Correct, db
  <2>2. CASE Done(w)
    BY <1>2, <2>1, <2>2, DoneOrdinary, QuietStep
  <2>3. ASSUME NEW m \in Months,
               from' = [from EXCEPT ![w] = m],
               today' = [today EXCEPT ![w] = now],
               tries' = [tries EXCEPT ![w] = 1],
               Goto(w, "list"),
               UNCHANGED <<kind, op, touched, listed, top, cursor, prev, held>>
        PROVE  IInv'
    <3>1. RequestsTyped'
      BY <1>1, <2>3 DEF RequestsTyped, Goto, Calls
    <3>2. kind[w] # "summarize"
      BY <1>1, <1>7 DEF RequestOnPath, Correct
    <3>3. /\ pc'[w] = "list" /\ kind'[w] = kind[w] /\ listed'[w] = listed[w]
          /\ today'[w] = now
      BY <1>1, <2>3 DEF RequestsTyped, Goto
    <3>4. RequestInTime(w)' /\ RequestOnPath(w)'
      BY <1>1, <2>1, <3>2, <3>3 DEF RequestInTime, RequestOnPath, Walking, Resolving
    <3>5. \A v \in Workers \ {w} : SameRequest(v)
      BY <1>1, <2>3 DEF RequestsTyped, SameRequest, Goto
    <3>6. OrdinaryCall(w)
      BY <3>1, <3>3, <3>4, <3>5 DEF OrdinaryCall
    <3> QED BY <1>2, <2>1, <3>6, QuietStep
  <2>4. touched[w] \subseteq Months
    BY <1>1 DEF RequestsTyped
  <2> QED BY <1>7, <2>2, <2>3, <2>4 DEF Correct
<1> QED BY <1>3, <1>4, <1>5, <1>6, <1>7

\* Corrections.
LEMMA CorrectionInv ==
  ASSUME IInv, NEW w \in Workers,
         ListFrom(w) \/ ComputePeriod(w) \/ WritePeriod(w) \/ WriteConflict(w)
  PROVE  IInv'
<1> USE MonthsAssumption DEF Months
<1>1. RequestsTyped /\ RequestInTime(w) /\ RequestOnPath(w) /\ TablesTyped
      /\ now \in Months /\ row \in [Months -> Row \cup {NoRow}]
      /\ NoRow \notin Row
  BY SentinelAssumption DEF IInv, TypeOK, RequestsTyped, TablesTyped
<1>2. pc[w] \in {"list", "apply", "write"} /\ pc[w] # "closeWrite"
  BY DEF ListFrom, ComputePeriod, WritePeriod, WriteConflict
<1>3. kind[w] # "summarize"
  BY <1>1, <1>2 DEF RequestOnPath
<1>4. /\ listed[w] \in [Months -> Row \cup {NoRow}]
      /\ \A k \in Months : listed[w][k] # NoRow => k <= now
      /\ top[w] \in Months
  BY <1>1 DEF RequestsTyped, RequestInTime
<1>5. CASE ListFrom(w)
  <2> DEFINE periods == [m \in Months |-> IF m >= from[w] THEN row[m] ELSE NoRow]
  <2>1. periods \in [Months -> Row \cup {NoRow}]
    BY <1>1
  <2>2. \A k \in Months : periods[k] # NoRow => k <= now
    BY DEF IInv, PeriodsInTime
  <2>3. Recalculate(w, periods, from[w] - 1) /\ UNCHANGED db
    BY <1>5 DEF ListFrom
  <2> HIDE DEF periods
  <2>4. OrdinaryCall(w)
    BY <1>3, <2>1, <2>2, <2>3, RecalculateOrdinary DEF db
  <2>5. TablesTyped' /\ UNCHANGED <<now, row, lock>>
    BY <1>1, <1>5 DEF TablesTyped, ListFrom, db
  <2> QED BY <1>2, <2>4, <2>5, QuietStep
<1>6. CASE ComputePeriod(w)
  <2> DEFINE period == listed[w][top[w]]
             carry == CarryFrom(prev[w])
             open == [period EXCEPT !.carry = carry]
             image == IF period.status = "OPEN" THEN open
                      ELSE Recomputed(period, top[w], carry)
  <2>1. period \in Row
    BY <1>1, <1>2, <1>3, <1>4, <1>6 DEF RequestOnPath, Walking, ComputePeriod
  <2>2. carry \in Int
    BY <1>1 DEF CarryFrom, RequestsTyped, Row
  <2>3. image \in Row
    <3>1. Recomputed(period, top[w], carry) \in Row
      BY <1>4, <2>1, <2>2, RecomputedType
    <3> HIDE DEF period, carry
    <3>2. open \in Row
      BY <2>1, <2>2 DEF Row
    <3> QED BY <3>1, <3>2
  <2>4. TablesTyped' /\ UNCHANGED <<now, row, lock>>
    BY <1>1, <1>6 DEF TablesTyped, ComputePeriod, db
  <2>5. \/ Recalculate(w, listed[w], top[w])
        \/ /\ held' = [held EXCEPT ![w] = image]
           /\ Goto(w, "write")
           /\ UNCHANGED <<request, cursor, prev, tries>>
    BY <1>6 DEF ComputePeriod
  <2> HIDE DEF image
  <2>6. CASE Recalculate(w, listed[w], top[w])
    <3>1. OrdinaryCall(w)
      BY <1>3, <1>4, <2>4, <2>6, RecalculateOrdinary
    <3> QED BY <1>2, <2>4, <3>1, QuietStep
  <2>7. CASE /\ held' = [held EXCEPT ![w] = image]
             /\ Goto(w, "write")
             /\ UNCHANGED <<request, cursor, prev, tries>>
    <3>1. RequestsTyped'
      BY <1>1, <2>3, <2>7 DEF RequestsTyped, Goto, Calls, request
    <3>2. /\ pc'[w] = "write" /\ held'[w] = image /\ image # NoRow
          /\ pc[w] = "apply"
      BY <1>1, <1>6, <2>3, <2>7 DEF RequestsTyped, Goto, ComputePeriod
    <3>3. RequestInTime(w)' /\ RequestOnPath(w)'
      BY <1>1, <1>3, <2>4, <2>7, <3>2
      DEF RequestInTime, RequestOnPath, Walking, Resolving, request
    <3>4. \A v \in Workers \ {w} : SameRequest(v)
      BY <1>1, <2>7 DEF SameRequest, RequestsTyped, Goto, request
    <3>5. OrdinaryCall(w)
      BY <3>1, <3>2, <3>3, <3>4 DEF OrdinaryCall
    <3> QED BY <1>2, <2>4, <3>5, QuietStep
  <2> QED BY <2>5, <2>6, <2>7
<1>7. CASE WritePeriod(w)
  <2> DEFINE t == WithTotals(row[top[w]], held[w])
             r == [t EXCEPT !.carry = held[w].carry]
  <2>1. row[top[w]] \in Row /\ held[w] \in Row
    BY <1>1, <1>2, <1>4, <1>7
    DEF WritePeriod, SameRevision, RequestOnPath, RequestsTyped
  <2>2. row' = [row EXCEPT ![top[w]] = r]
    BY <1>7 DEF WritePeriod
  <2>3. t \in Row /\ t.status = row[top[w]].status /\ t.revision > 0
    BY <2>1, WithTotalsType DEF Row
  <2> HIDE DEF t
  <2>4. r \in Row /\ r.status = row[top[w]].status /\ r.revision > 0
    BY <2>1, <2>3 DEF Row
  <2> HIDE DEF r
  <2>8. row[top[w]] # NoRow /\ top[w] <= now
    BY <1>1, <2>1, <1>4 DEF IInv, PeriodsInTime
  <2>9. TablesTyped' /\ UNCHANGED <<now, lock>> /\ Recalculate(w, listed[w], top[w])
    BY <1>1, <1>7 DEF TablesTyped, WritePeriod
  <2>10. OrdinaryCall(w)
    BY <1>3, <1>4, <2>9, RecalculateOrdinary
  <2> QED BY <1>2, <1>4, <2>2, <2>4, <2>8, <2>9, <2>10, RowStep
<1>8. CASE WriteConflict(w)
  <2>1. UNCHANGED <<now, row, lock>>
    BY <1>8 DEF WriteConflict, db
  <2>2. TablesTyped'
    BY <1>1, <1>8 DEF TablesTyped, WriteConflict, db
  <2>3. CASE Done(w)
    BY <1>2, <2>1, <2>2, <2>3, DoneOrdinary, QuietStep
  <2>4. CASE /\ tries' = [tries EXCEPT ![w] = @ + 1]
             /\ Goto(w, "list")
             /\ held' = [held EXCEPT ![w] = NoRow]
             /\ prev' = [prev EXCEPT ![w] = NoRow]
             /\ UNCHANGED <<request, cursor>>
    <3>1. RequestsTyped'
      BY <1>1, <2>4 DEF RequestsTyped, Goto, Calls, request
    <3>2. /\ pc'[w] = "list" /\ kind' = kind /\ today' = today
          /\ listed' = listed /\ top' = top /\ cursor' = cursor
      BY <1>1, <2>4 DEF RequestsTyped, Goto, request
    <3>3. RequestInTime(w)' /\ RequestOnPath(w)'
      BY <1>1, <1>3, <2>1, <3>2
      DEF RequestInTime, RequestOnPath, Walking, Resolving
    <3>4. \A v \in Workers \ {w} : SameRequest(v)
      BY <1>1, <2>4, <3>2 DEF SameRequest, RequestsTyped, Goto
    <3>5. OrdinaryCall(w)
      BY <3>1, <3>2, <3>3, <3>4 DEF OrdinaryCall
    <3> QED BY <1>2, <2>1, <2>2, <3>5, QuietStep
  <2> QED BY <1>8, <2>3, <2>4 DEF WriteConflict
<1> QED BY <1>5, <1>6, <1>7, <1>8

\* The walk down and up the months.
LEMMA WalkInv ==
  ASSUME IInv, NEW w \in Workers,
         FindPeriod(w) \/ RefreshSnapshot(w) \/ FirstActivity(w) \/ OpenPeriod(w)
  PROVE  IInv'
<1> USE MonthsAssumption DEF Months
<1>1. RequestsTyped /\ RequestInTime(w) /\ RequestOnPath(w) /\ TablesTyped
      /\ now \in Months /\ row \in [Months -> Row \cup {NoRow}]
      /\ NoRow \notin Row
  BY SentinelAssumption DEF IInv, TypeOK, RequestsTyped, TablesTyped
<1>2. pc[w] \in {"find", "refresh", "origin", "open"} /\ pc[w] # "closeWrite"
  BY DEF FindPeriod, RefreshSnapshot, FirstActivity, OpenPeriod
<1>3. /\ cursor[w] \in Months /\ top[w] \in Months /\ today[w] \in Months
      /\ cursor[w] <= top[w] /\ top[w] <= now /\ cursor[w] <= now
  BY <1>1, <1>2 DEF RequestInTime, RequestsTyped, Walking, Resolving
<1>4. CASE FindPeriod(w)
  <2> DEFINE m == cursor[w]
             r == row[m]
             stale == /\ r # NoRow /\ r.status = "OPEN"
                      /\ m = today[w] /\ r.base # fixed[m]
  <2>1. TablesTyped' /\ UNCHANGED <<now, row, lock>>
    BY <1>1, <1>4 DEF TablesTyped, FindPeriod, db
  <2>2. \/ /\ r = NoRow
           /\ Goto(w, "origin")
           /\ UNCHANGED <<request, cursor, prev, held, tries>>
        \/ /\ r # NoRow
           /\ held' = [held EXCEPT ![w] = [r EXCEPT !.base = fixed[m]]]
           /\ Goto(w, "refresh")
           /\ UNCHANGED <<request, cursor, prev, tries>>
        \/ r # NoRow /\ Resolved(w, r)
    BY <1>4 DEF FindPeriod
  <2>3. r # NoRow => r \in Row
    BY <1>1, <1>3
  <2> HIDE DEF r
  <2>4. CASE Goto(w, "origin") /\ UNCHANGED <<request, cursor, prev, held, tries>>
    <3>1. RequestsTyped'
      BY <1>1, <2>4 DEF RequestsTyped, Goto, Calls, request
    <3>2. /\ pc'[w] = "origin" /\ kind' = kind /\ today' = today
          /\ listed' = listed /\ top' = top /\ cursor' = cursor /\ held' = held
      BY <1>1, <2>4 DEF RequestsTyped, Goto, request
    <3>3. RequestInTime(w)' /\ RequestOnPath(w)'
      BY <1>1, <1>2, <1>3, <2>1, <3>2
      DEF RequestInTime, RequestOnPath, Walking, Resolving
    <3>4. \A v \in Workers \ {w} : SameRequest(v)
      BY <1>1, <2>4, <3>2 DEF SameRequest, RequestsTyped, Goto
    <3>5. OrdinaryCall(w)
      BY <3>1, <3>2, <3>3, <3>4 DEF OrdinaryCall
    <3> QED BY <1>2, <2>1, <3>5, QuietStep
  <2>5. CASE /\ r # NoRow
             /\ held' = [held EXCEPT ![w] = [r EXCEPT !.base = fixed[m]]]
             /\ Goto(w, "refresh")
             /\ UNCHANGED <<request, cursor, prev, tries>>
    <3> DEFINE image == [r EXCEPT !.base = fixed[m]]
    <3>1. image \in Row
      <4>1. fixed[m] \in Int
        BY <1>1, <1>3 DEF TablesTyped
      <4> HIDE DEF m
      <4> QED BY <2>3, <2>5, <4>1 DEF Row
    <3>2. /\ held' = [held EXCEPT ![w] = image]
          /\ Goto(w, "refresh")
          /\ UNCHANGED <<request, cursor, prev, tries>>
      BY <2>5
    <3> HIDE DEF image
    <3>3. RequestsTyped'
      BY <1>1, <3>1, <3>2 DEF RequestsTyped, Goto, Calls, request
    <3>4. /\ pc'[w] = "refresh" /\ kind' = kind /\ today' = today
          /\ listed' = listed /\ top' = top /\ cursor' = cursor
          /\ held'[w] # NoRow /\ row[cursor[w]] # NoRow
      BY <1>1, <2>5, <3>1, <3>2 DEF RequestsTyped, Goto, request, r
    <3>5. pc[w] = "find"
      BY <1>4 DEF FindPeriod
    <3>6. RequestInTime(w)' /\ RequestOnPath(w)'
      BY <1>1, <1>3, <2>1, <3>4, <3>5
      DEF RequestInTime, RequestOnPath, Walking, Resolving
    <3>7. \A v \in Workers \ {w} : SameRequest(v)
      BY <1>1, <2>5, <3>2, <3>4 DEF SameRequest, RequestsTyped, Goto
    <3>8. OrdinaryCall(w)
      BY <3>3, <3>4, <3>6, <3>7 DEF OrdinaryCall
    <3> QED BY <1>2, <2>1, <3>8, QuietStep
  <2>6. CASE r # NoRow /\ Resolved(w, r)
    <3>1. pc[w] \in Resolving
      BY <1>4 DEF FindPeriod, Resolving
    <3>2. row'[cursor[w]] # NoRow
      BY <2>1, <2>6 DEF r
    <3>3. OrdinaryCall(w)
      BY <2>1, <2>3, <2>6, <3>1, <3>2, ResolvedOrdinary
    <3> QED BY <1>2, <2>1, <3>3, QuietStep
  <2> QED BY <2>2, <2>4, <2>5, <2>6
<1>5. CASE RefreshSnapshot(w)
  <2>1. pc[w] = "refresh" /\ UNCHANGED <<now, ops, fixed, lock, started>>
    BY <1>5 DEF RefreshSnapshot
  <2>2. row[cursor[w]] \in Row /\ held[w] \in Row
    BY <1>1, <1>3, <2>1 DEF RequestOnPath, RequestsTyped
  <2>3. excused' \in BOOLEAN
    BY <1>1, <1>5 DEF TablesTyped, RefreshSnapshot, Fail
  <2>4. TablesTyped'
    BY <1>1, <2>1, <2>3 DEF TablesTyped
  <2>5. CASE Done(w) /\ UNCHANGED row
    BY <1>2, <2>1, <2>4, <2>5, DoneOrdinary, QuietStep
  <2>6. CASE row[cursor[w]].status = "OPEN"
    <3> DEFINE r == [row[cursor[w]] EXCEPT
                       !.base = held[w].base,
                       !.revision = row[cursor[w]].revision + 1]
               a == [row[cursor[w]] EXCEPT !.base = held[w].base]
    <3>1. row' = [row EXCEPT ![cursor[w]] = r] /\ Resolved(w, r)
      BY <1>5, <2>6 DEF RefreshSnapshot
    <3>2. a \in Row /\ a.status = row[cursor[w]].status
      BY <2>2 DEF Row
    <3>3. r = [a EXCEPT !.revision = row[cursor[w]].revision + 1]
      OBVIOUS
    <3> HIDE DEF a
    <3>4. r \in Row /\ r.status = row[cursor[w]].status /\ r.revision > 0
      BY <2>2, <3>2, <3>3 DEF Row
    <3> HIDE DEF r
    <3>5. row'[cursor[w]] # NoRow /\ pc[w] \in Resolving /\ UNCHANGED now
      BY <1>1, <1>3, <2>1, <3>1, <3>4 DEF Resolving
    <3>6. OrdinaryCall(w)
      BY <3>1, <3>4, <3>5, ResolvedOrdinary
    <3> QED BY <1>1, <1>2, <1>3, <2>1, <2>2, <2>4, <3>1, <3>4, <3>6, RowStep
  <2> QED BY <1>5, <2>5, <2>6 DEF RefreshSnapshot, Fail
<1>6. CASE FirstActivity(w)
  <2>1. TablesTyped' /\ UNCHANGED <<now, row, lock>>
    BY <1>1, <1>6 DEF TablesTyped, FirstActivity, db
  <2>2. pc[w] = "origin"
    BY <1>6 DEF FirstActivity
  <2>3. CASE /\ prev' = [prev EXCEPT ![w] = NoRow]
             /\ Goto(w, IF kind[w] # "summarize" /\ cursor[w] = top[w]
                        THEN "apply" ELSE "open")
             /\ UNCHANGED <<request, cursor, held, tries>>
    <3>1. RequestsTyped'
      BY <1>1, <2>3 DEF RequestsTyped, Goto, Calls, request
    <3>2. /\ pc'[w] = IF kind[w] # "summarize" /\ cursor[w] = top[w]
                      THEN "apply" ELSE "open"
          /\ kind' = kind /\ today' = today /\ listed' = listed
          /\ top' = top /\ cursor' = cursor /\ held' = held
      BY <1>1, <2>3 DEF RequestsTyped, Goto, request
    <3>3. RequestInTime(w)'
      BY <1>1, <1>2, <1>3, <2>1, <3>2 DEF RequestInTime, Walking, Resolving
    <3>4. RequestOnPath(w)'
      <4>1. kind[w] = "summarize" => pc'[w] = "open" /\ top[w] <= today[w]
        BY <1>1, <2>2, <3>2 DEF RequestOnPath, Walking
      <4>2. kind[w] # "summarize" =>
              listed[w][top[w]] # NoRow /\ (pc'[w] = "open" => cursor[w] < top[w])
        BY <1>1, <1>3, <2>2, <3>2 DEF RequestOnPath, Walking
      <4> QED BY <3>2, <4>1, <4>2 DEF RequestOnPath, Walking, Resolving
    <3>5. \A v \in Workers \ {w} : SameRequest(v)
      BY <1>1, <2>3, <3>2 DEF SameRequest, RequestsTyped, Goto
    <3>6. OrdinaryCall(w)
      BY <3>1, <3>2, <3>3, <3>4, <3>5 DEF OrdinaryCall
    <3> QED BY <1>2, <2>1, <3>6, QuietStep
  <2>4. CASE /\ ~NothingBefore(cursor[w])
             /\ cursor' = [cursor EXCEPT ![w] = @ - 1]
             /\ Goto(w, "find")
             /\ UNCHANGED <<request, prev, held, tries>>
    <3>1. cursor[w] - 1 \in Months
      <4>1. PICK o \in OpIds : ops[o] \in Operation /\ ~(cursor[w] <= ops[o].month)
        BY <2>4 DEF NothingBefore
      <4>2. ops[o].month \in Months
        BY <4>1 DEF Operation
      <4> QED BY <1>3, <4>1, <4>2
    <3>2. RequestsTyped'
      BY <1>1, <2>4, <3>1 DEF RequestsTyped, Goto, Calls, request
    <3>3. /\ pc'[w] = "find" /\ cursor'[w] = cursor[w] - 1 /\ kind' = kind
          /\ today' = today /\ listed' = listed /\ top' = top /\ held' = held
      BY <1>1, <2>4 DEF RequestsTyped, Goto, request
    <3>4. RequestInTime(w)' /\ RequestOnPath(w)'
      BY <1>1, <1>3, <2>1, <2>2, <3>3
      DEF RequestInTime, RequestOnPath, Walking, Resolving
    <3>5. \A v \in Workers \ {w} : SameRequest(v)
      BY <1>1, <2>4, <3>3 DEF SameRequest, RequestsTyped, Goto
    <3>6. OrdinaryCall(w)
      BY <3>2, <3>3, <3>4, <3>5 DEF OrdinaryCall
    <3> QED BY <1>2, <2>1, <3>6, QuietStep
  <2> QED BY <1>6, <2>3, <2>4 DEF FirstActivity
<1>7. CASE OpenPeriod(w)
  <2> DEFINE fresh == OpenRow(OpeningBase(w), CarryFrom(prev[w]))
             r == IF row[cursor[w]] = NoRow THEN fresh ELSE row[cursor[w]]
  <2>1. pc[w] = "open" /\ UNCHANGED <<now, ops, fixed, lock, started>>
    BY <1>7 DEF OpenPeriod
  <2>2. excused' \in BOOLEAN
    BY <1>1, <1>7 DEF TablesTyped, OpenPeriod, Fail
  <2>3. TablesTyped'
    BY <1>1, <2>1, <2>2 DEF TablesTyped
  <2>4. CASE Done(w) /\ UNCHANGED row
    BY <1>2, <2>1, <2>3, <2>4, DoneOrdinary, QuietStep
  <2>5. CASE row' = [row EXCEPT ![cursor[w]] = r] /\ Resolved(w, r)
    <3>1. fresh \in Row /\ fresh.status = "OPEN" /\ fresh.revision = 1
      <4>1. CarryFrom(prev[w]) \in Int
        BY <1>1 DEF CarryFrom, RequestsTyped, Row
      <4>2. OpeningBase(w) \in Int
        BY <1>1, <1>3 DEF OpeningBase, RequestsTyped, TablesTyped, Row
      <4> QED BY <4>1, <4>2, OpenRowType
    <3>2. row[cursor[w]] # NoRow =>
            row[cursor[w]] \in Row /\ row[cursor[w]].revision > 0
      BY <1>1, <1>3 DEF IInv, PeriodsInTime
    <3> HIDE DEF fresh
    <3>3. /\ r \in Row /\ r.revision > 0
          /\ row[cursor[w]] = NoRow => r.status = "OPEN"
          /\ row[cursor[w]] # NoRow => r.status = row[cursor[w]].status
      BY <3>1, <3>2
    <3> HIDE DEF r
    <3>4. row'[cursor[w]] # NoRow /\ pc[w] \in Resolving /\ UNCHANGED now
      BY <1>1, <1>3, <2>1, <2>5, <3>3 DEF Resolving
    <3>5. OrdinaryCall(w)
      BY <2>5, <3>3, <3>4, ResolvedOrdinary
    <3> QED BY <1>2, <1>3, <2>1, <2>3, <2>5, <3>3, <3>5, RowStep
  <2> QED BY <1>7, <2>4, <2>5 DEF OpenPeriod, Fail
<1> QED BY <1>4, <1>5, <1>6, <1>7

\* Closing a period: read under the lock, then write.
LEMMA CloseInv ==
  ASSUME IInv, NEW w \in Workers, CloseRead(w) \/ CloseWrite(w)
  PROVE  IInv'
<1> USE MonthsAssumption DEF Months
<1>1. RequestsTyped /\ RequestInTime(w) /\ RequestOnPath(w) /\ TablesTyped
      /\ now \in Months /\ row \in [Months -> Row \cup {NoRow}]
      /\ NoRow \notin Row /\ PeriodsInTime /\ ClosingIsExclusive
  BY SentinelAssumption DEF IInv, TypeOK, RequestsTyped, TablesTyped
<1> DEFINE m == cursor[w]
<1>2. /\ pc[w] \in Resolving /\ m \in Months /\ m < now
      /\ row[m] \in Row
  BY <1>1 DEF CloseRead, CloseWrite, Resolving, RequestInTime, RequestOnPath, RequestsTyped
\* What follows a close that returned row `r'.
<1>3. ASSUME NEW r \in Row, Closed(w, r), UNCHANGED now
      PROVE  OrdinaryCall(w)
  <2>1. CASE kind[w] = "summarize" /\ cursor[w] = top[w]
    BY <1>3, <2>1, DoneOrdinary DEF Closed
  <2>2. CASE ~(kind[w] = "summarize" /\ cursor[w] = top[w])
    <3>1. HavePrevious(w, cursor[w], r)
      BY <1>3, <2>2 DEF Closed
    <3>2. kind[w] = "summarize" => cursor[w] # top[w]
      BY <2>2
    <3> QED BY <1>2, <1>3, <3>1, <3>2, HavePreviousOrdinary
  <2> QED BY <2>1, <2>2
<1>4. CASE CloseRead(w)
  <2>1. TablesTyped' /\ UNCHANGED <<now, row>> /\ pc[w] = "closeRead" /\ lock = Free
    BY <1>1, <1>4 DEF TablesTyped, CloseRead
  <2>2. CASE Closed(w, row[m]) /\ UNCHANGED lock
    BY <1>2, <1>3, <2>1, <2>2, QuietStep
  <2>3. CASE /\ row[m].status = "OPEN"
             /\ lock' = w
             /\ held' = [held EXCEPT ![w] = Recomputed(row[m], m, row[m].carry)]
             /\ Goto(w, "closeWrite")
             /\ UNCHANGED <<request, cursor, prev, tries>>
    <3> DEFINE image == Recomputed(row[m], m, row[m].carry)
    <3>1. image \in Row
      <4>1. row[m].carry \in Int
        BY <1>2 DEF Row
      <4> QED BY <1>2, <4>1, RecomputedType
    <3>2. /\ held' = [held EXCEPT ![w] = image]
          /\ Goto(w, "closeWrite")
          /\ UNCHANGED <<request, cursor, prev, tries>>
      BY <2>3
    <3> HIDE DEF image
    <3>3. RequestsTyped'
      BY <1>1, <3>1, <3>2 DEF RequestsTyped, Goto, Calls, request
    <3>4. /\ pc' = [pc EXCEPT ![w] = "closeWrite"] /\ kind' = kind /\ today' = today
          /\ listed' = listed /\ top' = top /\ cursor' = cursor
          /\ held'[w] # NoRow
      BY <1>1, <3>1, <3>2 DEF RequestsTyped, Goto, request
    <3>5. TypeOK'
      BY <2>1, <2>3, <3>3 DEF IInv, TypeOK, RequestsTyped, TablesTyped
    <3>6. ClosingIsExclusive'
      <4> SUFFICES ASSUME NEW v \in Workers
                   PROVE  /\ pc'[v] = "closeWrite" <=> lock' = v
                          /\ pc'[v] = "closeWrite" =>
                               row'[cursor'[v]] # NoRow /\ row'[cursor'[v]].status = "OPEN"
        BY DEF ClosingIsExclusive
      <4>1. pc[v] # "closeWrite"
        BY <1>1, <2>1, SentinelAssumption DEF ClosingIsExclusive
      <4>2. CASE v = w
        BY <1>1, <1>2, <2>1, <2>3, <3>4, <4>2 DEF RequestsTyped
      <4>3. CASE v # w
        BY <1>1, <2>3, <3>4, <4>1, <4>3 DEF RequestsTyped
      <4> QED BY <4>2, <4>3
    <3>7. \A v \in Workers : RequestInTime(v)' /\ RequestOnPath(v)'
      <4> SUFFICES ASSUME NEW v \in Workers
                   PROVE  RequestInTime(v)' /\ RequestOnPath(v)'
        OBVIOUS
      <4>1. CASE v = w
        <5>1. RequestInTime(w)'
          BY <1>1, <1>2, <2>1, <3>4 DEF RequestInTime, RequestsTyped, Walking, Resolving
        <5>2. RequestOnPath(w)'
          BY <1>1, <1>2, <2>1, <3>4 DEF RequestOnPath, RequestsTyped, Walking, Resolving
        <5> QED BY <4>1, <5>1, <5>2
      <4>2. CASE v # w
        <5>1. SameRequest(v)
          BY <1>1, <3>2, <3>4, <4>2 DEF SameRequest, RequestsTyped
        <5>2. now' \in Months /\ now' >= now
          BY <1>1, <2>1
        <5> QED BY <2>1, <5>1, <5>2, OthersStay
      <4> QED BY <4>1, <4>2
    <3> QED BY <1>1, <2>1, <3>5, <3>6, <3>7 DEF IInv, PeriodsInTime
  <2> QED BY <1>4, <2>2, <2>3 DEF CloseRead
<1>5. CASE CloseWrite(w)
  <2> DEFINE t == WithTotals(row[m], held[w])
             r == [t EXCEPT !.status = "CLOSED"]
  <2>1. /\ pc[w] = "closeWrite" /\ lock' = Free
        /\ row' = [row EXCEPT ![m] = r] /\ Closed(w, r)
        /\ UNCHANGED <<now, ops, fixed, started, excused>>
    BY <1>5 DEF CloseWrite
  <2>2. held[w] \in Row
    BY <1>1, <2>1 DEF RequestOnPath, RequestsTyped
  <2>3. t \in Row /\ t.revision > 0
    BY <1>2, <2>2, WithTotalsType DEF Row
  <2> HIDE DEF t
  <2>4. r \in Row /\ r.status = "CLOSED" /\ r.revision > 0
    BY <2>3 DEF Row
  <2> HIDE DEF r
  <2>5. OrdinaryCall(w)
    BY <1>3, <2>1, <2>4
  <2> HIDE DEF m
  <2>6. /\ row' \in [Months -> Row \cup {NoRow}]
        /\ row'[m] = r /\ r # NoRow
        /\ \A k \in Months \ {m} : row'[k] = row[k]
    BY <1>1, <1>2, <2>1, <2>4
  <2>7. TypeOK'
    BY <1>1, <2>1, <2>5, <2>6 DEF IInv, TypeOK, OrdinaryCall, RequestsTyped, TablesTyped
  <2>8. PeriodsInTime'
    <3> SUFFICES ASSUME NEW k \in Months, row'[k] # NoRow
                 PROVE  /\ k <= now'
                        /\ row'[k].status = "CLOSED" => k < now'
                        /\ row'[k].revision > 0
      BY DEF PeriodsInTime
    <3>1. CASE k = m
      BY <1>1, <1>2, <2>1, <2>4, <2>6, <3>1
    <3>2. CASE k # m
      BY <1>1, <2>1, <2>6, <3>2 DEF PeriodsInTime
    <3> QED BY <3>1, <3>2
  <2>9. ClosingIsExclusive'
    <3> SUFFICES ASSUME NEW v \in Workers PROVE pc'[v] # "closeWrite" /\ lock' # v
      BY DEF ClosingIsExclusive
    <3>1. lock = w
      BY <1>1, <2>1 DEF ClosingIsExclusive
    <3>2. v # w => pc[v] # "closeWrite"
      BY <1>1, <3>1 DEF ClosingIsExclusive
    <3> QED BY <2>1, <2>5, <3>2, SentinelAssumption DEF OrdinaryCall, SameRequest
  <2>10. \A v \in Workers : RequestInTime(v)' /\ RequestOnPath(v)'
    <3> SUFFICES ASSUME NEW v \in Workers
                 PROVE  RequestInTime(v)' /\ RequestOnPath(v)'
      OBVIOUS
    <3>1. CASE v = w
      BY <2>5, <3>1 DEF OrdinaryCall
    <3>2. CASE v # w
      <4>1. SameRequest(v)
        BY <2>5, <3>2 DEF OrdinaryCall
      <4>2. now' \in Months /\ now' >= now
        BY <1>1, <2>1
      <4>3. \A k \in Months : row[k] # NoRow => row'[k] # NoRow
        BY <2>6
      <4> QED BY <4>1, <4>2, <4>3, OthersStay
    <3> QED BY <3>1, <3>2
  <2>11. StartMonth <= now'
    BY <2>1 DEF IInv
  <2> QED BY <2>7, <2>8, <2>9, <2>10, <2>11 DEF IInv
<1> QED BY <1>4, <1>5

\* Time, fixed operations and the death of the process.
LEMMA EnvironmentInv ==
  ASSUME IInv, Rollover \/ ChangeFixed \/ \E w \in Workers : Crash(w)
  PROVE  IInv'
<1> USE MonthsAssumption DEF Months
<1>1. /\ now \in Months /\ TypeOK /\ RequestsTyped /\ TablesTyped
      /\ PeriodsInTime /\ ClosingIsExclusive
  BY DEF IInv, TypeOK, RequestsTyped, TablesTyped
<1>2. ASSUME now' \in Months, now' >= now, TablesTyped',
             UNCHANGED <<row, lock, pc, request, cursor, prev, held, tries>>
      PROVE  IInv'
  <2>1. TypeOK'
    BY <1>1, <1>2 DEF TypeOK, TablesTyped, request
  <2>2. PeriodsInTime'
    BY <1>1, <1>2 DEF PeriodsInTime
  <2>3. ClosingIsExclusive'
    BY <1>1, <1>2 DEF ClosingIsExclusive
  <2>4. \A v \in Workers : RequestInTime(v)' /\ RequestOnPath(v)'
    <3> SUFFICES ASSUME NEW v \in Workers
                 PROVE  RequestInTime(v)' /\ RequestOnPath(v)'
      OBVIOUS
    <3>1. SameRequest(v)
      BY <1>2 DEF SameRequest, request
    <3> QED BY <1>2, <3>1, OthersStay
  <2>5. StartMonth <= now'
    BY <1>1, <1>2 DEF IInv
  <2> QED BY <2>1, <2>2, <2>3, <2>4, <2>5 DEF IInv
<1>3. CASE Rollover
  <2>1. TablesTyped'
    BY <1>1, <1>3 DEF TablesTyped, Rollover
  <2>2. now' \in Months /\ now' >= now
    BY <1>1, <1>3 DEF Rollover
  <2> QED BY <1>2, <1>3, <2>1, <2>2 DEF Rollover
<1>4. CASE ChangeFixed
  <2>1. PICK m \in {1} \cup now..LastMonth, v \in BaseValues :
          fixed' = [k \in Months |-> IF k >= m THEN v ELSE fixed[k]]
    BY <1>4 DEF ChangeFixed
  <2>2. v \in Int
    BY BaseAssumption
  <2>3. fixed' \in [Months -> Int]
    BY <1>1, <2>1, <2>2 DEF TablesTyped
  <2>4. TablesTyped'
    BY <1>1, <1>4, <2>3 DEF TablesTyped, ChangeFixed
  <2> QED BY <1>1, <1>2, <1>4, <2>4 DEF ChangeFixed
<1>5. ASSUME NEW w \in Workers, Crash(w) PROVE IInv'
  <2>1. /\ Done(w) /\ UNCHANGED <<now, ops, fixed, row, started>> /\ excused' = TRUE
        /\ lock' = IF lock = w THEN Free ELSE lock
    BY <1>5 DEF Crash
  <2>2. OrdinaryCall(w) /\ pc'[w] = "idle"
    BY <2>1, DoneOrdinary
  <2>3. TablesTyped'
    BY <1>1, <2>1 DEF TablesTyped
  <2>4. TypeOK'
    BY <1>1, <2>1, <2>2, <2>3 DEF TypeOK, OrdinaryCall, RequestsTyped, TablesTyped
  <2>5. PeriodsInTime'
    BY <1>1, <2>1 DEF PeriodsInTime
  <2>6. ClosingIsExclusive'
    <3> SUFFICES ASSUME NEW v \in Workers
                 PROVE  /\ pc'[v] = "closeWrite" <=> lock' = v
                        /\ pc'[v] = "closeWrite" =>
                             row'[cursor'[v]] # NoRow /\ row'[cursor'[v]].status = "OPEN"
      BY DEF ClosingIsExclusive
    <3>1. CASE v = w
      BY <2>1, <2>2, <3>1, SentinelAssumption
    <3>2. CASE v # w
      <4>1. pc'[v] = pc[v] /\ cursor'[v] = cursor[v]
        BY <2>2, <3>2 DEF OrdinaryCall, SameRequest
      <4>2. lock' = v <=> lock = v
        BY <2>1, <3>2, SentinelAssumption
      <4> QED BY <1>1, <2>1, <4>1, <4>2 DEF ClosingIsExclusive
    <3> QED BY <3>1, <3>2
  <2>7. \A v \in Workers : RequestInTime(v)' /\ RequestOnPath(v)'
    <3> SUFFICES ASSUME NEW v \in Workers
                 PROVE  RequestInTime(v)' /\ RequestOnPath(v)'
      OBVIOUS
    <3>1. CASE v = w
      BY <2>2, <3>1 DEF OrdinaryCall
    <3>2. CASE v # w
      <4>1. SameRequest(v)
        BY <2>2, <3>2 DEF OrdinaryCall
      <4>2. now' \in Months /\ now' >= now
        BY <1>1, <2>1
      <4> QED BY <2>1, <4>1, <4>2, OthersStay
    <3> QED BY <3>1, <3>2
  <2>8. StartMonth <= now'
    BY <2>1 DEF IInv
  <2> QED BY <2>4, <2>5, <2>6, <2>7, <2>8 DEF IInv
<1> QED BY <1>3, <1>4, <1>5

LEMMA NextInv == IInv /\ [Next]_vars => IInv'
<1> SUFFICES ASSUME IInv, [Next]_vars PROVE IInv'
  OBVIOUS
<1>1. ASSUME NEW w \in Workers, Start(w) PROVE IInv'
  BY <1>1, StartInv
<1>2. ASSUME NEW w \in Workers, Continue(w) PROVE IInv'
  BY <1>2, WriteInv, CorrectionInv, WalkInv, CloseInv DEF Continue
<1>3. ASSUME NEW w \in Workers, Crash(w) PROVE IInv'
  BY <1>3, EnvironmentInv
<1>4. CASE Rollover \/ ChangeFixed
  BY <1>4, EnvironmentInv
<1>5. CASE UNCHANGED vars
  BY <1>5
  DEF vars, IInv, TypeOK, PeriodsInTime, ClosingIsExclusive, RequestInTime, RequestOnPath
<1> QED BY <1>1, <1>2, <1>3, <1>4, <1>5 DEF Next

(* ---------------------------------------------------------------------- *)
(* Theorems.                                                               *)

\* No request opens, refreshes or closes a period it should not, whatever runs
\* at once: the inductive invariant holds of every behaviour.
THEOREM RequestsInOrder == Spec => []IInv
<1>1. Init => IInv
  BY InitInv
<1>2. IInv /\ [Next]_vars => IInv'
  BY NextInv
<1> QED BY <1>1, <1>2, PTL DEF Spec

\* Every variable of the budget periods keeps its type.
THEOREM TypeCorrect == Spec => []TypeOK
<1>1. IInv => TypeOK
  BY DEF IInv
<1> QED BY <1>1, RequestsInOrder, PTL

(* ---------------------------------------------------------------------- *)
(* The table of periods implements its lifecycle.                          *)

Phase == [m \in Months |-> IF row[m] = NoRow THEN "NONE" ELSE row[m].status]
Base == [m \in Months |-> IF row[m] = NoRow THEN 0 ELSE row[m].base]
Revision == [m \in Months |-> IF row[m] = NoRow THEN 0 ELSE row[m].revision]

\* The ways in which one period may change are steps of the lifecycle.
LEMMA PeriodStep ==
  ASSUME IInv, UNCHANGED now, NEW m \in Months, NEW r \in Row,
         row' = [row EXCEPT ![m] = r],
         \/ row[m] = NoRow /\ m <= now /\ r.status = "OPEN" /\ r.revision = 1
         \/ /\ row[m] # NoRow /\ r.revision = row[m].revision + 1
            /\ \/ row[m].status = "OPEN" /\ r.status = "OPEN"
               \/ row[m].status = "OPEN" /\ r.status = "CLOSED"
                    /\ m < now /\ r.base = row[m].base
               \/ r.status = row[m].status /\ r.base = row[m].base
  PROVE  Lifecycle!Next
<1>1. /\ row \in [Months -> Row \cup {NoRow}] /\ NoRow \notin Row
      /\ Lifecycle!Months = Months
  BY SentinelAssumption DEF IInv, TypeOK, Months, Lifecycle!Months
<1>2. /\ row' \in [Months -> Row \cup {NoRow}] /\ row'[m] = r /\ r # NoRow
      /\ \A k \in Months \ {m} : row'[k] = row[k]
  BY <1>1
<1>3. /\ Phase' \in [Months -> {"NONE", "OPEN", "CLOSED"}]
      /\ Base' \in [Months -> Int]
      /\ Revision' \in [Months -> Nat]
  BY <1>2 DEF Phase, Base, Revision, Row
<1>4. \A k \in Months \ {m} :
        Phase'[k] = Phase[k] /\ Base'[k] = Base[k] /\ Revision'[k] = Revision[k]
  BY <1>2 DEF Phase, Base, Revision
<1>5. /\ Phase'[m] = r.status /\ Base'[m] = r.base /\ Revision'[m] = r.revision
      /\ row[m] = NoRow => Phase[m] = "NONE" /\ Revision[m] = 0
      /\ row[m] # NoRow => /\ Phase[m] = row[m].status /\ Base[m] = row[m].base
                           /\ Revision[m] = row[m].revision
  BY <1>2 DEF Phase, Base, Revision
<1>6. Revision'[m] = Revision[m] + 1
  BY <1>5
<1>7. Lifecycle!Change(m)
  BY <1>1, <1>3, <1>4, <1>6
  DEF Lifecycle!Change, Lifecycle!Phases, Phase, Base, Revision
<1>8. row[m] # NoRow => row[m].status # "NONE"
  BY <1>1 DEF Row
<1>9. \/ Lifecycle!Open(m) \/ Lifecycle!Refresh(m)
      \/ Lifecycle!Close(m) \/ Lifecycle!Correct(m)
  BY <1>5, <1>7, <1>8
  DEF Lifecycle!Open, Lifecycle!Refresh, Lifecycle!Close, Lifecycle!Correct,
      Phase, Base, Revision
<1> QED BY <1>1, <1>9 DEF Lifecycle!Next

\* Every step of a request is a step of the lifecycle or leaves it alone.
LEMMA RequestRefines ==
  ASSUME IInv, NEW w \in Workers, Start(w) \/ Continue(w) \/ Crash(w)
  PROVE  UNCHANGED <<now, row>> \/ Lifecycle!Next
<1>1. /\ RequestInTime(w) /\ RequestOnPath(w) /\ PeriodsInTime /\ ClosingIsExclusive
      /\ row \in [Months -> Row \cup {NoRow}] /\ NoRow \notin Row
      /\ cursor[w] \in Months /\ top[w] \in Months /\ now \in Months
      /\ held[w] \in Row \cup {NoRow}
  BY SentinelAssumption DEF IInv, TypeOK
<1>2. CASE WritePeriod(w)
  <2> DEFINE t == WithTotals(row[top[w]], held[w])
             r == [t EXCEPT !.carry = held[w].carry]
  <2>1. /\ row[top[w]] \in Row /\ row[top[w]] # NoRow /\ held[w] \in Row
        /\ UNCHANGED now
    BY <1>1, <1>2 DEF WritePeriod, SameRevision, RequestOnPath
  <2>2. row' = [row EXCEPT ![top[w]] = r]
    BY <1>2 DEF WritePeriod
  <2>3. /\ t \in Row /\ t.status = row[top[w]].status /\ t.base = row[top[w]].base
        /\ t.revision = row[top[w]].revision + 1
    BY <2>1, WithTotalsType
  <2> HIDE DEF t
  <2>4. /\ r \in Row /\ r.status = row[top[w]].status /\ r.base = row[top[w]].base
        /\ r.revision = row[top[w]].revision + 1
    BY <2>1, <2>3 DEF Row
  <2> HIDE DEF r
  <2> QED BY <1>1, <2>1, <2>2, <2>4, PeriodStep
<1>3. CASE RefreshSnapshot(w)
  <2>1. CASE UNCHANGED row
    BY <1>3, <2>1 DEF RefreshSnapshot
  <2>2. CASE row[cursor[w]].status = "OPEN"
    <3> DEFINE a == [row[cursor[w]] EXCEPT !.base = held[w].base]
               r == [a EXCEPT !.revision = row[cursor[w]].revision + 1]
    <3>1. row' = [row EXCEPT ![cursor[w]] = r] /\ UNCHANGED now
      BY <1>3, <2>2 DEF RefreshSnapshot
    <3>2. row[cursor[w]] \in Row /\ held[w] \in Row
      BY <1>1, <1>3 DEF RefreshSnapshot, RequestOnPath
    <3>3. a \in Row /\ a.status = "OPEN"
      BY <2>2, <3>2 DEF Row
    <3> HIDE DEF a
    <3>4. /\ r \in Row /\ r.status = "OPEN"
          /\ r.revision = row[cursor[w]].revision + 1
      BY <3>2, <3>3 DEF Row
    <3> HIDE DEF r
    <3> QED BY <1>1, <2>2, <3>1, <3>2, <3>4, PeriodStep
  <2> QED BY <1>3, <2>1, <2>2 DEF RefreshSnapshot
<1>4. CASE OpenPeriod(w)
  <2> DEFINE fresh == OpenRow(OpeningBase(w), CarryFrom(prev[w]))
             r == IF row[cursor[w]] = NoRow THEN fresh ELSE row[cursor[w]]
  <2>1. /\ UNCHANGED now /\ pc[w] = "open"
        /\ \/ row' = [row EXCEPT ![cursor[w]] = r]
           \/ row[cursor[w]] # NoRow /\ UNCHANGED row
    BY <1>4 DEF OpenPeriod
  <2>2. CASE row[cursor[w]] # NoRow
    BY <1>1, <2>1, <2>2
  <2>3. CASE row[cursor[w]] = NoRow
    <3>1. CarryFrom(prev[w]) \in Int
      BY DEF CarryFrom, IInv, TypeOK, Row
    <3>2. OpeningBase(w) \in Int
      BY <1>1 DEF OpeningBase, IInv, TypeOK, Row
    <3>3. fresh \in Row /\ fresh.status = "OPEN" /\ fresh.revision = 1
      BY <3>1, <3>2, OpenRowType
    <3> HIDE DEF fresh
    <3>4. cursor[w] <= now
      BY <1>1, <2>1 DEF RequestInTime, Walking, Resolving, Months
    <3>5. row' = [row EXCEPT ![cursor[w]] = fresh]
      BY <2>1, <2>3
    <3> QED BY <1>1, <2>1, <2>3, <3>3, <3>4, <3>5, PeriodStep
  <2> QED BY <2>2, <2>3
<1>5. CASE CloseWrite(w)
  <2> DEFINE t == WithTotals(row[cursor[w]], held[w])
             r == [t EXCEPT !.status = "CLOSED"]
  <2>1. /\ pc[w] = "closeWrite" /\ UNCHANGED now
        /\ row' = [row EXCEPT ![cursor[w]] = r]
    BY <1>5 DEF CloseWrite
  <2>2. /\ held[w] \in Row /\ cursor[w] < now
        /\ row[cursor[w]] \in Row /\ row[cursor[w]].status = "OPEN"
    BY <1>1, <2>1 DEF RequestOnPath, RequestInTime, ClosingIsExclusive
  <2>3. /\ t \in Row /\ t.base = row[cursor[w]].base
        /\ t.revision = row[cursor[w]].revision + 1
    BY <2>2, WithTotalsType
  <2> HIDE DEF t
  <2>4. /\ r \in Row /\ r.status = "CLOSED" /\ r.base = row[cursor[w]].base
        /\ r.revision = row[cursor[w]].revision + 1
    BY <2>3 DEF Row
  <2> HIDE DEF r
  <2> QED BY <1>1, <2>1, <2>2, <2>4, PeriodStep
<1>6. CASE Start(w) \/ Crash(w)
  BY <1>6
  DEF Start, Create, ReadBefore, CheckPeriodOpen, Summarize, Crash, db
<1>7. CASE \/ CommitUpdate(w) \/ CommitDelete(w) \/ CommitNotFound(w)
           \/ InsertRealized(w) \/ Correct(w) \/ ListFrom(w) \/ ComputePeriod(w)
           \/ WriteConflict(w) \/ FindPeriod(w) \/ FirstActivity(w) \/ CloseRead(w)
  BY <1>7
  DEF CommitUpdate, CommitDelete, CommitNotFound, InsertRealized, Correct, ListFrom,
      ComputePeriod, WriteConflict, FindPeriod, FirstActivity, CloseRead, db
<1> QED BY <1>2, <1>3, <1>4, <1>5, <1>6, <1>7 DEF Continue

\* Closed once, under the owner lock, after its month; opened in its time;
\* fixed snapshot frozen by the close; one revision per change: for every
\* number of concurrent requests the table of periods implements
\* PeriodLifecycle.
THEOREM ImplementsLifecycle == Spec => LifecycleSpec
<1>1. Init => Lifecycle!Init
  <2> SUFFICES ASSUME Init PROVE Lifecycle!Init
    OBVIOUS
  <2>1. IInv /\ now = StartMonth /\ Lifecycle!Months = Months
    BY InitInv DEF Init, Months, Lifecycle!Months
  <2>2. row \in [Months -> Row \cup {NoRow}] /\ PeriodsInTime
    BY <2>1 DEF IInv, TypeOK
  <2>3. /\ Phase \in [Months -> {"NONE", "OPEN", "CLOSED"}]
        /\ Base \in [Months -> Int]
        /\ Revision \in [Months -> Nat]
    BY <2>2 DEF Phase, Base, Revision, Row
  <2>4. \A m \in Months :
          /\ Phase[m] = "NONE" <=> Revision[m] = 0
          /\ Phase[m] # "NONE" => m <= now
          /\ Phase[m] = "CLOSED" => m < now
    BY <2>2 DEF Phase, Revision, PeriodsInTime, Row
  <2> QED BY <2>1, <2>3, <2>4
      DEF Lifecycle!Init, Lifecycle!Phases, Phase, Base, Revision
<1>2. IInv /\ [Next]_vars => [Lifecycle!Next]_(Lifecycle!vars)
  <2> SUFFICES ASSUME IInv, [Next]_vars
               PROVE  Lifecycle!Next \/ UNCHANGED Lifecycle!vars
    OBVIOUS
  <2>1. UNCHANGED <<now, row>> => UNCHANGED Lifecycle!vars
    BY DEF Lifecycle!vars
  <2>2. CASE Rollover
    BY <2>2 DEF Rollover, Lifecycle!Next, Lifecycle!Tick
  <2>3. CASE ChangeFixed \/ UNCHANGED vars
    BY <2>1, <2>3 DEF ChangeFixed, vars
  <2>4. ASSUME NEW w \in Workers, Start(w) \/ Continue(w) \/ Crash(w)
        PROVE  Lifecycle!Next \/ UNCHANGED Lifecycle!vars
    BY <2>1, <2>4, RequestRefines
  <2> QED BY <2>2, <2>3, <2>4 DEF Next
<1> QED BY <1>1, <1>2, RequestsInOrder, PTL DEF Spec, LifecycleSpec, Lifecycle!Spec
=============================================================================
