------------------------- MODULE BudgetChainProofs -------------------------
(***************************************************************************)
(* Proofs about the chain of budget periods: when its rows agree with the  *)
(* operations they are derived from and with the row before them.          *)
(*                                                                         *)
(* Neither SettledChain nor ClosedRowAdds holds of every behaviour of Spec *)
(* (a correction may race a request that opens or closes a period), so the *)
(* theorems below say under which conditions they do. The last part is     *)
(* about the forecast, which replays the chain without writing it, and the *)
(* summary, which writes it: they leave the same carry.                    *)
(***************************************************************************)
EXTENDS BudgetPeriodsProofs, BudgetPreview, WellFoundedInduction

(* ---------------------------------------------------------------------- *)
(* Facts and rows.                                                         *)

\* No operation precedes an earlier month either.
LEMMA NothingBeforeEarlier ==
  ASSUME TypeOK, NEW m \in Months, NEW k \in Months, k <= m, NothingBefore(m)
  PROVE  NothingBefore(k)
<1> SUFFICES ASSUME NEW o \in OpIds, ops[o] \in Operation PROVE k <= ops[o].month
  BY DEF NothingBefore
<1>1. m <= ops[o].month /\ ops[o].month \in Months
  BY DEF NothingBefore, Operation
<1> QED BY <1>1 DEF Months

\* A month with an operation before it has a month before it.
LEMMA OriginHasBelow ==
  ASSUME TypeOK, NEW m \in Months, ~NothingBefore(m)
  PROVE  m - 1 \in Months
<1>1. PICK o \in OpIds : ops[o] \in Operation /\ ~(m <= ops[o].month)
  BY DEF NothingBefore
<1>2. ops[o].month \in Months
  BY <1>1 DEF Operation
<1> QED BY <1>1, <1>2, MonthsAssumption DEF Months

\* While the operations stay, so do the totals and the origin of the chain.
LEMMA SameFacts ==
  ASSUME ops' = ops, NEW m
  PROVE  /\ Income(m)' = Income(m) /\ Expense(m)' = Expense(m)
         /\ NothingBefore(m)' <=> NothingBefore(m)
BY DEF Income, Expense, OpsIn, NothingBefore

\* A recomputed row is one whose totals are those of the operations.
LEMMA RecomputedFields ==
  ASSUME NEW r \in Row, NEW m
  PROVE  r = Recomputed(r, m, r.carry) <=>
           /\ r.income = Income(m) /\ r.expense = Expense(m)
           /\ r.remaining = r.base + Income(m) - Expense(m) + r.carry
BY DEF Recomputed, Row

\* A row is what its seven fields are.
LEMMA SameRow ==
  ASSUME NEW r \in Row, NEW s \in Row,
         r.status = s.status, r.base = s.base, r.carry = s.carry,
         r.income = s.income, r.expense = s.expense,
         r.remaining = s.remaining, r.revision = s.revision
  PROVE  r = s
BY DEF Row

\* What AgreesWithFacts says of a row, field by field.
LEMMA AgreesFields ==
  ASSUME TypeOK, NEW m \in Months, row[m] # NoRow
  PROVE  AgreesWithFacts(m) <=>
           /\ NothingBefore(m) => row[m].carry = 0
           /\ ~NothingBefore(m) =>
                /\ row[m - 1] # NoRow
                /\ row[m - 1].status = "CLOSED"
                /\ row[m].carry = row[m - 1].remaining
           /\ row[m].status = "CLOSED" =>
                /\ row[m].income = Income(m) /\ row[m].expense = Expense(m)
                /\ row[m].remaining =
                     row[m].base + Income(m) - Expense(m) + row[m].carry
<1>1. row[m] \in Row
  BY DEF TypeOK
<1> QED BY <1>1, RecomputedFields DEF AgreesWithFacts

\* A row agrees as long as the row, the one before it and the facts about its
\* month stay.
LEMMA AgreesFrame ==
  ASSUME TypeOK, TypeOK', NEW m \in Months, AgreesWithFacts(m),
         row'[m] = row[m], m - 1 \in Months => row'[m - 1] = row[m - 1],
         NothingBefore(m)' <=> NothingBefore(m),
         row[m] # NoRow /\ row[m].status = "CLOSED" =>
           Income(m)' = Income(m) /\ Expense(m)' = Expense(m)
  PROVE  AgreesWithFacts(m)'
<1>1. CASE row[m] = NoRow
  BY <1>1 DEF AgreesWithFacts
<1>2. CASE row[m] # NoRow
  <2>1. ~NothingBefore(m) => m - 1 \in Months
    BY OriginHasBelow
  <2>2. row'[m] \in Row /\ row[m] \in Row
    BY <1>2 DEF TypeOK
  <2>3. row[m].status = "CLOSED" => row[m] = Recomputed(row[m], m, row[m].carry)'
    BY <1>2, <2>2 DEF AgreesWithFacts, Recomputed
  <2> QED BY <1>2, <2>1, <2>3 DEF AgreesWithFacts
<1> QED BY <1>1, <1>2

\* The same of the state after a step.
LEMMA AgreesFieldsNext ==
  ASSUME TypeOK', NEW m \in Months, row'[m] # NoRow
  PROVE  AgreesWithFacts(m)' <=>
           /\ NothingBefore(m)' => row'[m].carry = 0
           /\ ~NothingBefore(m)' =>
                /\ row'[m - 1] # NoRow
                /\ row'[m - 1].status = "CLOSED"
                /\ row'[m].carry = row'[m - 1].remaining
           /\ row'[m].status = "CLOSED" =>
                /\ row'[m].income = Income(m)' /\ row'[m].expense = Expense(m)'
                /\ row'[m].remaining =
                     row'[m].base + Income(m)' - Expense(m)' + row'[m].carry
<1>1. row'[m] \in Row
  BY DEF TypeOK
<1>2. row'[m] = Recomputed(row[m], m, row[m].carry)' <=>
           /\ row'[m].income = Income(m)' /\ row'[m].expense = Expense(m)'
           /\ row'[m].remaining =
                row'[m].base + Income(m)' - Expense(m)' + row'[m].carry
  BY <1>1 DEF Recomputed, Row
<1> QED BY <1>2 DEF AgreesWithFacts

(* ---------------------------------------------------------------------- *)
(* What a walk knows.                                                      *)

\* `r' is what previousClosed returns for month `m': the closed row below, or
\* none at the origin of the chain.
KnowsPrevious(m, r) ==
  IF NothingBefore(m)
  THEN r = NoRow
  ELSE row[m - 1] # NoRow /\ row[m - 1].status = "CLOSED" /\ r = row[m - 1]

\* A request that walks only opens and closes months after the origin of the
\* chain, from the row below as it is, with the totals of the moment; it
\* refreshes only the month it takes for the current one.
WalkKnows(w) ==
  /\ pc[w] \in Walking /\ cursor[w] < top[w] => ~NothingBefore(cursor[w] + 1)
  /\ pc[w] = "open" => KnowsPrevious(cursor[w], prev[w])
  /\ pc[w] \in {"apply", "write"} => KnowsPrevious(top[w], prev[w])
  /\ pc[w] = "closeWrite" =>
       held[w] = Recomputed(row[cursor[w]], cursor[w], row[cursor[w]].carry)
  /\ pc[w] = "refresh" => cursor[w] = today[w]

\* What is known of the row below stays true while the origin and the closed
\* rows stay.
LEMMA KnowsPreviousStays ==
  ASSUME TypeOK, NEW m \in Months, NEW r, KnowsPrevious(m, r),
         NothingBefore(m)' <=> NothingBefore(m),
         m - 1 \in Months /\ row[m - 1] # NoRow /\ row[m - 1].status = "CLOSED"
           => row'[m - 1] = row[m - 1]
  PROVE  KnowsPrevious(m, r)'
BY OriginHasBelow DEF KnowsPrevious

\* A row written with the carry of the row below agrees, if its totals do.
LEMMA WrittenAgrees ==
  ASSUME TypeOK, TypeOK', ops' = ops, NEW m \in Months, NEW p, KnowsPrevious(m, p),
         m - 1 \in Months => row'[m - 1] = row[m - 1],
         row'[m] # NoRow, row'[m].carry = CarryFrom(p),
         row'[m].status = "CLOSED" =>
           /\ row'[m].income = Income(m) /\ row'[m].expense = Expense(m)
           /\ row'[m].remaining =
                row'[m].base + Income(m) - Expense(m) + row'[m].carry
  PROVE  AgreesWithFacts(m)'
<1>1. /\ Income(m)' = Income(m) /\ Expense(m)' = Expense(m)
      /\ NothingBefore(m)' <=> NothingBefore(m)
  BY SameFacts
<1>2. NothingBefore(m) => row'[m].carry = 0
  BY DEF KnowsPrevious, CarryFrom
<1>3. ~NothingBefore(m) => /\ row'[m - 1] # NoRow
                           /\ row'[m - 1].status = "CLOSED"
                           /\ row'[m].carry = row'[m - 1].remaining
  BY OriginHasBelow DEF KnowsPrevious, CarryFrom
<1> QED BY <1>1, <1>2, <1>3, AgreesFieldsNext

\* Writing a row that was missing or open disturbs no row that agrees.
LEMMA OthersAgree ==
  ASSUME TypeOK, TypeOK', ops' = ops, NEW k \in Months, NEW r,
         row' = [row EXCEPT ![k] = r],
         row[k] = NoRow \/ row[k].status = "OPEN",
         NEW m \in Months, m # k, AgreesWithFacts(m)
  PROVE  AgreesWithFacts(m)'
<1>1. row'[m] = row[m]
  BY DEF TypeOK
<1>2. /\ Income(m)' = Income(m) /\ Expense(m)' = Expense(m)
      /\ NothingBefore(m)' <=> NothingBefore(m)
  BY SameFacts
<1>3. CASE m - 1 # k
  <2>1. m - 1 \in Months => row'[m - 1] = row[m - 1]
    BY <1>3 DEF TypeOK
  <2> QED BY <1>1, <1>2, <2>1, AgreesFrame
<1>4. CASE m - 1 = k
  <2>1. CASE row[m] = NoRow
    BY <1>1, <2>1 DEF AgreesWithFacts
  <2>2. CASE row[m] # NoRow
    <3>1. NothingBefore(m)
      BY <1>4, <2>2, AgreesFields
    <3> QED BY <1>1, <1>2, <2>2, <3>1, AgreesFields, AgreesFieldsNext
  <2> QED BY <2>1, <2>2
<1> QED BY <1>3, <1>4

(* ---------------------------------------------------------------------- *)
(* Every call of a walk keeps what the walk knows and what agrees.         *)

\* The month under the cursor is closed and its row known: the walk steps up.
LEMMA HavePreviousKnows ==
  ASSUME IInv, ops' = ops, NEW w \in Workers, WalkKnows(w), pc[w] \in Resolving,
         NEW r \in Row, row'[cursor[w]] = r, r.status = "CLOSED",
         kind[w] = "summarize" => cursor[w] # top[w],
         HavePrevious(w, cursor[w], r)
  PROVE  WalkKnows(w)'
<1>1. /\ TypeOK /\ RequestsTyped /\ RequestInTime(w) /\ RequestOnPath(w)
      /\ NoRow \notin Row
  BY SentinelAssumption DEF IInv, TypeOK, RequestsTyped
<1>2. PICK c \in Months : c = cursor[w]
  BY <1>1 DEF RequestsTyped
<1>3. /\ c < top[w] /\ top[w] \in Months /\ ~NothingBefore(c + 1)
  BY <1>1, <1>2
  DEF RequestInTime, RequestOnPath, WalkKnows, Walking, RequestsTyped, Months
<1>4. PICK d \in Months : d = c + 1
  BY <1>3, MonthsAssumption DEF Months
<1>5. /\ pc'[w] = IF kind[w] # "summarize" /\ d = top[w] THEN "apply" ELSE "open"
      /\ cursor'[w] = d /\ prev'[w] = r /\ top' = top
  BY <1>1, <1>2, <1>4 DEF HavePrevious, Goto, RequestsTyped, request
<1>6. ~NothingBefore(d) /\ ~NothingBefore(d)'
  BY <1>3, <1>4, SameFacts
<1>7. row'[d - 1] = r /\ r # NoRow
  BY <1>1, <1>2, <1>4 DEF Months
<1>8. d < top[w] => ~NothingBefore(cursor[w] + 1)'
  <2> SUFFICES ASSUME d < top[w] PROVE ~NothingBefore(cursor[w] + 1)'
    OBVIOUS
  <2>1. PICK e \in Months : e = d + 1
    BY <1>3, MonthsAssumption DEF Months
  <2>2. d <= e
    BY <2>1 DEF Months
  <2>3. ~NothingBefore(e)'
    BY <1>1, <1>6, <2>2, NothingBeforeEarlier, SameFacts
  <2>4. cursor'[w] + 1 = e
    BY <1>5, <2>1
  <2> QED BY <2>3, <2>4 DEF NothingBefore
<1>9. /\ cursor'[w] = d => KnowsPrevious(cursor[w], prev[w])'
      /\ top'[w] = d => KnowsPrevious(top[w], prev[w])'
  BY <1>5, <1>6, <1>7 DEF KnowsPrevious, NothingBefore
<1> QED BY <1>5, <1>8, <1>9 DEF WalkKnows

\* The month under the cursor is resolved.
LEMMA ResolvedKnows ==
  ASSUME IInv, ops' = ops, NEW w \in Workers, WalkKnows(w), pc[w] \in Resolving,
         NEW r \in Row, row'[cursor[w]] = r, Resolved(w, r)
  PROVE  WalkKnows(w)'
<1>1. RequestsTyped /\ RequestOnPath(w)
  BY DEF IInv, TypeOK, RequestsTyped
<1>2. ASSUME Goto(w, "closeRead"), UNCHANGED <<request, cursor, prev, held, tries>>
      PROVE  WalkKnows(w)'
  <2>1. /\ pc'[w] = "closeRead" /\ cursor'[w] = cursor[w] /\ top'[w] = top[w]
    BY <1>1, <1>2 DEF Goto, RequestsTyped, request
  <2>2. cursor[w] < top[w] => ~NothingBefore(cursor[w] + 1)'
    BY <2>1 DEF WalkKnows, Walking, NothingBefore
  <2> QED BY <2>1, <2>2 DEF WalkKnows
<1>3. ASSUME Done(w) PROVE WalkKnows(w)'
  BY <1>1, <1>3 DEF Done, Goto, RequestsTyped, WalkKnows, Walking, Resolving
<1>4. ASSUME ~(kind[w] = "summarize" /\ cursor[w] = top[w]), r.status = "CLOSED",
             HavePrevious(w, cursor[w], r)
      PROVE  WalkKnows(w)'
  BY <1>4, HavePreviousKnows
<1> QED BY <1>2, <1>3, <1>4 DEF Resolved

\* A step leaves the operations alone, every row that agrees agreeing, and
\* every row but the one of month `k', which may be missing or open, as it is.
ChainKept(k) ==
  /\ ops' = ops
  /\ \A m \in Months : AgreesWithFacts(m) => AgreesWithFacts(m)'
  /\ \A m \in Months : m # k => row'[m] = row[m]
  /\ row[k] # NoRow /\ row[k].status = "CLOSED" => row'[k] = row[k]

\* A step that touches neither operations nor rows.
LEMMA SameChain ==
  ASSUME TypeOK, TypeOK', UNCHANGED <<ops, row>>, NEW k
  PROVE  ChainKept(k)
<1>1. ASSUME NEW m \in Months, AgreesWithFacts(m) PROVE AgreesWithFacts(m)'
  BY <1>1, SameFacts, AgreesFrame
<1> QED BY <1>1 DEF ChainKept

\* The call of a walk.
WalkCall(w) ==
  \/ FindPeriod(w) \/ RefreshSnapshot(w) \/ FirstActivity(w)
  \/ OpenPeriod(w) \/ CloseRead(w) \/ CloseWrite(w)

LEMMA FindKnows ==
  ASSUME IInv, IInv', NEW w \in Workers, WalkKnows(w), FindPeriod(w)
  PROVE  WalkKnows(w)' /\ ChainKept(cursor[w])
<1>1. /\ RequestsTyped /\ RequestOnPath(w) /\ TypeOK /\ TypeOK'
      /\ pc[w] = "find" /\ UNCHANGED <<ops, row>>
  BY DEF IInv, TypeOK, RequestsTyped, FindPeriod, db
<1>2. ASSUME pc'[w] \in {"origin", "refresh"}, UNCHANGED <<request, cursor>>,
             pc'[w] = "refresh" => cursor[w] = today[w]
      PROVE  WalkKnows(w)'
  <2>1. cursor[w] < top[w] => ~NothingBefore(cursor[w] + 1)'
    BY <1>1, <1>2 DEF WalkKnows, Walking, Resolving, NothingBefore
  <2> QED BY <1>2, <2>1 DEF WalkKnows, request
<1>3. WalkKnows(w)'
  <2>1. CASE row[cursor[w]] = NoRow
    BY <1>1, <1>2, <2>1 DEF FindPeriod, Goto, RequestsTyped
  <2>2. CASE /\ row[cursor[w]] # NoRow
             /\ Resolved(w, row[cursor[w]])
    <3>1. row[cursor[w]] \in Row
      BY <1>1, <2>2 DEF TypeOK
    <3> QED BY <1>1, <2>2, <3>1, ResolvedKnows DEF Resolving
  <2>3. CASE /\ cursor[w] = today[w]
             /\ Goto(w, "refresh")
             /\ UNCHANGED <<request, cursor, prev, tries>>
    BY <1>1, <1>2, <2>3 DEF Goto, RequestsTyped
  <2> QED BY <2>1, <2>2, <2>3 DEF FindPeriod
<1> QED BY <1>1, <1>3, SameChain

LEMMA FirstActivityKnows ==
  ASSUME IInv, IInv', NEW w \in Workers, WalkKnows(w), FirstActivity(w)
  PROVE  WalkKnows(w)' /\ ChainKept(cursor[w])
<1>1. /\ RequestsTyped /\ RequestInTime(w) /\ TypeOK /\ TypeOK'
      /\ pc[w] = "origin" /\ UNCHANGED <<ops, row>>
  BY DEF IInv, TypeOK, RequestsTyped, FirstActivity, db
<1>2. cursor[w] <= top[w] /\ cursor[w] \in Months /\ top[w] \in Months
  BY <1>1 DEF RequestInTime, Walking, RequestsTyped
<1>3. ASSUME NothingBefore(cursor[w]) PROVE WalkKnows(w)'
  <2>1. /\ pc'[w] = IF kind[w] # "summarize" /\ cursor[w] = top[w]
                    THEN "apply" ELSE "open"
        /\ cursor'[w] = cursor[w] /\ top'[w] = top[w] /\ prev'[w] = NoRow
    BY <1>1, <1>3 DEF FirstActivity, Goto, RequestsTyped, request
  <2>2. cursor[w] < top[w] => ~NothingBefore(cursor[w] + 1)'
    BY <1>1, <2>1 DEF WalkKnows, Walking, NothingBefore
  <2>3. /\ KnowsPrevious(cursor[w], prev[w])'
        /\ cursor[w] = top[w] => KnowsPrevious(top[w], prev[w])'
    BY <1>1, <1>3, <2>1 DEF KnowsPrevious, NothingBefore
  <2> QED BY <2>1, <2>2, <2>3 DEF WalkKnows
<1>4. ASSUME ~NothingBefore(cursor[w]) PROVE WalkKnows(w)'
  <2>1. pc'[w] = "find" /\ cursor'[w] = cursor[w] - 1 /\ top'[w] = top[w]
    BY <1>1, <1>4 DEF FirstActivity, Goto, RequestsTyped, request
  <2>2. ~NothingBefore(cursor[w] + 1)'
    <3>1. cursor'[w] + 1 = cursor[w]
      BY <1>2, <2>1 DEF Months
    <3> QED BY <1>1, <1>4, <3>1 DEF NothingBefore
  <2> QED BY <2>1, <2>2 DEF WalkKnows
<1> QED BY <1>1, <1>3, <1>4, SameChain

\* Refreshing an open row changes neither its carry nor its status.
LEMMA RefreshKnows ==
  ASSUME IInv, IInv', NEW w \in Workers, WalkKnows(w), RefreshSnapshot(w)
  PROVE  WalkKnows(w)' /\ ChainKept(cursor[w])
<1>1. /\ RequestsTyped /\ RequestOnPath(w) /\ TypeOK /\ TypeOK' /\ NoRow \notin Row
      /\ pc[w] = "refresh" /\ ops' = ops
  BY SentinelAssumption DEF IInv, TypeOK, RequestsTyped, RefreshSnapshot
<1>2. PICK c \in Months : c = cursor[w]
  BY <1>1 DEF RequestsTyped
<1>3. row[c] \in Row /\ held[w] \in Row
  BY <1>1, <1>2 DEF RequestOnPath, TypeOK
<1>4. ASSUME row[c].status # "OPEN", Fail(w), UNCHANGED row
      PROVE  WalkKnows(w)' /\ ChainKept(cursor[w])
  <2>1. WalkKnows(w)'
    BY <1>1, <1>4 DEF Fail, Done, Goto, RequestsTyped, WalkKnows, Walking, Resolving
  <2> QED BY <1>1, <1>4, <2>1, SameChain
<1>5. ASSUME row[c].status = "OPEN",
             NEW r, r = [row[c] EXCEPT !.base = held[w].base,
                                       !.revision = row[c].revision + 1],
             row' = [row EXCEPT ![c] = r], Resolved(w, r)
      PROVE  WalkKnows(w)' /\ ChainKept(cursor[w])
  <2> DEFINE a == [row[c] EXCEPT !.base = held[w].base]
  <2>1. r = [a EXCEPT !.revision = row[c].revision + 1]
    BY <1>5
  <2>2. a \in Row /\ a.status = "OPEN" /\ a.carry = row[c].carry
    BY <1>3, <1>5 DEF Row
  <2> HIDE DEF a
  <2>3. r \in Row /\ r.status = "OPEN" /\ r.carry = row[c].carry
    BY <1>3, <2>1, <2>2 DEF Row
  <2>4. /\ row'[c] = r
        /\ \A m \in Months : m # c => row'[m] = row[m]
    BY <1>1, <1>5 DEF TypeOK
  <2>5. WalkKnows(w)'
    BY <1>1, <1>2, <1>5, <2>3, <2>4, ResolvedKnows DEF Resolving
  <2>6. ASSUME AgreesWithFacts(c) PROVE AgreesWithFacts(c)'
    <3>1. ~NothingBefore(c) => c - 1 \in Months /\ row'[c - 1] = row[c - 1]
      BY <1>1, <2>4, OriginHasBelow DEF Months
    <3>2. row[c] # NoRow /\ row'[c] # NoRow
      BY <1>1, <1>3, <2>3, <2>4
    <3> QED BY <1>1, <2>3, <2>4, <2>6, <3>1, <3>2, SameFacts, AgreesFields,
               AgreesFieldsNext
  <2>7. \A m \in Months : m # c /\ AgreesWithFacts(m) => AgreesWithFacts(m)'
    BY <1>1, <1>5, OthersAgree
  <2> QED BY <1>1, <1>2, <1>5, <2>4, <2>5, <2>6, <2>7 DEF ChainKept
<1> QED BY <1>2, <1>4, <1>5 DEF RefreshSnapshot

\* A missing row is opened with the balance of the row below.
LEMMA OpenKnows ==
  ASSUME IInv, IInv', NEW w \in Workers, WalkKnows(w), OpenPeriod(w)
  PROVE  WalkKnows(w)' /\ ChainKept(cursor[w])
<1>1. /\ RequestsTyped /\ TypeOK /\ TypeOK' /\ NoRow \notin Row
      /\ pc[w] = "open" /\ ops' = ops
  BY SentinelAssumption DEF IInv, TypeOK, RequestsTyped, OpenPeriod
<1>2. PICK c \in Months : c = cursor[w]
  BY <1>1 DEF RequestsTyped
<1>3. ASSUME row[c] # NoRow, UNCHANGED row, Fail(w) \/ Resolved(w, row[c])
      PROVE  WalkKnows(w)' /\ ChainKept(cursor[w])
  <2>1. ASSUME Fail(w) PROVE WalkKnows(w)'
    BY <1>1, <2>1 DEF Fail, Done, Goto, RequestsTyped, WalkKnows, Walking, Resolving
  <2>2. ASSUME Resolved(w, row[c]) PROVE WalkKnows(w)'
    <3>1. row[c] \in Row
      BY <1>1, <1>3 DEF TypeOK
    <3> QED BY <1>1, <1>2, <1>3, <2>2, <3>1, ResolvedKnows DEF Resolving
  <2> QED BY <1>1, <1>3, <2>1, <2>2, SameChain
<1>4. ASSUME row[c] = NoRow,
             NEW r, r = OpenRow(OpeningBase(w), CarryFrom(prev[w])),
             row' = [row EXCEPT ![c] = r], Resolved(w, r)
      PROVE  WalkKnows(w)' /\ ChainKept(cursor[w])
  <2>1. CarryFrom(prev[w]) \in Int /\ OpeningBase(w) \in Int
    BY <1>1, <1>2 DEF CarryFrom, OpeningBase, TypeOK, Row
  <2>2. r \in Row /\ r.status = "OPEN" /\ r.carry = CarryFrom(prev[w])
    BY <1>4, <2>1, OpenRowType DEF OpenRow
  <2>3. /\ row'[c] = r
        /\ \A m \in Months : m # c => row'[m] = row[m]
    BY <1>1, <1>4 DEF TypeOK
  <2>4. WalkKnows(w)'
    BY <1>1, <1>2, <1>4, <2>2, <2>3, ResolvedKnows DEF Resolving
  <2>5. AgreesWithFacts(c)'
    <3>1. PICK p : p = prev[w]
      OBVIOUS
    <3>2. KnowsPrevious(c, p)
      BY <1>1, <1>2, <3>1 DEF WalkKnows
    <3>3. c - 1 \in Months => row'[c - 1] = row[c - 1]
      BY <2>3 DEF Months
    <3> QED BY <1>1, <2>2, <2>3, <3>1, <3>2, <3>3, WrittenAgrees
  <2>6. \A m \in Months : m # c /\ AgreesWithFacts(m) => AgreesWithFacts(m)'
    BY <1>1, <1>4, OthersAgree
  <2> QED BY <1>1, <1>2, <1>4, <2>3, <2>4, <2>5, <2>6 DEF ChainKept
<1>5. CASE row[c] = NoRow
  BY <1>2, <1>4, <1>5 DEF OpenPeriod
<1>6. CASE row[c] # NoRow
  <2>1. (row' = [row EXCEPT ![c] = row[c]] /\ Resolved(w, row[c])) \/ (Fail(w) /\ UNCHANGED row)
    BY <1>2, <1>6 DEF OpenPeriod
  <2>2. UNCHANGED row
    BY <1>1, <2>1 DEF TypeOK
  <2> QED BY <1>3, <1>6, <2>1, <2>2
<1> QED BY <1>5, <1>6

\* What follows close.
LEMMA ClosedKnows ==
  ASSUME IInv, ops' = ops, NEW w \in Workers, WalkKnows(w), pc[w] \in Resolving,
         NEW r \in Row, row'[cursor[w]] = r, r.status = "CLOSED", Closed(w, r)
  PROVE  WalkKnows(w)'
<1>1. RequestsTyped
  BY DEF IInv, TypeOK, RequestsTyped
<1>2. ASSUME Done(w) PROVE WalkKnows(w)'
  BY <1>1, <1>2 DEF Done, Goto, RequestsTyped, WalkKnows, Walking, Resolving
<1> QED BY <1>2, HavePreviousKnows DEF Closed

LEMMA CloseReadKnows ==
  ASSUME IInv, IInv', NEW w \in Workers, WalkKnows(w), CloseRead(w)
  PROVE  WalkKnows(w)' /\ ChainKept(cursor[w])
<1>1. /\ RequestsTyped /\ RequestOnPath(w) /\ TypeOK /\ TypeOK'
      /\ pc[w] = "closeRead" /\ UNCHANGED <<ops, row>>
  BY DEF IInv, TypeOK, RequestsTyped, CloseRead
<1>2. row[cursor[w]] \in Row
  BY <1>1 DEF RequestOnPath, TypeOK
<1>3. ASSUME row[cursor[w]].status = "CLOSED", Closed(w, row[cursor[w]])
      PROVE  WalkKnows(w)'
  BY <1>1, <1>2, <1>3, ClosedKnows DEF Resolving
<1>4. ASSUME held' = [held EXCEPT
                        ![w] = Recomputed(row[cursor[w]], cursor[w], row[cursor[w]].carry)],
             Goto(w, "closeWrite"), UNCHANGED <<request, cursor, prev, tries>>
      PROVE  WalkKnows(w)'
  <2>1. /\ pc'[w] = "closeWrite" /\ cursor'[w] = cursor[w] /\ top'[w] = top[w]
        /\ held'[w] = Recomputed(row[cursor[w]], cursor[w], row[cursor[w]].carry)
    BY <1>1, <1>4 DEF Goto, RequestsTyped, request
  <2>2. cursor[w] < top[w] => ~NothingBefore(cursor[w] + 1)'
    BY <1>1, <2>1 DEF WalkKnows, Walking, Resolving, NothingBefore
  <2>3. held'[w] = Recomputed(row[cursor[w]], cursor[w], row[cursor[w]].carry)'
    BY <1>1, <2>1 DEF Recomputed, Income, Expense, OpsIn
  <2> QED BY <2>1, <2>2, <2>3 DEF WalkKnows
<1> QED BY <1>1, <1>3, <1>4, SameChain DEF CloseRead

\* A closing that finds the row it read leaves a row that agrees if it did.
LEMMA CloseWriteKnows ==
  ASSUME IInv, IInv', NEW w \in Workers, WalkKnows(w), CloseWrite(w)
  PROVE  WalkKnows(w)' /\ ChainKept(cursor[w])
<1>1. /\ RequestsTyped /\ RequestOnPath(w) /\ TypeOK /\ TypeOK' /\ NoRow \notin Row
      /\ ClosingIsExclusive /\ pc[w] = "closeWrite" /\ ops' = ops
  BY SentinelAssumption DEF IInv, TypeOK, RequestsTyped, CloseWrite
<1>2. PICK c \in Months : c = cursor[w]
  BY <1>1 DEF RequestsTyped
<1>3. row[c] \in Row /\ held[w] \in Row /\ row[c].status = "OPEN"
  BY <1>1, <1>2 DEF RequestOnPath, TypeOK, ClosingIsExclusive
<1>4. PICK r : /\ r = [WithTotals(row[c], held[w]) EXCEPT !.status = "CLOSED"]
               /\ row' = [row EXCEPT ![c] = r]
               /\ Closed(w, r)
  BY <1>1, <1>2 DEF CloseWrite
<1>5. /\ WithTotals(row[c], held[w]) \in Row
      /\ WithTotals(row[c], held[w]).base = row[c].base
      /\ WithTotals(row[c], held[w]).carry = row[c].carry
      /\ WithTotals(row[c], held[w]).income = held[w].income
      /\ WithTotals(row[c], held[w]).expense = held[w].expense
      /\ WithTotals(row[c], held[w]).remaining = held[w].remaining
  BY <1>3, WithTotalsType DEF WithTotals, Row
<1>6. /\ r \in Row /\ r.status = "CLOSED" /\ r.base = row[c].base
      /\ r.carry = row[c].carry /\ r.income = held[w].income
      /\ r.expense = held[w].expense /\ r.remaining = held[w].remaining
  <2> DEFINE t == WithTotals(row[c], held[w])
  <2>1. t \in Row /\ r = [t EXCEPT !.status = "CLOSED"]
    BY <1>4, <1>5
  <2> HIDE DEF t
  <2>2. /\ r \in Row /\ r.status = "CLOSED" /\ r.base = t.base /\ r.carry = t.carry
        /\ r.income = t.income /\ r.expense = t.expense /\ r.remaining = t.remaining
    BY <2>1 DEF Row
  <2> QED BY <1>5, <2>2 DEF t
<1>7. /\ row'[c] = r
      /\ \A m \in Months : m # c => row'[m] = row[m]
  BY <1>1, <1>4 DEF TypeOK
<1>8. WalkKnows(w)'
  BY <1>1, <1>2, <1>4, <1>6, <1>7, ClosedKnows DEF Resolving
<1>9. /\ held[w].income = Income(c) /\ held[w].expense = Expense(c)
      /\ held[w].remaining = row[c].base + Income(c) - Expense(c) + row[c].carry
  BY <1>1, <1>2, <1>3 DEF WalkKnows, Recomputed, Row
<1>10. ASSUME AgreesWithFacts(c) PROVE AgreesWithFacts(c)'
  <2>1. ~NothingBefore(c) => c - 1 \in Months /\ row'[c - 1] = row[c - 1]
    BY <1>1, <1>7, OriginHasBelow DEF Months
  <2>2. row[c] # NoRow /\ row'[c] # NoRow
    BY <1>1, <1>3, <1>6, <1>7
  <2> QED BY <1>1, <1>6, <1>7, <1>9, <1>10, <2>1, <2>2, SameFacts, AgreesFields,
             AgreesFieldsNext
<1>11. \A m \in Months : m # c /\ AgreesWithFacts(m) => AgreesWithFacts(m)'
  BY <1>1, <1>3, <1>4, OthersAgree
<1> QED BY <1>1, <1>2, <1>3, <1>7, <1>8, <1>10, <1>11 DEF ChainKept

\* Every call of a walk.
LEMMA WalkStep ==
  ASSUME IInv, IInv', NEW w \in Workers, WalkKnows(w), WalkCall(w)
  PROVE  WalkKnows(w)' /\ ChainKept(cursor[w])
BY FindKnows, RefreshKnows, FirstActivityKnows, OpenKnows, CloseReadKnows,
   CloseWriteKnows DEF WalkCall

(* ---------------------------------------------------------------------- *)
(* Behaviours start from a chain that agrees.                              *)

\* The operations of kind `t' before month `m', and the months before `m' that
\* have a balance to hand on.
Recorded(m, t) == {o \in OpIds : \E k \in Months : k < m /\ o \in OpsIn(k, t)}
HandedOn(m) == {k \in Months : k < m /\ ~NothingBefore(k + 1)}

\* One month further, its operations are recorded too.
LEMMA RecordedNext ==
  ASSUME TypeOK, NEW m \in Months, NEW c \in Months, c = m - 1, NEW t
  PROVE  /\ Cardinality(Recorded(m, t)) \in Nat
         /\ Cardinality(Recorded(m, t)) =
              Cardinality(Recorded(c, t)) + Cardinality(OpsIn(c, t))
<1>1. Recorded(m, t) = Recorded(c, t) \cup OpsIn(c, t)
  <2>1. \A k \in Months : k < m <=> k < c \/ k = c
    BY DEF Months
  <2>2. \A o : o \in OpsIn(c, t) => o \in OpIds
    BY DEF OpsIn
  <2> QED BY <2>1, <2>2 DEF Recorded
<1>2. Recorded(c, t) \cap OpsIn(c, t) = {}
  <2> SUFFICES ASSUME NEW o \in OpIds, NEW k \in Months, k < c,
                      ops[o] = [month |-> k, kind |-> t],
                      ops[o] = [month |-> c, kind |-> t]
               PROVE  FALSE
    BY DEF Recorded, OpsIn
  <2>1. k = c
    OBVIOUS
  <2> QED BY <2>1 DEF Months
<1>3. Recorded(c, t) \subseteq OpIds /\ OpsIn(c, t) \subseteq OpIds
  BY DEF Recorded, OpsIn
<1>4. IsFiniteSet(Recorded(c, t)) /\ IsFiniteSet(OpsIn(c, t))
  BY <1>3, OpsAssumption, FS_Subset
<1>5. /\ IsFiniteSet(Recorded(c, t) \cup OpsIn(c, t))
      /\ Cardinality(Recorded(c, t) \cup OpsIn(c, t)) =
           Cardinality(Recorded(c, t)) + Cardinality(OpsIn(c, t))
             - Cardinality(Recorded(c, t) \cap OpsIn(c, t))
  BY <1>4, FS_Union
<1>6. Cardinality({}) = 0
  BY FS_EmptySet
<1>7. /\ Cardinality(Recorded(c, t)) \in Nat /\ Cardinality(OpsIn(c, t)) \in Nat
      /\ Cardinality(Recorded(m, t)) \in Nat
  BY <1>1, <1>4, <1>5, FS_CardinalityType
<1>8. Cardinality(Recorded(c, t) \cap OpsIn(c, t)) = 0
  BY <1>2, <1>6
<1> HIDE DEF Recorded
<1>9. Cardinality(Recorded(m, t)) = Cardinality(Recorded(c, t) \cup OpsIn(c, t))
  BY <1>1
<1> QED BY <1>5, <1>7, <1>8, <1>9

\* One month further, the month before has a balance to hand on.
LEMMA HandedOnNext ==
  ASSUME TypeOK, NEW m \in Months, NEW c \in Months, c = m - 1, ~NothingBefore(m)
  PROVE  /\ Cardinality(HandedOn(c)) \in Nat
         /\ Cardinality(HandedOn(m)) = Cardinality(HandedOn(c)) + 1
<1>1. HandedOn(m) = HandedOn(c) \cup {c}
  <2>1. \A k \in Months : k < m <=> k < c \/ k = c
    BY DEF Months
  <2>2. ~NothingBefore(c + 1)
    <3>1. c + 1 = m
      BY DEF Months
    <3> QED BY <3>1
  <2> QED BY <2>1, <2>2 DEF HandedOn
<1>2. c \notin HandedOn(c)
  BY DEF HandedOn, Months
<1>3. IsFiniteSet(HandedOn(c))
  <2>1. IsFiniteSet(Months)
    BY MonthsAssumption, FS_Interval DEF Months
  <2>2. HandedOn(c) \subseteq Months
    BY DEF HandedOn
  <2> QED BY <2>1, <2>2, FS_Subset
<1> QED BY <1>1, <1>2, <1>3, FS_AddElement, FS_CardinalityType

\* At the origin nothing was recorded and nothing is handed on.
LEMMA NothingRecorded ==
  ASSUME TypeOK, NEW m \in Months, NothingBefore(m), NEW t \in Kinds
  PROVE  Recorded(m, t) = {} /\ HandedOn(m) = {}
<1>1. ASSUME NEW o \in OpIds, NEW k \in Months, k < m, o \in OpsIn(k, t) PROVE FALSE
  <2>1. ops[o] = [month |-> k, kind |-> t] /\ ops[o] \in [month : Months, kind : Kinds]
    BY <1>1 DEF OpsIn
  <2>2. ops[o] \in Operation
    BY <2>1, SentinelAssumption DEF TypeOK
  <2> QED BY <1>1, <2>1, <2>2 DEF NothingBefore, Months
<1>2. ASSUME NEW k \in Months, k < m, ~NothingBefore(k + 1) PROVE FALSE
  <2>1. k + 1 \in Months /\ k + 1 <= m
    BY <1>2, MonthsAssumption DEF Months
  <2> QED BY <1>2, <2>1, NothingBeforeEarlier
<1> QED BY <1>1, <1>2 DEF Recorded, HandedOn

\* What a seeded row holds.
LEMMA SeedRowFields ==
  ASSUME TypeOK, NEW m \in Months, NEW b \in Int
  PROVE  /\ SeedRow(m, b).carry = SeedCarry(m, b)
         /\ SeedCarry(m, b) \in Int
         /\ m < now =>
              /\ SeedRow(m, b).income = Income(m) /\ SeedRow(m, b).expense = Expense(m)
              /\ SeedRow(m, b).remaining =
                   b + Income(m) - Expense(m) + SeedCarry(m, b)
<1> DEFINE r == OpenRow(b, SeedCarry(m, b))
           c == Recomputed(r, m, r.carry)
           closed == [c EXCEPT !.status = "CLOSED"]
<1>1. SeedRow(m, b) \in Row /\ now \in Months
  BY SeedRowType DEF TypeOK
<1>2. SeedRow(m, b) = IF m < now THEN [closed EXCEPT !.revision = 2] ELSE r
  BY DEF SeedRow
<1>3. r.carry = SeedCarry(m, b) /\ r.base = b
  BY DEF OpenRow
<1>4. /\ c.carry = r.carry /\ c.income = Income(m) /\ c.expense = Expense(m)
      /\ c.remaining = r.base + Income(m) - Expense(m) + r.carry
  BY DEF Recomputed, OpenRow
<1>5. /\ closed.carry = c.carry /\ closed.income = c.income
      /\ closed.expense = c.expense /\ closed.remaining = c.remaining
  BY DEF Recomputed, OpenRow
<1>6. LET seeded == [closed EXCEPT !.revision = 2]
      IN  /\ seeded.carry = c.carry /\ seeded.income = c.income
          /\ seeded.expense = c.expense /\ seeded.remaining = c.remaining
  BY DEF Recomputed, OpenRow
<1> HIDE DEF r, c, closed
<1>7. SeedRow(m, b).carry = SeedCarry(m, b)
  BY <1>2, <1>3, <1>4, <1>6
<1>8. SeedRow(m, b).carry \in Int
  BY <1>1 DEF Row
<1> QED BY <1>2, <1>3, <1>4, <1>6, <1>7, <1>8

\* The seeded carry is the balance of the seeded row below.
LEMMA SeedCarryAgrees ==
  ASSUME TypeOK, NEW m \in Months, m <= now, NEW b \in Int
  PROVE  /\ NothingBefore(m) => SeedCarry(m, b) = 0
         /\ ~NothingBefore(m) => SeedCarry(m, b) = SeedRow(m - 1, b).remaining
<1> DEFINE H(k) == Cardinality(HandedOn(k))
           R(k, t) == Cardinality(Recorded(k, t))
<1>1. \A k : SeedCarry(k, b) = b * H(k) + R(k, "ENTREE") - R(k, "DEPENSE")
  BY DEF SeedCarry, HandedOn, Recorded
<1>2. ASSUME NothingBefore(m) PROVE SeedCarry(m, b) = 0
  <2>1. /\ HandedOn(m) = {} /\ Recorded(m, "ENTREE") = {}
        /\ Recorded(m, "DEPENSE") = {}
    BY <1>2, NothingRecorded DEF Kinds
  <2>2. H(m) = 0 /\ R(m, "ENTREE") = 0 /\ R(m, "DEPENSE") = 0
    BY <2>1, FS_EmptySet
  <2> HIDE DEF H, R
  <2> QED BY <1>1, <2>2
<1>3. ASSUME ~NothingBefore(m) PROVE SeedCarry(m, b) = SeedRow(m - 1, b).remaining
  <2>1. PICK c \in Months : c = m - 1
    BY <1>3, OriginHasBelow
  <2>2. c < now
    BY <2>1 DEF TypeOK, Months
  <2>3. H(c) \in Nat /\ H(m) = H(c) + 1
    BY <1>3, <2>1, HandedOnNext
  <2>4. \A t : /\ R(m, t) \in Nat
               /\ R(m, t) = R(c, t) + Cardinality(OpsIn(c, t))
    BY <2>1, RecordedNext
  <2>5. SeedRow(c, b).remaining = b + Income(c) - Expense(c) + SeedCarry(c, b)
    BY <2>2, SeedRowFields
  <2>6. Income(c) \in Nat /\ Expense(c) \in Nat
    BY TotalsType
  <2>7. /\ R(m, "ENTREE") = R(c, "ENTREE") + Income(c)
        /\ R(m, "DEPENSE") = R(c, "DEPENSE") + Expense(c)
    BY <2>4 DEF Income, Expense
  <2>8. \A t \in Kinds : R(c, t) \in Nat
    <3> SUFFICES ASSUME NEW t \in Kinds PROVE R(c, t) \in Nat
      OBVIOUS
    <3>1. Recorded(c, t) \subseteq OpIds
      BY DEF Recorded
    <3> QED BY <3>1, OpsAssumption, FS_Subset, FS_CardinalityType
  <2> HIDE DEF H, R
  <2>9. R(c, "ENTREE") \in Nat /\ R(c, "DEPENSE") \in Nat
    BY <2>8 DEF Kinds
  <2>10. b * H(m) = b * H(c) + b /\ b * H(c) \in Int
    BY <2>3
  <2>11. SeedCarry(m, b) = b * H(m) + R(m, "ENTREE") - R(m, "DEPENSE")
    BY <1>1
  <2>12. SeedCarry(c, b) = b * H(c) + R(c, "ENTREE") - R(c, "DEPENSE")
    BY <1>1
  <2>13. SeedCarry(m, b) = SeedRow(c, b).remaining
    BY <2>5, <2>6, <2>7, <2>9, <2>10, <2>11, <2>12
  <2> QED BY <2>1, <2>13
<1> QED BY <1>2, <1>3

\* No request has begun, and the chain agrees.
LEMMA InitAgrees ==
  ASSUME Init
  PROVE  /\ \A m \in Months : AgreesWithFacts(m)
         /\ \A w \in Workers : pc[w] = "idle" /\ WalkKnows(w)
<1>1. TypeOK /\ now = StartMonth
  BY InitInv DEF Init, IInv
<1>2. \A w \in Workers : pc[w] = "idle" /\ WalkKnows(w)
  BY DEF Init, WalkKnows, Walking, Resolving
<1>3. PICK b \in BaseValues :
        \/ row = [m \in Months |-> NoRow]
        \/ \E last \in {now - 1, now} :
             row = [m \in Months |-> IF m <= last THEN SeedRow(m, b) ELSE NoRow]
  BY DEF Init
<1>4. b \in Int
  BY BaseAssumption
<1>5. CASE row = [m \in Months |-> NoRow]
  BY <1>2, <1>5 DEF AgreesWithFacts
<1>6. ASSUME NEW last \in {now - 1, now},
             row = [m \in Months |-> IF m <= last THEN SeedRow(m, b) ELSE NoRow],
             NEW m \in Months
      PROVE  AgreesWithFacts(m)
  <2>1. CASE ~(m <= last)
    BY <1>6, <2>1 DEF AgreesWithFacts
  <2>2. CASE m <= last
    <3>1. row[m] = SeedRow(m, b) /\ row[m] \in Row /\ row[m] # NoRow /\ m <= now
      BY <1>1, <1>4, <1>6, <2>2, SeedRowType, SentinelAssumption DEF TypeOK, Months
    <3>2. /\ SeedRow(m, b).status = IF m < now THEN "CLOSED" ELSE "OPEN"
          /\ SeedRow(m, b).base = b
      BY <1>1, <1>4, SeedRowType DEF TypeOK
    <3>3. ~NothingBefore(m) =>
            /\ row[m - 1] # NoRow /\ row[m - 1].status = "CLOSED"
            /\ row[m - 1] = SeedRow(m - 1, b)
      <4> SUFFICES ASSUME ~NothingBefore(m)
                   PROVE  /\ row[m - 1] # NoRow /\ row[m - 1].status = "CLOSED"
                          /\ row[m - 1] = SeedRow(m - 1, b)
        OBVIOUS
      <4>1. PICK c \in Months : c = m - 1
        BY <1>1, OriginHasBelow
      <4>2. c <= last /\ c < now
        BY <1>1, <2>2, <3>1, <4>1 DEF TypeOK, Months
      <4>3. row[c] = SeedRow(c, b)
        BY <1>6, <4>2
      <4>4. SeedRow(c, b) \in Row /\ SeedRow(c, b).status = "CLOSED"
        BY <1>1, <1>4, <4>2, SeedRowType DEF TypeOK
      <4> QED BY <4>1, <4>3, <4>4, SentinelAssumption
    <3>4. /\ NothingBefore(m) => row[m].carry = 0
          /\ ~NothingBefore(m) => row[m].carry = row[m - 1].remaining
      BY <1>1, <1>4, <3>1, <3>3, SeedRowFields, SeedCarryAgrees
    <3>5. row[m].status = "CLOSED" =>
            /\ row[m].income = Income(m) /\ row[m].expense = Expense(m)
            /\ row[m].remaining =
                 row[m].base + Income(m) - Expense(m) + row[m].carry
      BY <1>1, <1>4, <3>1, <3>2, SeedRowFields
    <3> QED BY <1>1, <3>1, <3>3, <3>4, <3>5, AgreesFields
  <2> QED BY <2>1, <2>2
<1> QED BY <1>2, <1>3, <1>5, <1>6

(* ---------------------------------------------------------------------- *)
(* What a step of one request leaves to the others, and a write of an      *)
(* operation to the months before it.                                      *)

Unmoved(v) ==
  /\ pc'[v] = pc[v] /\ kind'[v] = kind[v] /\ op'[v] = op[v]
  /\ today'[v] = today[v] /\ from'[v] = from[v] /\ touched'[v] = touched[v]
  /\ listed'[v] = listed[v] /\ top'[v] = top[v] /\ cursor'[v] = cursor[v]
  /\ prev'[v] = prev[v] /\ held'[v] = held[v]

LEMMA OthersUnmoved ==
  ASSUME IInv, NEW w \in Workers, NEW v \in Workers, v # w,
         Start(w) \/ Continue(w) \/ Crash(w)
  PROVE  Unmoved(v)
<1>1. RequestsTyped
  BY DEF IInv, TypeOK, RequestsTyped
<1>2. ASSUME Done(w) PROVE Unmoved(v)
  BY <1>1, <1>2 DEF Done, Goto, RequestsTyped, Unmoved
<1>3. ASSUME NEW m, NEW r, HavePrevious(w, m, r) PROVE Unmoved(v)
  BY <1>1, <1>3 DEF HavePrevious, Goto, request, RequestsTyped, Unmoved
<1>4. ASSUME NEW r, Resolved(w, r) PROVE Unmoved(v)
  <2>1. CASE Done(w)
    BY <1>2, <2>1
  <2>2. CASE HavePrevious(w, cursor[w], r)
    BY <1>3, <2>2
  <2>3. CASE Goto(w, "closeRead") /\ UNCHANGED <<request, cursor, prev, held, tries>>
    BY <1>1, <2>3 DEF Goto, request, RequestsTyped, Unmoved
  <2> QED BY <1>4, <2>1, <2>2, <2>3 DEF Resolved
<1>5. ASSUME NEW periods, NEW m, Recalculate(w, periods, m) PROVE Unmoved(v)
  <2>1. CASE Done(w)
    BY <1>2, <2>1
  <2>2. ASSUME NEW k \in Months,
               listed' = [listed EXCEPT ![w] = periods],
               top' = [top EXCEPT ![w] = k],
               cursor' = [cursor EXCEPT ![w] = k],
               prev' = [prev EXCEPT ![w] = NoRow],
               held' = [held EXCEPT ![w] = NoRow],
               Goto(w, "origin"),
               UNCHANGED <<kind, op, touched, today, from, tries>>
        PROVE  Unmoved(v)
    BY <1>1, <2>2 DEF Goto, RequestsTyped, Unmoved
  <2> QED BY <1>5, <2>1, <2>2 DEF Recalculate
<1>6. CASE Start(w)
  <2>1. CASE Create(w)
    BY <1>1, <2>1 DEF Create, Begin, Goto, RequestsTyped, Unmoved
  <2>2. CASE ReadBefore(w)
    BY <1>1, <2>2 DEF ReadBefore, Begin, Goto, RequestsTyped, Unmoved, db
  <2>3. CASE CheckPeriodOpen(w)
    BY <1>1, <2>3 DEF CheckPeriodOpen, Begin, Goto, RequestsTyped, Unmoved, db
  <2>4. CASE Summarize(w)
    BY <1>1, <2>4 DEF Summarize, Begin, Goto, RequestsTyped, Unmoved, db
  <2> QED BY <1>6, <2>1, <2>2, <2>3, <2>4 DEF Start
<1>7. CASE CommitUpdate(w) \/ CommitDelete(w)
  BY <1>1, <1>7 DEF CommitUpdate, CommitDelete, Goto, RequestsTyped, Unmoved
<1>8. CASE CommitNotFound(w) \/ InsertRealized(w) \/ Crash(w)
  BY <1>2, <1>8 DEF CommitNotFound, InsertRealized, Crash
<1>9. CASE Correct(w)
  <2>1. CASE Done(w)
    BY <1>2, <2>1
  <2>2. CASE ~Done(w)
    BY <1>1, <1>9, <2>2 DEF Correct, Goto, RequestsTyped, Unmoved
  <2> QED BY <2>1, <2>2
<1>10. CASE ListFrom(w) \/ WritePeriod(w)
  BY <1>5, <1>10 DEF ListFrom, WritePeriod
<1>11. CASE ComputePeriod(w)
  <2>1. CASE Recalculate(w, listed[w], top[w])
    BY <1>5, <2>1
  <2>2. CASE ~Recalculate(w, listed[w], top[w])
    BY <1>1, <1>11, <2>2 DEF ComputePeriod, Goto, request, RequestsTyped, Unmoved
  <2> QED BY <2>1, <2>2
<1>12. CASE WriteConflict(w)
  <2>1. CASE Done(w)
    BY <1>2, <2>1
  <2>2. CASE ~Done(w)
    BY <1>1, <1>12, <2>2 DEF WriteConflict, Goto, request, RequestsTyped, Unmoved
  <2> QED BY <2>1, <2>2
<1>13. CASE FindPeriod(w)
  <2>1. CASE Resolved(w, row[cursor[w]])
    BY <1>4, <2>1
  <2>2. CASE ~Resolved(w, row[cursor[w]])
    BY <1>1, <1>13, <2>2 DEF FindPeriod, Goto, request, RequestsTyped, Unmoved
  <2> QED BY <2>1, <2>2
<1>14. CASE RefreshSnapshot(w) \/ OpenPeriod(w)
  BY <1>2, <1>4, <1>14 DEF RefreshSnapshot, OpenPeriod, Fail
<1>15. CASE FirstActivity(w)
  BY <1>1, <1>15 DEF FirstActivity, Goto, request, RequestsTyped, Unmoved
<1>16. ASSUME NEW r, Closed(w, r) PROVE Unmoved(v)
  BY <1>2, <1>3, <1>16 DEF Closed
<1>17. CASE CloseRead(w)
  <2>1. CASE Closed(w, row[cursor[w]])
    BY <1>16, <2>1
  <2>2. CASE ~Closed(w, row[cursor[w]])
    BY <1>1, <1>17, <2>2 DEF CloseRead, Goto, request, RequestsTyped, Unmoved
  <2> QED BY <2>1, <2>2
<1>18. CASE CloseWrite(w)
  BY <1>16, <1>18 DEF CloseWrite
<1> QED BY <1>6, <1>7, <1>8, <1>9, <1>10, <1>11, <1>12, <1>13, <1>14, <1>15, <1>17,
           <1>18 DEF Continue

\* A write of an operation changes neither the origin of the chain, seen from
\* the months up to both of its dates, nor the totals of the months before.
LEMMA WriteFacts ==
  ASSUME TypeOK, NEW o \in OpIds, NEW y \in Operation \cup {NoOp, Deleted},
         ops' = [ops EXCEPT ![o] = y], NEW m \in Months,
         ops[o] \in Operation => m <= ops[o].month,
         y \in Operation => m <= y.month
  PROVE  /\ NothingBefore(m)' <=> NothingBefore(m)
         /\ /\ ops[o] \in Operation => m < ops[o].month
            /\ y \in Operation => m < y.month
            => Income(m)' = Income(m) /\ Expense(m)' = Expense(m)
<1>1. /\ ops'[o] = y
      /\ \A x \in OpIds : x # o => ops'[x] = ops[x]
  BY DEF TypeOK
<1>2. NothingBefore(m)' <=> NothingBefore(m)
  BY <1>1 DEF NothingBefore
<1>3. ASSUME ops[o] \in Operation => m < ops[o].month,
             y \in Operation => m < y.month, NEW t \in Kinds
      PROVE  OpsIn(m, t)' = OpsIn(m, t)
  <2>1. ASSUME NEW z \in Operation \cup {NoOp, Deleted},
               z \in Operation => m < z.month
        PROVE  z # [month |-> m, kind |-> t]
    <3> SUFFICES ASSUME z = [month |-> m, kind |-> t] PROVE FALSE
      OBVIOUS
    <3>1. z \in [month : Months, kind : Kinds] /\ z.month = m
      OBVIOUS
    <3>2. z \in Operation
      BY <3>1, SentinelAssumption
    <3> QED BY <2>1, <3>1, <3>2 DEF Months
  <2>2. ops[o] # [month |-> m, kind |-> t] /\ y # [month |-> m, kind |-> t]
    BY <1>3, <2>1 DEF TypeOK
  <2> QED BY <1>1, <2>2 DEF OpsIn
<1> QED BY <1>2, <1>3 DEF Income, Expense, Kinds

\* What a request that waits knows stays true while origin, closed rows and the
\* row it is closing stay.
LEMMA OtherKnows ==
  ASSUME IInv, NEW v \in Workers, WalkKnows(v), Unmoved(v),
         \A m \in Months : m <= now => (NothingBefore(m)' <=> NothingBefore(m)),
         \A m \in Months :
           row[m] # NoRow /\ row[m].status = "CLOSED" => row'[m] = row[m],
         \A m \in Months : pc[v] = "closeWrite" /\ m = cursor[v] =>
           /\ row'[m] = row[m]
           /\ Income(m)' = Income(m) /\ Expense(m)' = Expense(m)
  PROVE  WalkKnows(v)'
<1>1. TypeOK /\ RequestsTyped /\ RequestInTime(v) /\ now \in Months
  BY DEF IInv, TypeOK, RequestsTyped
<1>2. PICK c \in Months, t \in Months : c = cursor[v] /\ t = top[v]
  BY <1>1 DEF RequestsTyped
<1>3. pc[v] \in Walking => c <= t /\ t <= now
  BY <1>1, <1>2 DEF RequestInTime
<1>4. ASSUME pc[v] \in Walking, c < t PROVE ~NothingBefore(cursor[v] + 1)'
  <2>1. PICK d \in Months : d = c + 1
    BY <1>4, MonthsAssumption DEF Months
  <2>2. d <= now
    BY <1>1, <1>2, <1>3, <1>4, <2>1 DEF Months
  <2>3. ~NothingBefore(d)
    BY <1>2, <1>4, <2>1 DEF WalkKnows
  <2>4. ~NothingBefore(d)'
    BY <2>2, <2>3
  <2> QED BY <1>2, <2>1, <2>4 DEF Unmoved, NothingBefore
<1>5. ASSUME NEW m \in Months, m <= now, NEW r, KnowsPrevious(m, r)
      PROVE  KnowsPrevious(m, r)'
  BY <1>1, <1>5, KnowsPreviousStays
<1>6. ASSUME pc[v] = "open" PROVE KnowsPrevious(cursor[v], prev[v])'
  <2>1. PICK r : r = prev[v]
    OBVIOUS
  <2>2. c <= now
    BY <1>1, <1>2, <1>3, <1>6 DEF Walking, Resolving, Months
  <2>3. KnowsPrevious(c, r)'
    BY <1>2, <1>5, <1>6, <2>1, <2>2 DEF WalkKnows
  <2> QED BY <1>2, <2>1, <2>3 DEF Unmoved, KnowsPrevious, NothingBefore
<1>7. ASSUME pc[v] \in {"apply", "write"} PROVE KnowsPrevious(top[v], prev[v])'
  <2>1. PICK r : r = prev[v]
    OBVIOUS
  <2>2. t <= now
    BY <1>3, <1>7 DEF Walking
  <2>3. KnowsPrevious(t, r)'
    BY <1>2, <1>5, <1>7, <2>1, <2>2 DEF WalkKnows
  <2> QED BY <1>2, <2>1, <2>3 DEF Unmoved, KnowsPrevious, NothingBefore
<1>8. ASSUME pc[v] = "closeWrite"
      PROVE  held'[v] = Recomputed(row[cursor[v]], cursor[v], row[cursor[v]].carry)'
  <2>1. /\ row'[c] = row[c] /\ Income(c)' = Income(c) /\ Expense(c)' = Expense(c)
        /\ held[v] = Recomputed(row[c], c, row[c].carry)
    BY <1>2, <1>8 DEF WalkKnows
  <2>2. cursor'[v] = c /\ held'[v] = held[v]
    BY <1>2 DEF Unmoved
  <2>3. Income(cursor[v])' = Income(c)' /\ Expense(cursor[v])' = Expense(c)'
    BY <2>2 DEF Income, Expense, OpsIn
  <2> QED BY <2>1, <2>2, <2>3 DEF Recomputed
<1> QED BY <1>2, <1>4, <1>6, <1>7, <1>8 DEF Unmoved, WalkKnows

(* ---------------------------------------------------------------------- *)
(* Requests that correct nothing.                                          *)

\* No operation is written through create, update or delete; while months end,
\* summaries are all that is asked for.
ReadersOnly ==
  /\ Requests \cap {"create", "update", "delete"} = {}
  /\ "rollover" \in Requests => Requests \subseteq {"summarize", "rollover"}

\* One fixed base for every month and every row: nothing to refresh.
SameBases ==
  \E b \in Int : \A m \in Months :
    fixed[m] = b /\ (row[m] # NoRow => row[m].base = b)

\* Where such a request stands: a summary walks, a realization will insert its
\* own operation in a month that is not over.
ReaderState(w) ==
  /\ pc[w] \in {"idle", "insert", "origin"} \cup Resolving
  /\ pc[w] \in Resolving \cup {"origin"} => kind[w] = "summarize"
  /\ pc[w] = "insert" =>
       /\ "rollover" \notin Requests
       /\ op[w].id \in OpIds /\ ops[op[w].id] = NoOp /\ op[w].month >= now
       /\ \A v \in Workers : v # w => op[v].id # op[w].id
  /\ IF "rollover" \in Requests THEN pc[w] # "refresh" ELSE today[w] = StartMonth

ReadersInv ==
  /\ IInv
  /\ \A m \in Months : AgreesWithFacts(m)
  /\ \A w \in Workers : WalkKnows(w) /\ ReaderState(w)
  /\ IF "rollover" \in Requests THEN SameBases ELSE now = StartMonth

LEMMA InitReaders == ReadersOnly /\ Init => ReadersInv
<1> SUFFICES ASSUME ReadersOnly, Init PROVE ReadersInv
  OBVIOUS
<1>1. IInv /\ now = StartMonth
  BY InitInv DEF Init
<1>2. \A w \in Workers : ReaderState(w)
  BY DEF Init, ReaderState, Resolving
<1>3. SameBases
  <2>1. PICK b \in BaseValues :
          /\ fixed = [m \in Months |-> b]
          /\ \/ row = [m \in Months |-> NoRow]
             \/ \E last \in {now - 1, now} :
                  row = [m \in Months |-> IF m <= last THEN SeedRow(m, b) ELSE NoRow]
    BY DEF Init
  <2>2. b \in Int
    BY BaseAssumption
  <2>3. \A m \in Months : SeedRow(m, b).base = b
    BY <1>1, <2>2, SeedRowType DEF IInv, TypeOK
  <2>4. \A m \in Months : fixed[m] = b /\ (row[m] # NoRow => row[m].base = b)
    BY <2>1, <2>3
  <2> QED BY <2>2, <2>4 DEF SameBases
<1> QED BY <1>1, <1>2, <1>3, InitAgrees DEF ReadersInv

\* How the calls of a summary end.
LEMMA SummaryEnds ==
  ASSUME IInv, NEW w \in Workers, ReaderState(w), pc[w] \in Resolving \cup {"origin"}
  PROVE  /\ Done(w) => pc'[w] = "idle" /\ today'[w] = StartMonth
         /\ \A r : Resolved(w, r) \/ Closed(w, r) =>
              \/ pc'[w] = "idle" /\ today'[w] = StartMonth
              \/ /\ pc'[w] \in {"closeRead", "open"}
                 /\ kind'[w] = "summarize" /\ today'[w] = today[w]
<1>1. RequestsTyped /\ kind[w] = "summarize"
  BY DEF IInv, TypeOK, RequestsTyped, ReaderState
<1>2. Done(w) => pc'[w] = "idle" /\ today'[w] = StartMonth
  BY <1>1 DEF Done, Goto, RequestsTyped
<1>3. \A m, r : HavePrevious(w, m, r) =>
        pc'[w] = "open" /\ kind'[w] = "summarize" /\ today'[w] = today[w]
  BY <1>1 DEF HavePrevious, Goto, RequestsTyped, request
<1>4. Goto(w, "closeRead") /\ UNCHANGED <<request, cursor, prev, held, tries>> =>
        pc'[w] = "closeRead" /\ kind'[w] = "summarize" /\ today'[w] = today[w]
  BY <1>1 DEF Goto, RequestsTyped, request
<1> QED BY <1>2, <1>3, <1>4 DEF Resolved, Closed

\* A call of a summary leaves it a summary, and no base differs after it.
LEMMA SummaryStep ==
  ASSUME ReadersInv, NEW w \in Workers, WalkCall(w)
  PROVE  /\ ReaderState(w)'
         /\ "rollover" \in Requests => SameBases'
<1>1. /\ IInv /\ RequestsTyped /\ TypeOK /\ ReaderState(w) /\ WalkKnows(w)
      /\ RequestOnPath(w) /\ ClosingIsExclusive
      /\ NoRow \notin Row /\ UNCHANGED <<now, fixed>>
  BY SentinelAssumption
  DEF ReadersInv, IInv, TypeOK, RequestsTyped, WalkCall, FindPeriod, RefreshSnapshot,
      FirstActivity, OpenPeriod, CloseRead, CloseWrite, db
<1>2. pc[w] \in Resolving \cup {"origin"} /\ kind[w] = "summarize"
  BY <1>1
  DEF WalkCall, FindPeriod, RefreshSnapshot, FirstActivity, OpenPeriod, CloseRead,
      CloseWrite, ReaderState, Resolving
<1>3. PICK c \in Months : c = cursor[w]
  BY <1>1 DEF RequestsTyped
<1>4. ASSUME \/ pc'[w] = "idle" /\ today'[w] = StartMonth
             \/ /\ pc'[w] \in Resolving \cup {"origin"}
                /\ pc'[w] = "refresh" => "rollover" \notin Requests
                /\ kind'[w] = "summarize" /\ today'[w] = today[w]
      PROVE  ReaderState(w)'
  BY <1>1, <1>4 DEF ReaderState, Resolving
<1>5. ASSUME row' = row, SameBases PROVE SameBases'
  BY <1>1, <1>5 DEF SameBases
<1>6. ASSUME NEW r, row' = [row EXCEPT ![c] = r], SameBases,
             r.base = fixed[c] \/ (row[c] # NoRow /\ r.base = row[c].base)
      PROVE  SameBases'
  <2>1. PICK b \in Int : \A m \in Months :
          fixed[m] = b /\ (row[m] # NoRow => row[m].base = b)
    BY <1>6 DEF SameBases
  <2>2. \A m \in Months : row'[m] = IF m = c THEN r ELSE row[m]
    BY <1>1, <1>6 DEF TypeOK
  <2>3. \A m \in Months : fixed'[m] = b /\ (row'[m] # NoRow => row'[m].base = b)
    BY <1>1, <1>6, <2>1, <2>2
  <2> QED BY <2>3 DEF SameBases
<1>7. "rollover" \in Requests => SameBases
  BY DEF ReadersInv
<1>8. ASSUME NEW r, Done(w) \/ Resolved(w, r) \/ Closed(w, r) PROVE ReaderState(w)'
  BY <1>1, <1>2, <1>4, <1>8, SummaryEnds DEF Resolving
<1>9. CASE FindPeriod(w)
  <2>1. row' = row
    BY <1>9 DEF FindPeriod, db
  <2>2. CASE Resolved(w, row[c])
    BY <1>5, <1>7, <1>8, <2>1, <2>2
  <2>3. CASE Goto(w, "origin") /\ UNCHANGED <<request, cursor, prev, held, tries>>
    <3>1. pc'[w] = "origin" /\ kind'[w] = kind[w] /\ today'[w] = today[w]
      BY <1>1, <2>3 DEF Goto, RequestsTyped, request
    <3> QED BY <1>2, <1>4, <1>5, <1>7, <2>1, <3>1
  <2>4. CASE /\ row[c] # NoRow /\ row[c].base # fixed[c]
             /\ Goto(w, "refresh") /\ UNCHANGED <<request, cursor, prev, tries>>
    <3>1. pc'[w] = "refresh" /\ kind'[w] = kind[w] /\ today'[w] = today[w]
      BY <1>1, <2>4 DEF Goto, RequestsTyped, request
    <3>2. ~SameBases
      BY <2>4 DEF SameBases
    <3> QED BY <1>2, <1>4, <1>7, <3>1, <3>2 DEF Resolving
  <2> QED BY <1>3, <1>9, <2>2, <2>3, <2>4 DEF FindPeriod
<1>10. CASE RefreshSnapshot(w)
  <2>1. "rollover" \notin Requests
    BY <1>1, <1>10 DEF RefreshSnapshot, ReaderState
  <2>2. Done(w) \/ \E r : Resolved(w, r)
    BY <1>10 DEF RefreshSnapshot, Fail
  <2> QED BY <1>8, <2>1, <2>2
<1>11. CASE FirstActivity(w)
  <2>1. row' = row
    BY <1>11 DEF FirstActivity, db
  <2>2. pc'[w] \in {"open", "find"} /\ kind'[w] = kind[w] /\ today'[w] = today[w]
    BY <1>1, <1>2, <1>11 DEF FirstActivity, Goto, RequestsTyped, request
  <2> QED BY <1>2, <1>4, <1>5, <1>7, <2>1, <2>2 DEF Resolving
<1>12. CASE OpenPeriod(w)
  <2>1. Done(w) \/ \E r : Resolved(w, r)
    BY <1>12 DEF OpenPeriod, Fail
  <2>2. CASE row[c] # NoRow
    <3>1. row' = row
      BY <1>1, <1>3, <1>12, <2>2 DEF OpenPeriod, TypeOK
    <3> QED BY <1>5, <1>7, <1>8, <2>1, <3>1
  <2>3. CASE row[c] = NoRow
    <3>1. row' = [row EXCEPT ![c] = OpenRow(OpeningBase(w), CarryFrom(prev[w]))]
      BY <1>3, <1>12, <2>3 DEF OpenPeriod
    <3>2. OpenRow(OpeningBase(w), CarryFrom(prev[w])).base = OpeningBase(w)
      BY DEF OpenRow
    <3>3. ASSUME SameBases PROVE OpeningBase(w) = fixed[c]
      <4>1. PICK b \in Int : \A m \in Months :
              fixed[m] = b /\ (row[m] # NoRow => row[m].base = b)
        BY <3>3 DEF SameBases
      <4>2. prev[w] # NoRow => prev[w].base = b
        <5> SUFFICES ASSUME prev[w] # NoRow PROVE prev[w].base = b
          OBVIOUS
        <5>1. KnowsPrevious(c, prev[w])
          BY <1>1, <1>3, <1>12 DEF WalkKnows, OpenPeriod
        <5>2. /\ ~NothingBefore(c) /\ prev[w] = row[c - 1] /\ row[c - 1] # NoRow
          BY <5>1 DEF KnowsPrevious
        <5>3. c - 1 \in Months
          BY <1>1, <5>2, OriginHasBelow
        <5> QED BY <4>1, <5>2, <5>3
      <4> QED BY <1>3, <4>1, <4>2 DEF OpeningBase
    <3> HIDE DEF OpeningBase
    <3>4. SameBases => SameBases'
      BY <1>6, <3>1, <3>2, <3>3
    <3> QED BY <1>7, <1>8, <2>1, <3>4
  <2> QED BY <2>2, <2>3
<1>13. CASE CloseRead(w)
  <2>1. row' = row
    BY <1>13 DEF CloseRead
  <2>2. CASE Closed(w, row[c])
    BY <1>5, <1>7, <1>8, <2>1, <2>2
  <2>3. CASE Goto(w, "closeWrite") /\ UNCHANGED <<request, cursor, prev, tries>>
    <3>1. pc'[w] = "closeWrite" /\ kind'[w] = kind[w] /\ today'[w] = today[w]
      BY <1>1, <2>3 DEF Goto, RequestsTyped, request
    <3> QED BY <1>2, <1>4, <1>5, <1>7, <2>1, <3>1 DEF Resolving
  <2> QED BY <1>3, <1>13, <2>2, <2>3 DEF CloseRead
<1>14. CASE CloseWrite(w)
  <2>1. PICK r : /\ r = [WithTotals(row[c], held[w]) EXCEPT !.status = "CLOSED"]
                 /\ row' = [row EXCEPT ![c] = r]
                 /\ Closed(w, r)
    BY <1>3, <1>14 DEF CloseWrite
  <2>2. row[c] \in Row /\ row[c] # NoRow
    BY <1>1, <1>3, <1>14 DEF ClosingIsExclusive, CloseWrite, TypeOK
  <2>3. r.base = row[c].base
    BY <2>1, <2>2 DEF WithTotals, Row
  <2>4. SameBases => SameBases'
    BY <1>6, <2>1, <2>2, <2>3
  <2> QED BY <1>7, <1>8, <2>1, <2>4
<1> QED BY <1>9, <1>10, <1>11, <1>12, <1>13, <1>14 DEF WalkCall

\* A summary's write spares the row that another request is closing.
LEMMA ClosingRowSpared ==
  ASSUME ReadersInv, NEW w \in Workers, NEW v \in Workers, v # w, WalkCall(w),
         pc[v] = "closeWrite", NEW c \in Months, c = cursor[v]
  PROVE  row'[c] = row[c]
<1>1. /\ IInv /\ IInv' /\ RequestsTyped /\ TypeOK /\ ReaderState(w) /\ WalkKnows(w)
      /\ RequestInTime(v) /\ ClosingIsExclusive /\ NoRow \notin Row
  <2>1. [Next]_vars
    BY DEF WalkCall, Continue, Next
  <2> QED BY <2>1, NextInv, SentinelAssumption
      DEF ReadersInv, IInv, TypeOK, RequestsTyped
<1>2. lock = v /\ row[c] # NoRow /\ lock # Free
  BY <1>1, SentinelAssumption DEF ClosingIsExclusive
<1>3. CASE cursor[w] # c
  BY <1>1, <1>3, WalkStep DEF ChainKept
<1>4. CASE cursor[w] = c
  <2>1. CASE FindPeriod(w) \/ FirstActivity(w) \/ CloseRead(w)
    BY <2>1 DEF FindPeriod, FirstActivity, CloseRead, db
  <2>2. CASE RefreshSnapshot(w)
    <3>1. /\ "rollover" \notin Requests /\ today[w] = StartMonth
          /\ now = StartMonth /\ c = today[w]
      BY <1>1, <1>4, <2>2 DEF RefreshSnapshot, ReaderState, WalkKnows, ReadersInv
    <3>2. c < now
      BY <1>1 DEF RequestInTime
    <3> QED BY <3>1, <3>2 DEF Months
  <2>3. CASE OpenPeriod(w)
    BY <1>2, <2>3 DEF OpenPeriod
  <2>4. CASE CloseWrite(w)
    <3>1. lock = w
      BY <1>1, <2>4 DEF CloseWrite, ClosingIsExclusive
    <3> QED BY <1>2, <3>1
  <2> QED BY <2>1, <2>2, <2>3, <2>4 DEF WalkCall
<1> QED BY <1>3, <1>4

\* A request that waits stays where it is.
LEMMA ReaderStateStays ==
  ASSUME NEW v \in Workers, ReaderState(v), Unmoved(v), now' = now,
         pc[v] = "insert" =>
           /\ ops'[op[v].id] = NoOp
           /\ \A w \in Workers : w # v => op'[w].id # op[v].id
  PROVE  ReaderState(v)'
BY DEF ReaderState, Unmoved

\* Requests that correct nothing only start, walk, insert or die.
LEMMA ReaderSteps ==
  ASSUME ReadersOnly, ReadersInv, NEW w \in Workers,
         Start(w) \/ Continue(w) \/ Crash(w)
  PROVE  \/ CheckPeriodOpen(w) \/ Summarize(w) \/ InsertRealized(w)
         \/ WalkCall(w) \/ Crash(w)
<1>1. ~Create(w) /\ ~ReadBefore(w)
  BY DEF ReadersOnly, Create, ReadBefore, Begin
<1>2. ReaderState(w)
  BY DEF ReadersInv
<1>3. /\ ~CommitUpdate(w) /\ ~CommitDelete(w) /\ ~CommitNotFound(w) /\ ~Correct(w)
      /\ ~ListFrom(w) /\ ~ComputePeriod(w) /\ ~WritePeriod(w) /\ ~WriteConflict(w)
  BY <1>2
  DEF CommitUpdate, CommitDelete, CommitNotFound, Correct, ListFrom, ComputePeriod,
      WritePeriod, WriteConflict, ReaderState, Resolving
<1> QED BY <1>1, <1>3 DEF Start, Continue, WalkCall

\* A request that starts or dies.
LEMMA ReaderStarts ==
  ASSUME ReadersOnly, ReadersInv, NEW w \in Workers,
         CheckPeriodOpen(w) \/ Summarize(w) \/ Crash(w)
  PROVE  /\ WalkKnows(w)' /\ ReaderState(w)'
         /\ UNCHANGED <<now, ops, fixed, row>>
         /\ \A v \in Workers :
              v # w /\ pc[v] = "insert" => op'[w].id # op[v].id
<1>1. /\ RequestsTyped /\ NoOp \notin OpIds
      /\ \A v \in Workers : ReaderState(v)
      /\ "rollover" \notin Requests => now = StartMonth
  BY SentinelAssumption DEF ReadersInv, IInv, TypeOK, RequestsTyped
<1>2. CASE CheckPeriodOpen(w)
  <2>1. PICK o \in Unused, m \in Months :
          m >= now /\ op' = [op EXCEPT ![w] = [id |-> o, month |-> m]]
    BY <1>2 DEF CheckPeriodOpen
  <2>2. pc'[w] = "insert" /\ today' = today /\ UNCHANGED <<now, ops, fixed, row>>
    BY <1>1, <1>2 DEF CheckPeriodOpen, Goto, RequestsTyped, db
  <2>3. op'[w].id = o /\ op'[w].month = m /\ o \in OpIds /\ ops[o] = NoOp
        /\ \A v \in Workers : op[v].id # o
    BY <1>1, <2>1 DEF Unused, RequestsTyped
  <2>4. \A v \in Workers : v # w => op'[v].id # o
    BY <1>1, <2>1, <2>3 DEF RequestsTyped
  <2>5. "realize" \in Requests /\ "rollover" \notin Requests
    BY <1>2 DEF CheckPeriodOpen, Begin, ReadersOnly
  <2>6. ReaderState(w)'
    BY <1>1, <2>1, <2>2, <2>3, <2>4, <2>5 DEF ReaderState, Resolving
  <2>7. WalkKnows(w)'
    BY <2>2 DEF WalkKnows, Walking, Resolving
  <2> QED BY <2>2, <2>3, <2>6, <2>7
<1>3. CASE Summarize(w)
  <2>1. PICK m \in Months :
          top' = [top EXCEPT ![w] = m] /\ cursor' = [cursor EXCEPT ![w] = m]
    BY <1>3 DEF Summarize
  <2>2. /\ pc'[w] = "find" /\ kind'[w] = "summarize" /\ today'[w] = now
        /\ UNCHANGED <<now, ops, fixed, row, op>>
    BY <1>1, <1>3 DEF Summarize, Begin, Goto, RequestsTyped, db
  <2>3. cursor'[w] = m /\ top'[w] = m
    BY <1>1, <2>1 DEF RequestsTyped
  <2>4. WalkKnows(w)'
    BY <2>2, <2>3 DEF WalkKnows, Months
  <2>5. ReaderState(w)'
    BY <1>1, <2>2 DEF ReaderState, Resolving
  <2>6. ASSUME NEW v \in Workers, v # w, pc[v] = "insert" PROVE op'[w].id # op[v].id
    BY <1>1, <2>2, <2>6 DEF ReaderState
  <2> QED BY <2>2, <2>4, <2>5, <2>6
<1>4. CASE Crash(w)
  <2>1. /\ pc'[w] = "idle" /\ today'[w] = StartMonth /\ op'[w].id = NoOp
        /\ UNCHANGED <<now, ops, fixed, row>>
    BY <1>1, <1>4 DEF Crash, Done, Goto, RequestsTyped
  <2> QED BY <1>1, <2>1 DEF ReaderState, WalkKnows, Walking, Resolving
<1> QED BY <1>2, <1>3, <1>4

\* The insertion of a realization reaches no row that agrees and no walk: its
\* month is not over.
LEMMA ReaderInserts ==
  ASSUME ReadersOnly, ReadersInv, NEW w \in Workers, InsertRealized(w)
  PROVE  /\ WalkKnows(w)' /\ ReaderState(w)'
         /\ UNCHANGED <<now, fixed, row>>
         /\ \A m \in Months : m <= now => (NothingBefore(m)' <=> NothingBefore(m))
         /\ \A m \in Months : m < now =>
              Income(m)' = Income(m) /\ Expense(m)' = Expense(m)
         /\ \A v \in Workers : v # w /\ pc[v] = "insert" =>
              ops'[op[v].id] = NoOp /\ op'[w].id # op[v].id
<1>1. /\ TypeOK /\ RequestsTyped /\ NoOp \notin OpIds /\ now \in Months
      /\ \A v \in Workers : ReaderState(v)
      /\ "rollover" \notin Requests => now = StartMonth
      /\ pc[w] = "insert" /\ Done(w) /\ UNCHANGED <<now, fixed, row>>
  BY SentinelAssumption DEF ReadersInv, IInv, TypeOK, RequestsTyped, InsertRealized
<1>2. PICK x \in Operation : x.month = op[w].month /\ ops' = [ops EXCEPT ![op[w].id] = x]
  BY DEF InsertRealized
<1>3. /\ op[w].id \in OpIds /\ ops[op[w].id] = NoOp /\ x.month >= now
      /\ x.month \in Months /\ NoOp \notin Operation
  <2>1. NoOp \notin Operation
    BY SentinelAssumption, OpsAssumption DEF Operation
  <2> QED BY <1>1, <1>2, <2>1 DEF ReaderState, Operation
<1>4. ASSUME NEW m \in Months, m <= now
      PROVE  /\ NothingBefore(m)' <=> NothingBefore(m)
             /\ m < now => Income(m)' = Income(m) /\ Expense(m)' = Expense(m)
  <2>1. m <= x.month /\ (m < now => m < x.month)
    BY <1>1, <1>3, <1>4 DEF Months
  <2> QED BY <1>1, <1>2, <1>3, <2>1, WriteFacts
<1>5. /\ pc'[w] = "idle" /\ today'[w] = StartMonth /\ op'[w].id = NoOp
  BY <1>1 DEF Done, Goto, RequestsTyped
<1>6. WalkKnows(w)' /\ ReaderState(w)'
  BY <1>1, <1>5 DEF ReaderState, WalkKnows, Walking, Resolving
<1>7. ASSUME NEW v \in Workers, v # w, pc[v] = "insert"
      PROVE  ops'[op[v].id] = NoOp /\ op'[w].id # op[v].id
  <2>1. op[v].id \in OpIds /\ ops[op[v].id] = NoOp /\ op[w].id # op[v].id
    BY <1>1, <1>7 DEF ReaderState
  <2> QED BY <1>1, <1>2, <1>5, <2>1 DEF TypeOK
<1>8. \A m \in Months : m < now => m <= now
  BY <1>1 DEF Months
<1> QED BY <1>1, <1>4, <1>6, <1>7, <1>8

LEMMA ReaderNext == ReadersOnly /\ ReadersInv /\ [Next]_vars => ReadersInv'
<1> SUFFICES ASSUME ReadersOnly, ReadersInv, [Next]_vars PROVE ReadersInv'
  OBVIOUS
<1>1. /\ IInv /\ IInv' /\ TypeOK /\ TypeOK' /\ now \in Months
      /\ \A v \in Workers : WalkKnows(v) /\ ReaderState(v)
      /\ \A m \in Months : AgreesWithFacts(m)
      /\ "rollover" \in Requests => SameBases
      /\ "rollover" \notin Requests => now = StartMonth
  BY NextInv DEF ReadersInv, IInv, TypeOK
<1>2. ASSUME NEW w \in Workers, WalkKnows(w)', ReaderState(w)',
             \A v \in Workers : v # w => Unmoved(v),
             now' = now, "rollover" \in Requests => SameBases',
             \A m \in Months : AgreesWithFacts(m)',
             \A m \in Months : m <= now => (NothingBefore(m)' <=> NothingBefore(m)),
             \A m \in Months :
               row[m] # NoRow /\ row[m].status = "CLOSED" => row'[m] = row[m],
             \A v \in Workers, m \in Months :
               v # w /\ pc[v] = "closeWrite" /\ m = cursor[v] =>
                 row'[m] = row[m] /\ Income(m)' = Income(m) /\ Expense(m)' = Expense(m),
             \A v \in Workers : v # w /\ pc[v] = "insert" =>
               ops'[op[v].id] = NoOp /\ op'[w].id # op[v].id
      PROVE  ReadersInv'
  <2> SUFFICES ASSUME NEW v \in Workers PROVE WalkKnows(v)' /\ ReaderState(v)'
    BY <1>1, <1>2 DEF ReadersInv
  <2>1. CASE v = w
    BY <1>2, <2>1
  <2>2. CASE v # w
    <3>1. Unmoved(v)
      BY <1>2, <2>2
    <3>2. WalkKnows(v)'
      BY <1>1, <1>2, <2>2, <3>1, OtherKnows
    <3>3. ASSUME pc[v] = "insert", NEW u \in Workers, u # v PROVE op'[u].id # op[v].id
      <4>1. CASE u = w
        BY <1>2, <2>2, <3>3, <4>1
      <4>2. CASE u # w
        <5>1. op'[u] = op[u]
          BY <1>2, <4>2 DEF Unmoved
        <5> QED BY <1>1, <3>3, <5>1 DEF ReaderState
      <4> QED BY <4>1, <4>2
    <3>4. ReaderState(v)'
      BY <1>1, <1>2, <2>2, <3>1, <3>3, ReaderStateStays
    <3> QED BY <3>2, <3>4
  <2> QED BY <2>1, <2>2
<1>3. ASSUME UNCHANGED <<ops, row>>
      PROVE  /\ \A m \in Months : AgreesWithFacts(m)'
             /\ \A m : /\ NothingBefore(m)' <=> NothingBefore(m)
                       /\ Income(m)' = Income(m) /\ Expense(m)' = Expense(m)
  BY <1>1, <1>3, SameChain, SameFacts DEF ChainKept
<1>4. ASSUME NEW w \in Workers, Start(w) \/ Continue(w) \/ Crash(w)
      PROVE  ReadersInv'
  <2>1. \A v \in Workers : v # w => Unmoved(v)
    BY <1>1, <1>4, OthersUnmoved
  <2>2. CASE CheckPeriodOpen(w) \/ Summarize(w) \/ Crash(w)
    <3>1. /\ WalkKnows(w)' /\ ReaderState(w)'
          /\ UNCHANGED <<now, ops, fixed, row>>
          /\ \A v \in Workers : v # w /\ pc[v] = "insert" => op'[w].id # op[v].id
      BY <2>2, ReaderStarts
    <3>2. SameBases => SameBases'
      BY <3>1 DEF SameBases
    <3>3. \A v \in Workers : pc[v] = "insert" => ops'[op[v].id] = NoOp
      BY <1>1, <3>1 DEF ReaderState
    <3> QED BY <1>1, <1>2, <1>3, <2>1, <3>1, <3>2, <3>3
  <2>3. CASE InsertRealized(w)
    <3>1. /\ WalkKnows(w)' /\ ReaderState(w)' /\ UNCHANGED <<now, fixed, row>>
          /\ \A m \in Months : m <= now => (NothingBefore(m)' <=> NothingBefore(m))
          /\ \A m \in Months : m < now =>
               Income(m)' = Income(m) /\ Expense(m)' = Expense(m)
          /\ \A v \in Workers : v # w /\ pc[v] = "insert" =>
               ops'[op[v].id] = NoOp /\ op'[w].id # op[v].id
      BY <2>3, ReaderInserts
    <3>2. SameBases => SameBases'
      BY <3>1 DEF SameBases
    <3>3. ASSUME NEW m \in Months PROVE AgreesWithFacts(m)'
      <4>1. row[m] # NoRow => m <= now /\ (row[m].status = "CLOSED" => m < now)
        BY <1>1 DEF IInv, PeriodsInTime
      <4>2. CASE row[m] = NoRow
        BY <3>1, <4>2 DEF AgreesWithFacts
      <4>3. CASE row[m] # NoRow
        BY <1>1, <3>1, <4>1, <4>3, AgreesFrame
      <4> QED BY <4>2, <4>3
    <3>4. \A v \in Workers, m \in Months :
            pc[v] = "closeWrite" /\ m = cursor[v] => m < now
      BY <1>1 DEF IInv, RequestInTime
    <3> QED BY <1>1, <1>2, <2>1, <3>1, <3>2, <3>3, <3>4
  <2>4. CASE WalkCall(w)
    <3>1. WalkKnows(w)' /\ ChainKept(cursor[w])
      BY <1>1, <2>4, WalkStep
    <3>2. ReaderState(w)' /\ ("rollover" \in Requests => SameBases')
      BY <2>4, SummaryStep
    <3>3. UNCHANGED <<now, ops>> /\ op'[w].id \in {op[w].id, NoOp}
      <4>1. UNCHANGED <<now, ops>>
        BY <2>4, <3>1
        DEF WalkCall, FindPeriod, RefreshSnapshot, FirstActivity, OpenPeriod, CloseRead,
            CloseWrite, db
      <4>2. Done(w) => op'[w].id = NoOp
        BY <1>1 DEF Done, TypeOK
      <4>3. UNCHANGED op \/ Done(w)
        BY <2>4
        DEF WalkCall, FindPeriod, RefreshSnapshot, FirstActivity, OpenPeriod, CloseRead,
            CloseWrite, Closed, Resolved, HavePrevious, Fail, request
      <4> QED BY <4>1, <4>2, <4>3
    <3>4. \A v \in Workers : v # w /\ pc[v] = "insert" =>
            ops'[op[v].id] = NoOp /\ op'[w].id # op[v].id
      BY <1>1, <3>3, SentinelAssumption DEF ReaderState
    <3>5. \A v \in Workers, m \in Months :
            v # w /\ pc[v] = "closeWrite" /\ m = cursor[v] => row'[m] = row[m]
      BY <2>4, ClosingRowSpared
    <3>6. \A m \in Months : row[m] # NoRow /\ row[m].status = "CLOSED" => row'[m] = row[m]
      BY <3>1 DEF ChainKept
    <3>7. \A m \in Months : AgreesWithFacts(m)'
      BY <1>1, <3>1 DEF ChainKept
    <3>8. \A m : /\ NothingBefore(m)' <=> NothingBefore(m)
                 /\ Income(m)' = Income(m) /\ Expense(m)' = Expense(m)
      BY <3>3, SameFacts
    <3> QED BY <1>2, <2>1, <3>1, <3>2, <3>3, <3>4, <3>5, <3>6, <3>7, <3>8
  <2> QED BY <1>4, <2>2, <2>3, <2>4, ReaderSteps
<1>5. ASSUME UNCHANGED <<ops, row, pc, request, cursor, prev, held>>,
             "rollover" \in Requests => SameBases',
             "rollover" \notin Requests => now' = now
      PROVE  ReadersInv'
  <2>1. \A v \in Workers : Unmoved(v)
    BY <1>5 DEF Unmoved, request
  <2>2. \A v \in Workers : WalkKnows(v)'
    BY <1>1, <1>3, <1>5, <2>1, OtherKnows
  <2>3. \A v \in Workers : ReaderState(v)'
    BY <1>1, <1>5, <2>1 DEF ReaderState, Unmoved
  <2> QED BY <1>1, <1>3, <1>5, <2>2, <2>3 DEF ReadersInv
<1>6. CASE Rollover
  <2>1. SameBases => SameBases'
    BY <1>6 DEF SameBases, Rollover
  <2> QED BY <1>1, <1>5, <1>6, <2>1 DEF Rollover
<1>7. CASE ChangeFixed
  BY <1>5, <1>7 DEF ChangeFixed, ReadersOnly
<1>8. CASE UNCHANGED vars
  <2>1. SameBases => SameBases'
    BY <1>8 DEF SameBases, vars
  <2> QED BY <1>1, <1>5, <1>8, <2>1 DEF vars, request
<1> QED BY <1>4, <1>6, <1>7, <1>8 DEF Next

\* While nothing is corrected, every row agrees with the facts and with the row
\* before it at every moment, whatever summaries, realizations and changes of
\* fixed operations run at once and whenever the process dies; while months end,
\* whatever summaries do.
THEOREM ReadersKeepChain ==
  ASSUME ReadersOnly
  PROVE  Spec => [](\A m \in Months : AgreesWithFacts(m))
<1>1. Init => ReadersInv
  BY InitReaders
<1>2. ReadersInv /\ [Next]_vars => ReadersInv'
  BY ReaderNext
<1>3. ReadersInv => \A m \in Months : AgreesWithFacts(m)
  BY DEF ReadersInv
<1> QED BY <1>1, <1>2, <1>3, PTL DEF Spec

\* The chain of an owner whose past nobody corrects is settled.
THEOREM ReadersSettled == ReadersOnly => (Spec => []SettledChain)
<1> SUFFICES ASSUME ReadersOnly PROVE Spec => []SettledChain
  OBVIOUS
<1>1. (\A m \in Months : AgreesWithFacts(m)) => SettledChain
  BY DEF SettledChain
<1> QED BY <1>1, ReadersKeepChain, PTL

(* ---------------------------------------------------------------------- *)
(* One request at a time.                                                  *)

Correcting(w) == pc[w] \in Walking /\ kind[w] # "summarize"

\* The row that ComputePeriod computes.
Image(w) ==
  LET period == listed[w][top[w]]
      carry  == CarryFrom(prev[w])
  IN  IF period.status = "OPEN"
      THEN [period EXCEPT !.carry = carry]
      ELSE Recomputed(period, top[w], carry)

\* The rows from the one being corrected on are those that were listed; those
\* corrected before it agree, and so do the earlier ones unless a request died.
CorrectionOnCourse(w) ==
  Correcting(w) =>
    /\ from[w] <= top[w]
    /\ \A m \in Months : m >= top[w] => listed[w][m] = row[m]
    /\ \A m \in Months : m < top[w] /\ (m >= from[w] \/ ~excused) => AgreesWithFacts(m)
    /\ pc[w] = "write" => held[w] = Image(w)

\* What was read before a write is still so, and no row lies beyond the month
\* in which a realization is about to be inserted.
WriteOnCourse(w) ==
  /\ pc[w] = "commit" =>
       /\ op[w].id \in OpIds /\ ops[op[w].id] \in Operation
       /\ ops[op[w].id].month = op[w].month
  /\ pc[w] = "insert" =>
       /\ op[w].id \in OpIds /\ ops[op[w].id] = NoOp
       /\ \A m \in Months : row[m] # NoRow =>
            m <= op[w].month /\ (m = op[w].month => row[m].status = "OPEN")

\* Month `m' is one whose row a write with these dates cannot have disturbed.
Undisturbed(m, dates) ==
  \A d \in dates : m <= d /\ (m = d => row[m] # NoRow /\ row[m].status = "OPEN")

\* Unless a request died or gave up, the whole chain agrees while nothing is to
\* be corrected, and before the dates touched while something is.
AgreesSoFar(w) ==
  ~excused =>
    /\ pc[w] = "list" => \A m \in Months : m < from[w] => AgreesWithFacts(m)
    /\ pc[w] = "correct" =>
         \A m \in Months : Undisturbed(m, touched[w]) => AgreesWithFacts(m)
    /\ pc[w] \notin {"correct", "list"} /\ ~Correcting(w) =>
         \A m \in Months : AgreesWithFacts(m)

SequentialInv(w) ==
  /\ IInv
  /\ WalkKnows(w)
  /\ CorrectionOnCourse(w) /\ WriteOnCourse(w) /\ AgreesSoFar(w)

\* A request is answered while everything agrees, or with an error.
LEMMA SequentialIdle ==
  ASSUME IInv', NEW w \in Workers, pc'[w] = "idle",
         ~excused' => \A m \in Months : AgreesWithFacts(m)'
  PROVE  SequentialInv(w)'
BY DEF SequentialInv, WalkKnows, CorrectionOnCourse, WriteOnCourse, AgreesSoFar,
       Correcting, Walking, Resolving

\* Requests that start.
LEMMA SequentialStart ==
  ASSUME NEW w \in Workers, SequentialInv(w), IInv', Start(w)
  PROVE  SequentialInv(w)'
<1>1. /\ IInv /\ TypeOK /\ TypeOK' /\ RequestsTyped /\ PeriodsInTime /\ now \in Months
      /\ excused' = excused /\ row' = row /\ pc[w] = "idle"
      /\ NoOp \notin Operation
  <2>1. NoOp \notin Operation
    BY SentinelAssumption, OpsAssumption DEF Operation
  <2> QED BY <2>1
  DEF SequentialInv, IInv, TypeOK, RequestsTyped, Start, Create, ReadBefore,
      CheckPeriodOpen, Summarize, Begin, db
<1>2. ~excused => \A m \in Months : AgreesWithFacts(m)
  BY <1>1 DEF SequentialInv, AgreesSoFar, Correcting, Walking, Resolving
<1>3. ops' = ops => (~excused => \A m \in Months : AgreesWithFacts(m)')
  BY <1>1, <1>2, SameChain DEF ChainKept
<1>4. CASE Create(w)
  <2>1. PICK o \in Unused, x \in Operation :
          ops' = [ops EXCEPT ![o] = x] /\ touched' = [touched EXCEPT ![w] = {x.month}]
    BY <1>4 DEF Create
  <2>2. /\ pc'[w] = "correct" /\ touched'[w] = {x.month}
        /\ o \in OpIds /\ ops[o] = NoOp /\ x.month \in Months
    BY <1>1, <1>4, <2>1 DEF Create, Goto, RequestsTyped, Unused, Operation
  <2>3. ASSUME NEW m \in Months, Undisturbed(m, touched[w])', AgreesWithFacts(m)
        PROVE  AgreesWithFacts(m)'
    <3>1. /\ m <= x.month
          /\ m = x.month => row[m] # NoRow /\ row[m].status = "OPEN"
      BY <1>1, <2>2, <2>3 DEF Undisturbed
    <3>2. /\ NothingBefore(m)' <=> NothingBefore(m)
          /\ m < x.month => Income(m)' = Income(m) /\ Expense(m)' = Expense(m)
      BY <1>1, <2>1, <2>2, <3>1, WriteFacts
    <3>3. row[m] # NoRow /\ row[m].status = "CLOSED" => m < x.month
      BY <2>2, <3>1 DEF Months
    <3> QED BY <1>1, <2>3, <3>2, <3>3, AgreesFrame
  <2> QED BY <1>1, <1>2, <2>2, <2>3
      DEF SequentialInv, WalkKnows, CorrectionOnCourse, WriteOnCourse, AgreesSoFar,
          Correcting, Walking, Resolving
<1>5. CASE ReadBefore(w)
  <2>1. PICK o \in OpIds :
          /\ ops[o] \in Operation
          /\ op' = [op EXCEPT ![w] = [id |-> o, month |-> ops[o].month]]
    BY <1>5 DEF ReadBefore
  <2>2. /\ pc'[w] = "commit" /\ op'[w].id = o /\ op'[w].month = ops[o].month
        /\ ops' = ops
    BY <1>1, <1>5, <2>1 DEF ReadBefore, Goto, RequestsTyped, db
  <2> QED BY <1>1, <1>3, <2>1, <2>2
      DEF SequentialInv, WalkKnows, CorrectionOnCourse, WriteOnCourse, AgreesSoFar,
          Correcting, Walking, Resolving
<1>6. CASE CheckPeriodOpen(w)
  <2>1. PICK o \in Unused, d \in Months :
          /\ d >= now /\ (row[d] # NoRow => row[d].status = "OPEN")
          /\ op' = [op EXCEPT ![w] = [id |-> o, month |-> d]]
    BY <1>6 DEF CheckPeriodOpen
  <2>2. /\ pc'[w] = "insert" /\ op'[w].id = o /\ op'[w].month = d
        /\ ops' = ops /\ o \in OpIds /\ ops[o] = NoOp
    BY <1>1, <1>6, <2>1 DEF CheckPeriodOpen, Goto, RequestsTyped, Unused, db
  <2>3. \A m \in Months : row[m] # NoRow =>
          m <= d /\ (m = d => row[m].status = "OPEN")
    BY <1>1, <2>1 DEF PeriodsInTime, Months
  <2> QED BY <1>1, <1>3, <2>2, <2>3
      DEF SequentialInv, WalkKnows, CorrectionOnCourse, WriteOnCourse, AgreesSoFar,
          Correcting, Walking, Resolving
<1>7. CASE Summarize(w)
  <2>1. PICK m \in Months :
          top' = [top EXCEPT ![w] = m] /\ cursor' = [cursor EXCEPT ![w] = m]
    BY <1>7 DEF Summarize
  <2>2. /\ pc'[w] = "find" /\ kind'[w] = "summarize" /\ ops' = ops
        /\ cursor'[w] = m /\ top'[w] = m
    BY <1>1, <1>7, <2>1 DEF Summarize, Begin, Goto, RequestsTyped, db
  <2> QED BY <1>1, <1>3, <2>2
      DEF SequentialInv, WalkKnows, CorrectionOnCourse, WriteOnCourse, AgreesSoFar,
          Correcting, Months
<1> QED BY <1>4, <1>5, <1>6, <1>7 DEF Start

\* Writes of operations, up to the start of the correction.
LEMMA SequentialWrite ==
  ASSUME NEW w \in Workers, SequentialInv(w), IInv',
         \/ CommitUpdate(w) \/ CommitDelete(w) \/ CommitNotFound(w)
         \/ InsertRealized(w) \/ Correct(w)
  PROVE  SequentialInv(w)'
<1>1. /\ IInv /\ TypeOK /\ TypeOK' /\ RequestsTyped /\ PeriodsInTime /\ now \in Months
      /\ excused' = excused /\ row' = row
      /\ NoOp \notin Operation /\ Deleted \notin Operation
  <2>1. NoOp \notin Operation /\ Deleted \notin Operation
    BY SentinelAssumption, OpsAssumption DEF Operation
  <2> QED BY <2>1
  DEF SequentialInv, IInv, TypeOK, RequestsTyped, CommitUpdate, CommitDelete,
      CommitNotFound, InsertRealized, Correct, db
<1>2. pc[w] \in {"commit", "insert"} =>
        (~excused => \A m \in Months : AgreesWithFacts(m))
  BY DEF SequentialInv, AgreesSoFar, Correcting, Walking, Resolving
<1>3. Done(w) => pc'[w] = "idle"
  BY <1>1 DEF Done, Goto, RequestsTyped
<1>4. ASSUME pc[w] = "commit", pc'[w] = "correct",
             NEW y \in Operation \cup {NoOp, Deleted},
             ops' = [ops EXCEPT ![op[w].id] = y], op[w].month \in touched'[w],
             y \in Operation => y.month \in touched'[w]
      PROVE  SequentialInv(w)'
  <2>1. /\ op[w].id \in OpIds /\ ops[op[w].id] \in Operation
        /\ ops[op[w].id].month = op[w].month /\ op[w].month \in Months
    BY <1>1, <1>4 DEF SequentialInv, WriteOnCourse, RequestsTyped
  <2>2. ASSUME NEW m \in Months, Undisturbed(m, touched[w])', AgreesWithFacts(m)
        PROVE  AgreesWithFacts(m)'
    <3>1. \A d \in touched'[w] :
            m <= d /\ (m = d => row[m] # NoRow /\ row[m].status = "OPEN")
      BY <1>1, <2>2 DEF Undisturbed
    <3>2. /\ m <= op[w].month /\ (y \in Operation => m <= y.month /\ y.month \in Months)
          /\ row[m] # NoRow /\ row[m].status = "CLOSED" =>
               m < op[w].month /\ (y \in Operation => m < y.month)
      BY <1>4, <2>1, <3>1 DEF Months, Operation
    <3>3. /\ NothingBefore(m)' <=> NothingBefore(m)
          /\ row[m] # NoRow /\ row[m].status = "CLOSED" =>
               Income(m)' = Income(m) /\ Expense(m)' = Expense(m)
      BY <1>1, <1>4, <2>1, <3>2, WriteFacts
    <3> QED BY <1>1, <2>2, <3>3, AgreesFrame
  <2> QED BY <1>1, <1>2, <1>4, <2>2
      DEF SequentialInv, WalkKnows, CorrectionOnCourse, WriteOnCourse, AgreesSoFar,
          Correcting, Walking, Resolving
<1>5. CASE CommitUpdate(w)
  <2>1. PICK x \in Operation :
          /\ ops' = [ops EXCEPT ![op[w].id] = x]
          /\ touched' = [touched EXCEPT ![w] = {op[w].month, x.month}]
    BY <1>5 DEF CommitUpdate
  <2>2. /\ pc[w] = "commit" /\ pc'[w] = "correct"
        /\ touched'[w] = {op[w].month, x.month}
    BY <1>1, <1>5, <2>1 DEF CommitUpdate, Goto, RequestsTyped
  <2> QED BY <1>4, <2>1, <2>2
<1>6. CASE CommitDelete(w)
  <2>1. /\ ops' = [ops EXCEPT ![op[w].id] = Deleted]
        /\ pc[w] = "commit" /\ pc'[w] = "correct" /\ touched'[w] = {op[w].month}
    BY <1>1, <1>6 DEF CommitDelete, Goto, RequestsTyped
  <2> QED BY <1>1, <1>4, <2>1
<1>7. CASE CommitNotFound(w)
  <2>1. ops' = ops /\ Done(w) /\ pc[w] = "commit"
    BY <1>7 DEF CommitNotFound, db
  <2>2. \A m \in Months : AgreesWithFacts(m) => AgreesWithFacts(m)'
    BY <1>1, <2>1, SameChain DEF ChainKept
  <2> QED BY <1>1, <1>2, <1>3, <2>1, <2>2, SequentialIdle
<1>8. CASE InsertRealized(w)
  <2>1. PICK x \in Operation :
          x.month = op[w].month /\ ops' = [ops EXCEPT ![op[w].id] = x]
    BY <1>8 DEF InsertRealized
  <2>2. /\ pc[w] = "insert" /\ Done(w) /\ op[w].id \in OpIds /\ ops[op[w].id] = NoOp
        /\ x.month \in Months
        /\ \A m \in Months : row[m] # NoRow =>
             m <= x.month /\ (m = x.month => row[m].status = "OPEN")
    BY <1>8, <2>1 DEF InsertRealized, SequentialInv, WriteOnCourse, Operation
  <2>3. ASSUME NEW m \in Months, AgreesWithFacts(m) PROVE AgreesWithFacts(m)'
    <3>1. CASE row[m] = NoRow
      BY <1>1, <3>1 DEF AgreesWithFacts
    <3>2. CASE row[m] # NoRow
      <4>1. m <= x.month /\ (row[m].status = "CLOSED" => m < x.month)
        BY <2>2, <3>2 DEF Months
      <4>2. /\ NothingBefore(m)' <=> NothingBefore(m)
            /\ row[m].status = "CLOSED" =>
                 Income(m)' = Income(m) /\ Expense(m)' = Expense(m)
        BY <1>1, <2>1, <2>2, <4>1, WriteFacts
      <4> QED BY <1>1, <2>3, <4>2, AgreesFrame
    <3> QED BY <3>1, <3>2
  <2> QED BY <1>1, <1>2, <1>3, <2>2, <2>3, SequentialIdle
<1>9. CASE Correct(w)
  <2>1. ops' = ops /\ pc[w] = "correct"
    BY <1>9 DEF Correct, db
  <2>2. \A m \in Months : AgreesWithFacts(m) => AgreesWithFacts(m)'
    BY <1>1, <2>1, SameChain DEF ChainKept
  <2>3. ~excused => \A m \in Months : Undisturbed(m, touched[w]) => AgreesWithFacts(m)
    BY <2>1 DEF SequentialInv, AgreesSoFar
  <2>4. touched[w] \subseteq Months
    BY <1>1 DEF RequestsTyped
  <2>5. ASSUME \A m \in touched[w] : m >= now, Done(w)
        PROVE  SequentialInv(w)'
    <3>1. ASSUME NEW m \in Months, ~excused PROVE AgreesWithFacts(m)
      <4>1. CASE row[m] = NoRow
        BY <4>1 DEF AgreesWithFacts
      <4>2. CASE row[m] # NoRow
        <5>1. m <= now /\ (row[m].status = "CLOSED" => m < now) /\ row[m] \in Row
          BY <1>1, <4>2 DEF PeriodsInTime, TypeOK
        <5>2. m = now => row[m].status = "OPEN"
          BY <1>1, <5>1 DEF Row, Months
        <5>3. Undisturbed(m, touched[w])
          <6> SUFFICES ASSUME NEW d \in touched[w]
                       PROVE  m <= d /\ (m = d => row[m] # NoRow /\ row[m].status = "OPEN")
            BY DEF Undisturbed
          <6>1. d >= now /\ d \in Months
            BY <2>4, <2>5
          <6> QED BY <1>1, <4>2, <5>1, <5>2, <6>1 DEF Months
        <5> QED BY <2>3, <3>1, <5>3
      <4> QED BY <4>1, <4>2
    <3> QED BY <1>1, <1>3, <2>2, <2>5, <3>1, SequentialIdle
  <2>6. ASSUME NEW d \in touched[w], \A k \in touched[w] : d <= k,
               from' = [from EXCEPT ![w] = d], Goto(w, "list")
        PROVE  SequentialInv(w)'
    <3>1. pc'[w] = "list" /\ from'[w] = d
      BY <1>1, <2>6 DEF RequestsTyped, Goto
    <3>2. ASSUME NEW m \in Months, m < d, ~excused PROVE AgreesWithFacts(m)'
      <4>1. Undisturbed(m, touched[w])
        BY <2>4, <2>6, <3>2 DEF Undisturbed, Months
      <4> QED BY <2>2, <2>3, <3>2, <4>1
    <3> QED BY <1>1, <3>1, <3>2
        DEF SequentialInv, WalkKnows, CorrectionOnCourse, WriteOnCourse, AgreesSoFar,
            Correcting, Walking, Resolving
  <2> QED BY <1>9, <2>5, <2>6 DEF Correct
<1> QED BY <1>5, <1>6, <1>7, <1>8, <1>9

\* Going on to the next listed period, or ending when there is none.
LEMMA RecalculateOnCourse ==
  ASSUME IInv, IInv', excused' = excused, NEW w \in Workers, kind[w] # "summarize",
         NEW periods, NEW last \in Int, last >= from[w] - 1,
         Recalculate(w, periods, last),
         \A m \in Months : m > last => periods[m] = row'[m],
         \A m \in Months :
           m <= last /\ (m >= from[w] \/ ~excused) => AgreesWithFacts(m)'
  PROVE  /\ SequentialInv(w)'
         /\ pc'[w] = "idle" => \A m \in Months : m >= from[w] => AgreesWithFacts(m)'
<1>1. RequestsTyped /\ from[w] \in Months
  BY DEF IInv, TypeOK, RequestsTyped
<1>2. \A m \in Months : row'[m] = NoRow => AgreesWithFacts(m)'
  BY DEF AgreesWithFacts
<1>3. ASSUME \A m \in Months : m > last => periods[m] = NoRow, Done(w)
      PROVE  /\ SequentialInv(w)'
             /\ \A m \in Months : m >= from[w] => AgreesWithFacts(m)'
  <2>1. \A m \in Months : m >= from[w] \/ ~excused => AgreesWithFacts(m)'
    BY <1>2, <1>3 DEF Months
  <2>2. pc'[w] = "idle"
    BY <1>1, <1>3 DEF Done, Goto, RequestsTyped
  <2> QED BY <2>1, <2>2, SequentialIdle
<1>4. ASSUME NEW n \in Months, n > last, periods[n] # NoRow,
             \A m \in Months : m > last /\ periods[m] # NoRow => n <= m,
             listed' = [listed EXCEPT ![w] = periods],
             top' = [top EXCEPT ![w] = n],
             cursor' = [cursor EXCEPT ![w] = n],
             Goto(w, "origin"), UNCHANGED <<kind, from>>
      PROVE  SequentialInv(w)' /\ pc'[w] # "idle"
  <2>1. /\ pc'[w] = "origin" /\ cursor'[w] = n /\ top'[w] = n /\ listed'[w] = periods
        /\ kind'[w] = kind[w] /\ from'[w] = from[w]
    BY <1>1, <1>4 DEF Goto, RequestsTyped
  <2>2. from[w] <= n
    BY <1>1, <1>4 DEF Months
  <2>3. \A m \in Months : m >= n => periods[m] = row'[m]
    BY <1>4 DEF Months
  <2>4. ASSUME NEW m \in Months, m < n, m >= from[w] \/ ~excused
        PROVE  AgreesWithFacts(m)'
    <3>1. CASE m <= last
      BY <2>4, <3>1
    <3>2. CASE m > last
      <4>1. periods[m] = NoRow
        BY <1>4, <2>4, <3>2 DEF Months
      <4> QED BY <1>2, <3>2, <4>1
    <3> QED BY <3>1, <3>2 DEF Months
  <2>5. WalkKnows(w)'
    BY <2>1 DEF WalkKnows, Months
  <2>6. CorrectionOnCourse(w)'
    BY <2>1, <2>2, <2>3, <2>4 DEF CorrectionOnCourse, Correcting, Walking
  <2>7. WriteOnCourse(w)' /\ AgreesSoFar(w)'
    BY <2>1 DEF WriteOnCourse, AgreesSoFar, Correcting, Walking
  <2> QED BY <2>1, <2>5, <2>6, <2>7 DEF SequentialInv
<1> QED BY <1>3, <1>4 DEF Recalculate

\* Where a correction stands when it applies or writes a period.
LEMMA ApplyOnCourse ==
  ASSUME NEW w \in Workers, SequentialInv(w), pc[w] \in {"apply", "write"}
  PROVE  /\ kind[w] # "summarize" /\ top[w] \in Months /\ from[w] \in Months
         /\ from[w] <= top[w]
         /\ listed[w][top[w]] = row[top[w]] /\ row[top[w]] \in Row
         /\ \A m \in Months : m >= top[w] => listed[w][m] = row[m]
         /\ \A m \in Months :
              m < top[w] /\ (m >= from[w] \/ ~excused) => AgreesWithFacts(m)
         /\ KnowsPrevious(top[w], prev[w])
         /\ prev[w] \in Row \cup {NoRow} /\ CarryFrom(prev[w]) \in Int
<1>1. /\ RequestsTyped /\ RequestOnPath(w) /\ TypeOK /\ WalkKnows(w)
      /\ CorrectionOnCourse(w)
  BY DEF SequentialInv, IInv, TypeOK, RequestsTyped
<1>2. kind[w] # "summarize" /\ listed[w][top[w]] # NoRow /\ Correcting(w)
  BY <1>1 DEF RequestOnPath, Walking, Correcting
<1>3. top[w] \in Months /\ from[w] \in Months /\ prev[w] \in Row \cup {NoRow}
  BY <1>1 DEF RequestsTyped
<1>4. /\ from[w] <= top[w]
      /\ \A m \in Months : m >= top[w] => listed[w][m] = row[m]
      /\ \A m \in Months :
           m < top[w] /\ (m >= from[w] \/ ~excused) => AgreesWithFacts(m)
  BY <1>1, <1>2 DEF CorrectionOnCourse
<1>5. listed[w][top[w]] = row[top[w]]
  BY <1>3, <1>4 DEF Months
<1>6. row[top[w]] \in Row
  BY <1>1, <1>2, <1>3, <1>5 DEF TypeOK
<1>7. CarryFrom(prev[w]) \in Int
  BY <1>3 DEF CarryFrom, Row
<1> QED BY <1>1, <1>2, <1>3, <1>4, <1>5, <1>6, <1>7 DEF WalkKnows

\* What the computed row holds.
LEMMA ImageFields ==
  ASSUME NEW w \in Workers, NEW p \in Row, p = listed[w][top[w]],
         top[w] \in Months, CarryFrom(prev[w]) \in Int
  PROVE  /\ Image(w) \in Row
         /\ Image(w).status = p.status /\ Image(w).base = p.base
         /\ Image(w).carry = CarryFrom(prev[w])
         /\ p.status = "CLOSED" =>
              /\ Image(w).income = Income(top[w]) /\ Image(w).expense = Expense(top[w])
              /\ Image(w).remaining =
                   p.base + Income(top[w]) - Expense(top[w]) + CarryFrom(prev[w])
<1> DEFINE c == CarryFrom(prev[w])
<1>1. CASE p.status = "OPEN"
  <2>1. Image(w) = [p EXCEPT !.carry = c]
    BY <1>1 DEF Image
  <2> HIDE DEF c
  <2> QED BY <1>1, <2>1 DEF Row, c
<1>2. CASE p.status # "OPEN"
  <2>1. Image(w) = Recomputed(p, top[w], c)
    BY <1>2 DEF Image
  <2>2. /\ Image(w) \in Row /\ Image(w).status = p.status /\ Image(w).base = p.base
    BY <2>1, RecomputedType
  <2> HIDE DEF c
  <2>3. /\ Image(w).carry = c
        /\ Image(w).income = Income(top[w]) /\ Image(w).expense = Expense(top[w])
        /\ Image(w).remaining = p.base + Income(top[w]) - Expense(top[w]) + c
    BY <2>1 DEF Recomputed, Row
  <2> QED BY <2>2, <2>3 DEF c
<1> QED BY <1>1, <1>2

\* Corrections.
LEMMA SequentialCorrection ==
  ASSUME NEW w \in Workers, SequentialInv(w), IInv',
         ListFrom(w) \/ ComputePeriod(w) \/ WritePeriod(w)
  PROVE  /\ SequentialInv(w)'
         /\ pc'[w] = "idle" => \A m \in Months : m >= from[w] => AgreesWithFacts(m)'
<1>1. /\ IInv /\ TypeOK /\ TypeOK' /\ RequestsTyped /\ RequestOnPath(w)
      /\ ops' = ops /\ excused' = excused /\ NoRow \notin Row
  BY SentinelAssumption
  DEF SequentialInv, IInv, TypeOK, RequestsTyped, ListFrom, ComputePeriod, WritePeriod, db
<1>2. CASE ListFrom(w)
  <2> DEFINE periods == [m \in Months |-> IF m >= from[w] THEN row[m] ELSE NoRow]
  <2>1. /\ pc[w] = "list" /\ row' = row /\ from[w] \in Months /\ kind[w] # "summarize"
        /\ Recalculate(w, periods, from[w] - 1)
    BY <1>1, <1>2 DEF ListFrom, db, RequestsTyped, RequestOnPath
  <2>2. \A m \in Months : AgreesWithFacts(m) => AgreesWithFacts(m)'
    BY <1>1, <2>1, SameChain DEF ChainKept
  <2>3. ~excused => \A m \in Months : m < from[w] => AgreesWithFacts(m)
    BY <2>1 DEF SequentialInv, AgreesSoFar
  <2>4. \A m \in Months : m > from[w] - 1 => periods[m] = row'[m]
    BY <2>1 DEF Months
  <2>5. \A m \in Months : m <= from[w] - 1 /\ (m >= from[w] \/ ~excused)
          => AgreesWithFacts(m)'
    BY <2>1, <2>2, <2>3 DEF Months
  <2>6. PICK last \in Int : last = from[w] - 1
    BY <2>1 DEF Months
  <2>7. PICK ps : ps = periods
    OBVIOUS
  <2> HIDE DEF periods
  <2> QED BY <1>1, <2>1, <2>4, <2>5, <2>6, <2>7, RecalculateOnCourse
<1>3. CASE ComputePeriod(w)
  <2>1. /\ pc[w] = "apply" /\ row' = row
        /\ \/ Image(w) = listed[w][top[w]] /\ Recalculate(w, listed[w], top[w])
           \/ /\ held' = [held EXCEPT ![w] = Image(w)]
              /\ Goto(w, "write")
              /\ UNCHANGED <<request, cursor, prev, tries>>
    BY <1>3 DEF ComputePeriod, db, Image
  <2>2. PICK t \in Months, f \in Months, p \in Row, q \in Row \cup {NoRow} :
          t = top[w] /\ f = from[w] /\ p = row[t] /\ q = prev[w]
    BY <2>1, ApplyOnCourse
  <2>3. /\ kind[w] # "summarize" /\ f <= t /\ listed[w][t] = p
        /\ \A m \in Months : m >= t => listed[w][m] = row[m]
        /\ \A m \in Months : m < t /\ (m >= f \/ ~excused) => AgreesWithFacts(m)
        /\ KnowsPrevious(t, q) /\ CarryFrom(q) \in Int
    BY <2>1, <2>2, ApplyOnCourse
  <2>4. \A m \in Months : AgreesWithFacts(m) => AgreesWithFacts(m)'
    BY <1>1, <2>1, SameChain DEF ChainKept
  <2>5. CASE Image(w) = listed[w][top[w]] /\ Recalculate(w, listed[w], top[w])
    <3>1. /\ p.carry = CarryFrom(q)
          /\ p.status = "CLOSED" =>
               /\ p.income = Income(t) /\ p.expense = Expense(t)
               /\ p.remaining = p.base + Income(t) - Expense(t) + p.carry
      BY <2>2, <2>3, <2>5, ImageFields
    <3>2. AgreesWithFacts(t)'
      BY <1>1, <2>1, <2>2, <2>3, <3>1, WrittenAgrees
    <3>3. \A m \in Months : m <= t /\ (m >= f \/ ~excused) => AgreesWithFacts(m)'
      BY <2>3, <2>4, <3>2 DEF Months
    <3>4. \A m \in Months : m > t => listed[w][m] = row'[m]
      BY <2>1, <2>3 DEF Months
    <3>5. PICK ps : ps = listed[w]
      OBVIOUS
    <3>6. t \in Int /\ t >= from[w] - 1 /\ Recalculate(w, ps, t)
      BY <2>2, <2>3, <2>5, <3>5 DEF Months
    <3> QED BY <1>1, <2>2, <2>3, <3>3, <3>4, <3>5, <3>6, RecalculateOnCourse
  <2>6. CASE /\ held' = [held EXCEPT ![w] = Image(w)]
             /\ Goto(w, "write")
             /\ UNCHANGED <<request, cursor, prev, tries>>
    <3>1. /\ pc'[w] = "write" /\ held'[w] = Image(w) /\ kind'[w] = kind[w]
          /\ cursor'[w] = cursor[w] /\ top'[w] = t /\ from'[w] = f
          /\ prev'[w] = q /\ listed'[w] = listed[w]
      BY <1>1, <2>2, <2>6 DEF Goto, RequestsTyped, request
    <3>2. Image(w)' = Image(w)
      BY <1>1, <2>2, <3>1 DEF Image, CarryFrom, Recomputed, Income, Expense, OpsIn
    <3>3. WalkKnows(w)'
      <4>1. KnowsPrevious(top[w], prev[w])'
        BY <1>1, <2>1, <2>3, <3>1 DEF KnowsPrevious, NothingBefore
      <4>2. cursor[w] < top[w] => ~NothingBefore(cursor[w] + 1)'
        BY <1>1, <2>1, <3>1 DEF SequentialInv, WalkKnows, Walking, NothingBefore
      <4> QED BY <2>2, <3>1, <4>1, <4>2 DEF WalkKnows
    <3>4. CorrectionOnCourse(w)'
      BY <1>1, <2>1, <2>3, <2>4, <3>1, <3>2 DEF CorrectionOnCourse
    <3>5. WriteOnCourse(w)' /\ AgreesSoFar(w)'
      BY <2>3, <3>1 DEF WriteOnCourse, AgreesSoFar, Correcting, Walking
    <3> QED BY <3>1, <3>3, <3>4, <3>5 DEF SequentialInv
  <2> QED BY <2>1, <2>5, <2>6
<1>4. CASE WritePeriod(w)
  <2>1. /\ pc[w] = "write" /\ Recalculate(w, listed[w], top[w])
        /\ row' = [row EXCEPT ![top[w]] =
                     [WithTotals(row[top[w]], held[w]) EXCEPT !.carry = held[w].carry]]
    BY <1>4 DEF WritePeriod
  <2>2. PICK t \in Months, f \in Months, p \in Row, q \in Row \cup {NoRow} :
          t = top[w] /\ f = from[w] /\ p = row[t] /\ q = prev[w]
    BY <2>1, ApplyOnCourse
  <2>3. /\ kind[w] # "summarize" /\ f <= t /\ listed[w][t] = p
        /\ \A m \in Months : m >= t => listed[w][m] = row[m]
        /\ \A m \in Months : m < t /\ (m >= f \/ ~excused) => AgreesWithFacts(m)
        /\ KnowsPrevious(t, q) /\ CarryFrom(q) \in Int
    BY <2>1, <2>2, ApplyOnCourse
  <2>4. held[w] = Image(w)
    BY <2>1, <2>3 DEF SequentialInv, CorrectionOnCourse, Correcting, Walking
  <2>5. PICK h \in Row :
          /\ h = held[w] /\ h.base = p.base /\ h.carry = CarryFrom(q)
          /\ p.status = "CLOSED" =>
               /\ h.income = Income(t) /\ h.expense = Expense(t)
               /\ h.remaining = p.base + Income(t) - Expense(t) + h.carry
    BY <2>2, <2>3, <2>4, ImageFields
  <2> DEFINE s == WithTotals(p, h)
             r == [s EXCEPT !.carry = h.carry]
  <2>6. /\ s \in Row /\ s.status = p.status /\ s.base = p.base
        /\ s.income = h.income /\ s.expense = h.expense /\ s.remaining = h.remaining
    <3>1. s \in Row /\ s.status = p.status /\ s.base = p.base
      BY WithTotalsType
    <3>2. s.income = h.income /\ s.expense = h.expense /\ s.remaining = h.remaining
      BY DEF WithTotals, Row
    <3> QED BY <3>1, <3>2
  <2> HIDE DEF s
  <2>7. /\ r \in Row /\ r.status = p.status /\ r.base = p.base /\ r.carry = h.carry
        /\ r.income = h.income /\ r.expense = h.expense /\ r.remaining = h.remaining
    BY <2>6 DEF Row
  <2>8. row' = [row EXCEPT ![t] = r]
    BY <2>1, <2>2, <2>5 DEF s
  <2> HIDE DEF r
  <2>9. row'[t] = r /\ \A m \in Months : m # t => row'[m] = row[m]
    BY <1>1, <2>8 DEF TypeOK
  <2>10. AgreesWithFacts(t)'
    <3>1. t - 1 \in Months => row'[t - 1] = row[t - 1]
      BY <2>9 DEF Months
    <3>2. row'[t] # NoRow /\ row'[t].carry = CarryFrom(q)
      BY <1>1, <2>5, <2>7, <2>9
    <3>3. row'[t].status = "CLOSED" =>
            /\ row'[t].income = Income(t) /\ row'[t].expense = Expense(t)
            /\ row'[t].remaining =
                 row'[t].base + Income(t) - Expense(t) + row'[t].carry
      BY <2>5, <2>7, <2>9
    <3> QED BY <1>1, <2>3, <3>1, <3>2, <3>3, WrittenAgrees
  <2>11. ASSUME NEW m \in Months, m < t, m >= f \/ ~excused PROVE AgreesWithFacts(m)'
    <3>1. AgreesWithFacts(m)
      BY <2>3, <2>11
    <3>2. row'[m] = row[m] /\ (m - 1 \in Months => row'[m - 1] = row[m - 1])
      BY <2>9, <2>11 DEF Months
    <3> QED BY <1>1, <2>11, <3>1, <3>2, SameFacts, AgreesFrame
  <2>12. \A m \in Months : m <= t /\ (m >= f \/ ~excused) => AgreesWithFacts(m)'
    BY <2>10, <2>11 DEF Months
  <2>13. \A m \in Months : m > t => listed[w][m] = row'[m]
    BY <2>3, <2>9 DEF Months
  <2>14. PICK ps : ps = listed[w]
    OBVIOUS
  <2>15. t \in Int /\ t >= from[w] - 1 /\ Recalculate(w, ps, t)
    BY <2>1, <2>2, <2>3, <2>14 DEF Months
  <2> QED BY <1>1, <2>2, <2>3, <2>12, <2>13, <2>14, <2>15, RecalculateOnCourse
<1> QED BY <1>2, <1>3, <1>4

\* Alone, a correction finds every row as it was listed.
LEMMA SequentialNoConflict ==
  ASSUME NEW w \in Workers, SequentialInv(w)
  PROVE  ~WriteConflict(w)
<1> SUFFICES ASSUME WriteConflict(w) PROVE FALSE
  OBVIOUS
<1>1. pc[w] = "write" /\ ~SameRevision(row[top[w]], listed[w][top[w]])
  BY DEF WriteConflict
<1>2. listed[w][top[w]] = row[top[w]] /\ row[top[w]] \in Row
  BY <1>1, ApplyOnCourse
<1> QED BY <1>1, <1>2, SentinelAssumption DEF SameRevision

\* How the calls of a walk end.
LEMMA WalkEnds ==
  ASSUME IInv, NEW w \in Workers, WalkCall(w)
  PROVE  \/ /\ pc'[w] = "idle"
            /\ excused' = (excused \/ kind[w] # "summarize")
         \/ pc'[w] = "idle" /\ kind[w] = "summarize" /\ excused' = excused
         \/ /\ pc'[w] \in Walking \ {"write"} /\ excused' = excused
            /\ kind'[w] = kind[w] /\ from'[w] = from[w]
            /\ top'[w] = top[w] /\ listed'[w] = listed[w]
<1>1. RequestsTyped
  BY DEF IInv, TypeOK, RequestsTyped
<1> DEFINE Goes == /\ pc'[w] \in Walking \ {"write"}
                   /\ kind'[w] = kind[w] /\ from'[w] = from[w]
                   /\ top'[w] = top[w] /\ listed'[w] = listed[w]
<1>2. Done(w) => pc'[w] = "idle"
  BY <1>1 DEF Done, Goto, RequestsTyped
<1>3. \A m, r : HavePrevious(w, m, r) => Goes
  BY <1>1 DEF HavePrevious, Goto, RequestsTyped, request, Walking, Resolving
<1>4. ASSUME NEW call \in Walking \ {"write"}, Goto(w, call), UNCHANGED request
      PROVE  Goes
  BY <1>1, <1>4 DEF Goto, RequestsTyped, request
<1>5. \A r : Resolved(w, r) => Goes \/ (pc'[w] = "idle" /\ kind[w] = "summarize")
  BY <1>2, <1>3, <1>4 DEF Resolved, Walking, Resolving
<1>6. \A r : Closed(w, r) => Goes \/ (pc'[w] = "idle" /\ kind[w] = "summarize")
  BY <1>2, <1>3 DEF Closed
<1>7. CASE FindPeriod(w)
  BY <1>4, <1>5, <1>7 DEF FindPeriod, Walking, Resolving
<1>8. CASE RefreshSnapshot(w)
  BY <1>2, <1>5, <1>8 DEF RefreshSnapshot, Fail
<1>9. CASE FirstActivity(w)
  BY <1>4, <1>9 DEF FirstActivity, Walking, Resolving
<1>10. CASE OpenPeriod(w)
  BY <1>2, <1>5, <1>10 DEF OpenPeriod, Fail
<1>11. CASE CloseRead(w)
  BY <1>4, <1>6, <1>11 DEF CloseRead, Walking, Resolving
<1>12. CASE CloseWrite(w)
  BY <1>6, <1>12 DEF CloseWrite
<1> QED BY <1>7, <1>8, <1>9, <1>10, <1>11, <1>12 DEF WalkCall

\* Walks, of summaries and of corrections.
LEMMA SequentialWalk ==
  ASSUME NEW w \in Workers, SequentialInv(w), IInv', WalkCall(w)
  PROVE  SequentialInv(w)'
<1>1. /\ IInv /\ TypeOK /\ RequestsTyped /\ RequestOnPath(w) /\ WalkKnows(w)
  BY DEF SequentialInv, IInv, TypeOK, RequestsTyped
<1>2. WalkKnows(w)' /\ ChainKept(cursor[w])
  BY <1>1, WalkStep
<1>3. \A m \in Months : AgreesWithFacts(m) => AgreesWithFacts(m)'
  BY <1>2 DEF ChainKept
<1>4. pc[w] \in Resolving \cup {"origin"}
  BY DEF WalkCall, FindPeriod, RefreshSnapshot, FirstActivity, OpenPeriod, CloseRead,
         CloseWrite, Resolving
<1>5. CASE kind[w] = "summarize"
  <2>1. ~excused => \A m \in Months : AgreesWithFacts(m)'
    <3>1. pc[w] \notin {"correct", "list"} /\ ~Correcting(w)
      BY <1>4, <1>5 DEF Correcting, Resolving
    <3> QED BY <1>3, <3>1 DEF SequentialInv, AgreesSoFar
  <2>2. excused' = excused
        /\ \/ pc'[w] = "idle"
           \/ pc'[w] \in Walking \ {"write"} /\ kind'[w] = kind[w]
    BY <1>1, <1>5, WalkEnds DEF SequentialInv, IInv, TypeOK
  <2>3. CorrectionOnCourse(w)' /\ WriteOnCourse(w)' /\ AgreesSoFar(w)'
    BY <1>5, <2>1, <2>2
    DEF CorrectionOnCourse, WriteOnCourse, AgreesSoFar, Correcting, Walking, Resolving
  <2> QED BY <1>2, <2>3 DEF SequentialInv
<1>6. CASE kind[w] # "summarize"
  <2>1. /\ from[w] <= top[w] /\ top[w] \in Months /\ cursor[w] \in Months
        /\ \A m \in Months : m >= top[w] => listed[w][m] = row[m]
        /\ \A m \in Months :
             m < top[w] /\ (m >= from[w] \/ ~excused) => AgreesWithFacts(m)
    BY <1>1, <1>4, <1>6
    DEF SequentialInv, CorrectionOnCourse, Correcting, Walking, RequestsTyped
  <2>2. \A m \in Months : m >= top[w] => row'[m] = row[m]
    <3>1. CASE pc[w] = "origin"
      BY <3>1
      DEF WalkCall, FindPeriod, RefreshSnapshot, FirstActivity, OpenPeriod, CloseRead,
          CloseWrite, db
    <3>2. CASE pc[w] \in Resolving
      <4>1. cursor[w] < top[w]
        BY <1>1, <1>6, <3>2 DEF RequestOnPath, Walking
      <4> QED BY <1>2, <2>1, <4>1 DEF ChainKept, Months
    <3> QED BY <1>4, <3>1, <3>2
  <2>3. CASE pc'[w] = "idle" /\ excused' = TRUE
    BY <2>3, SequentialIdle
  <2>4. CASE /\ pc'[w] \in Walking \ {"write"} /\ excused' = excused
             /\ kind'[w] = kind[w] /\ from'[w] = from[w]
             /\ top'[w] = top[w] /\ listed'[w] = listed[w]
    <3>1. CorrectionOnCourse(w)'
      BY <1>3, <2>1, <2>2, <2>4 DEF CorrectionOnCourse
    <3>2. WriteOnCourse(w)' /\ AgreesSoFar(w)'
      BY <1>6, <2>4 DEF WriteOnCourse, AgreesSoFar, Correcting, Walking, Resolving
    <3> QED BY <1>2, <3>1, <3>2 DEF SequentialInv
  <2> QED BY <1>1, <1>6, <2>3, <2>4, WalkEnds
<1> QED BY <1>5, <1>6

\* Time, fixed operations and steps of nobody.
LEMMA SequentialStays ==
  ASSUME NEW w \in Workers, SequentialInv(w), IInv',
         UNCHANGED <<ops, row, pc, request, cursor, prev, held, excused>>
  PROVE  SequentialInv(w)'
<1>1. IInv /\ TypeOK /\ TypeOK' /\ RequestsTyped /\ WalkKnows(w) /\ Unmoved(w)
  BY DEF SequentialInv, IInv, TypeOK, RequestsTyped, Unmoved, request
<1>2. \A m \in Months : AgreesWithFacts(m) => AgreesWithFacts(m)'
  BY <1>1, SameChain DEF ChainKept
<1>3. WalkKnows(w)'
  BY <1>1, SameFacts, OtherKnows
<1>4. Image(w)' = Image(w)
  BY DEF Image, CarryFrom, Recomputed, Income, Expense, OpsIn, request
<1>5. CorrectionOnCourse(w)'
  BY <1>2, <1>4 DEF SequentialInv, CorrectionOnCourse, Correcting, request
<1>6. WriteOnCourse(w)'
  BY DEF SequentialInv, WriteOnCourse, request
<1>7. AgreesSoFar(w)'
  BY <1>2 DEF SequentialInv, AgreesSoFar, Undisturbed, Correcting, request
<1> QED BY <1>3, <1>5, <1>6, <1>7 DEF SequentialInv

LEMMA SequentialNext ==
  ASSUME NEW w, Workers = {w}
  PROVE  SequentialInv(w) /\ [Next]_vars => SequentialInv(w)'
<1> SUFFICES ASSUME SequentialInv(w), [Next]_vars PROVE SequentialInv(w)'
  OBVIOUS
<1>1. IInv /\ IInv' /\ RequestsTyped
  BY NextInv DEF SequentialInv, IInv, TypeOK, RequestsTyped
<1>2. CASE Start(w)
  BY <1>1, <1>2, SequentialStart
<1>3. CASE Continue(w)
  BY <1>1, <1>3, SequentialWrite, SequentialCorrection, SequentialNoConflict,
     SequentialWalk DEF Continue, WalkCall
<1>4. CASE Crash(w)
  <2>1. pc'[w] = "idle" /\ excused' = TRUE
    BY <1>1, <1>4 DEF Crash, Done, Goto, RequestsTyped
  <2> QED BY <1>1, <2>1, SequentialIdle
<1>5. CASE Rollover \/ ChangeFixed \/ UNCHANGED vars
  BY <1>1, <1>5, SequentialStays DEF Rollover, ChangeFixed, vars, request
<1> QED BY <1>2, <1>3, <1>4, <1>5 DEF Next

LEMMA InitSequential ==
  ASSUME NEW w, Workers = {w}
  PROVE  Init => SequentialInv(w)
<1> SUFFICES ASSUME Init PROVE SequentialInv(w)
  OBVIOUS
<1>1. IInv /\ pc[w] = "idle" /\ WalkKnows(w) /\ \A m \in Months : AgreesWithFacts(m)
  BY InitInv, InitAgrees
<1> QED BY <1>1
    DEF SequentialInv, CorrectionOnCourse, WriteOnCourse, AgreesSoFar, Correcting,
        Walking, Resolving

\* One request at a time, of any kind, with months ending and fixed operations
\* changing in the middle of it: whenever none is running and none died or gave
\* up, every row agrees with the operations and with the row before it.
THEOREM SequentialSettled ==
  ASSUME NEW w, Workers = {w}
  PROVE  Spec => []SettledChain
<1>1. Init => SequentialInv(w)
  BY InitSequential
<1>2. SequentialInv(w) /\ [Next]_vars => SequentialInv(w)'
  BY SequentialNext
<1>3. SequentialInv(w) => SettledChain
  BY DEF SequentialInv, AgreesSoFar, SettledChain, Correcting, Walking, Resolving
<1> QED BY <1>1, <1>2, <1>3, PTL DEF Spec

\* One request at a time: a correction that runs to its end leaves every row
\* from its month on in agreement, whatever earlier corrections that died had
\* left behind.
THEOREM SequentialRepairs ==
  ASSUME NEW u, Workers = {u}
  PROVE  Spec => CorrectionRepairs
<1>1. Init => SequentialInv(u)
  BY InitSequential
<1>2. SequentialInv(u) /\ [Next]_vars => SequentialInv(u)'
  BY SequentialNext
<1>3. SequentialInv(u) /\ [Next]_vars => [\A w \in Workers : CorrectionRepaired(w)]_vars
  <2> SUFFICES ASSUME SequentialInv(u), [Next]_vars,
                      ListFrom(u) \/ ComputePeriod(u) \/ WritePeriod(u), pc'[u] = "idle"
               PROVE  \A m \in Months : m >= from[u] => AgreesWithFacts(m)'
    BY DEF CorrectionRepaired
  <2>1. IInv'
    BY NextInv DEF SequentialInv
  <2> QED BY <2>1, SequentialCorrection
<1> QED BY <1>1, <1>2, <1>3, PTL DEF Spec, CorrectionRepairs

(* ---------------------------------------------------------------------- *)
(* A closed row adds up at every moment, also in the middle of concurrent  *)
(* corrections.                                                            *)

Sums(r) == r.remaining = r.base + r.income - r.expense + r.carry

\* Nobody writes the fixed base or the carry of a period while it is closed.
ClosingUndisturbed ==
  \A w \in Workers :
    pc[w] = "closeWrite" /\ pc'[w] = "closeWrite" =>
      /\ row'[cursor[w]].base = row[cursor[w]].base
      /\ row'[cursor[w]].carry = row[cursor[w]].carry

ClosingsUndisturbed == [][ClosingUndisturbed]_vars

\* A listed row is an earlier state of the row, and the same one as long as the
\* revision is the same.
ListedEarlier(w) ==
  \A m \in Months :
    listed[w][m] # NoRow =>
      /\ row[m] # NoRow
      /\ listed[w][m].revision <= row[m].revision
      /\ listed[w][m].revision = row[m].revision => listed[w][m] = row[m]

\* The totals about to be written add up with the base and the carry that the
\* row will have.
HeldAdds(w) ==
  /\ pc[w] = "write" =>
       /\ held[w].base = listed[w][top[w]].base
       /\ listed[w][top[w]].status = "CLOSED" => Sums(held[w])
  /\ pc[w] = "closeWrite" =>
       /\ held[w].base = row[cursor[w]].base
       /\ held[w].carry = row[cursor[w]].carry
       /\ Sums(held[w])

AddsInv ==
  IInv /\ ClosedRowAdds /\ \A w \in Workers : ListedEarlier(w) /\ HeldAdds(w)

Evolves(m) ==
  \/ row'[m] = row[m]
  \/ row[m] = NoRow /\ row'[m] \in Row /\ row'[m].status = "OPEN"
  \/ /\ row[m] # NoRow /\ row'[m] \in Row
     /\ row'[m].revision = row[m].revision + 1
     /\ row[m].status = "CLOSED" => row'[m].status = "CLOSED"

\* The row a correction writes.
LEMMA WrittenRow ==
  ASSUME IInv, NEW w \in Workers, WritePeriod(w), NEW t, t = top[w]
  PROVE  /\ t \in Months /\ row[t] \in Row /\ held[w] \in Row
         /\ listed[w][t] \in Row /\ listed[w][t].revision = row[t].revision
         /\ listed[w][t].status = row[t].status
         /\ row'[t] \in Row /\ row'[t].revision = row[t].revision + 1
         /\ row'[t].status = row[t].status /\ row'[t].base = row[t].base
         /\ row'[t].carry = held[w].carry /\ row'[t].income = held[w].income
         /\ row'[t].expense = held[w].expense /\ row'[t].remaining = held[w].remaining
         /\ \A m \in Months : m # t => row'[m] = row[m]
<1>1. /\ TypeOK /\ RequestOnPath(w) /\ NoRow \notin Row /\ pc[w] = "write"
      /\ kind[w] # "summarize"
  BY SentinelAssumption DEF IInv, WritePeriod, RequestOnPath
<1>2. /\ t \in Months /\ held[w] \in Row /\ row[t] \in Row /\ listed[w][t] \in Row
      /\ row \in [Months -> Row \cup {NoRow}]
  BY <1>1 DEF TypeOK, RequestOnPath, WritePeriod, SameRevision, Walking
<1>3. /\ listed[w][t].revision = row[t].revision
      /\ listed[w][t].status = row[t].status
  BY DEF WritePeriod, SameRevision
<1> DEFINE r == WithTotals(row[t], held[w])
<1>4. /\ r \in Row /\ r.base = row[t].base /\ r.status = row[t].status
      /\ r.revision = row[t].revision + 1
  BY <1>2, WithTotalsType
<1>5. /\ r.income = held[w].income /\ r.expense = held[w].expense
      /\ r.remaining = held[w].remaining
  BY <1>2 DEF WithTotals, Row
<1>6. row' = [row EXCEPT ![t] = [r EXCEPT !.carry = held[w].carry]]
  BY DEF WritePeriod
<1> HIDE DEF r
<1>7. /\ row'[t] = [r EXCEPT !.carry = held[w].carry]
      /\ \A m \in Months : m # t => row'[m] = row[m]
  BY <1>2, <1>6
<1>8. held[w].carry \in Int
  BY <1>2 DEF Row
<1> QED BY <1>2, <1>3, <1>4, <1>5, <1>7, <1>8 DEF Row

\* The row a close writes.
LEMMA ClosedRow ==
  ASSUME IInv, NEW w \in Workers, CloseWrite(w), NEW c, c = cursor[w]
  PROVE  /\ c \in Months /\ row[c] \in Row /\ held[w] \in Row
         /\ row'[c] \in Row /\ row'[c].revision = row[c].revision + 1
         /\ row'[c].base = row[c].base /\ row'[c].carry = row[c].carry
         /\ row'[c].income = held[w].income /\ row'[c].expense = held[w].expense
         /\ row'[c].remaining = held[w].remaining /\ row'[c].status = "CLOSED"
         /\ \A m \in Months : m # c => row'[m] = row[m]
<1>1. /\ TypeOK /\ RequestOnPath(w) /\ NoRow \notin Row /\ pc[w] = "closeWrite"
  BY SentinelAssumption DEF IInv, CloseWrite
<1>2. /\ c \in Months /\ held[w] \in Row /\ row[c] \in Row
      /\ row \in [Months -> Row \cup {NoRow}]
  BY <1>1 DEF TypeOK, RequestOnPath
<1> DEFINE r == WithTotals(row[c], held[w])
<1>4. /\ r \in Row /\ r.base = row[c].base /\ r.revision = row[c].revision + 1
  BY <1>2, WithTotalsType
<1>5. /\ r.income = held[w].income /\ r.expense = held[w].expense
      /\ r.remaining = held[w].remaining /\ r.carry = row[c].carry
  BY <1>2 DEF WithTotals, Row
<1>6. row' = [row EXCEPT ![c] = [r EXCEPT !.status = "CLOSED"]]
  BY DEF CloseWrite
<1> HIDE DEF r
<1>7. /\ row'[c] = [r EXCEPT !.status = "CLOSED"]
      /\ \A m \in Months : m # c => row'[m] = row[m]
  BY <1>2, <1>6
<1> QED BY <1>2, <1>4, <1>5, <1>7 DEF Row

\* The row a reading of the current month refreshes or opens.
LEMMA TouchedRow ==
  ASSUME IInv, NEW w \in Workers, RefreshSnapshot(w) \/ OpenPeriod(w),
         NEW c, c = cursor[w]
  PROVE  /\ c \in Months
         /\ \A m \in Months : m # c => row'[m] = row[m]
         /\ Evolves(c) /\ (row'[c] = row[c] \/ row'[c].status = "OPEN")
<1>1. /\ TypeOK /\ RequestOnPath(w) /\ NoRow \notin Row
      /\ c \in Months /\ row \in [Months -> Row \cup {NoRow}]
  BY SentinelAssumption DEF IInv, TypeOK
<1>2. CASE row' = row
  BY <1>1, <1>2 DEF Evolves
<1>3. CASE RefreshSnapshot(w) /\ row' # row
  <2>1. /\ row[c] \in Row /\ held[w] \in Row /\ row[c].status = "OPEN"
        /\ row' = [row EXCEPT ![c] =
                     [row[c] EXCEPT !.base = held[w].base,
                                    !.revision = row[c].revision + 1]]
    BY <1>1, <1>3 DEF RefreshSnapshot, RequestOnPath, TypeOK
  <2>2. /\ row'[c] = [row[c] EXCEPT !.base = held[w].base,
                                    !.revision = row[c].revision + 1]
        /\ \A m \in Months : m # c => row'[m] = row[m]
    BY <1>1, <2>1
  <2> DEFINE a == [row[c] EXCEPT !.base = held[w].base]
  <2>3. a \in Row /\ a.status = "OPEN"
    BY <2>1 DEF Row
  <2>4. row'[c] = [a EXCEPT !.revision = row[c].revision + 1]
    BY <2>2
  <2> HIDE DEF a
  <2>5. /\ row'[c] \in Row /\ row'[c].status = "OPEN"
        /\ row'[c].revision = row[c].revision + 1
    BY <2>1, <2>3, <2>4 DEF Row
  <2> QED BY <1>1, <2>1, <2>2, <2>5 DEF Evolves
<1>4. CASE OpenPeriod(w) /\ row' # row
  <2> DEFINE fresh == OpenRow(OpeningBase(w), CarryFrom(prev[w]))
  <2>1. row[c] = NoRow /\ row' = [row EXCEPT ![c] = fresh]
    BY <1>1, <1>4 DEF OpenPeriod
  <2>2. CarryFrom(prev[w]) \in Int /\ OpeningBase(w) \in Int
    BY <1>1 DEF OpeningBase, CarryFrom, TypeOK, Row
  <2>3. fresh \in Row /\ fresh.status = "OPEN"
    BY <2>2, OpenRowType
  <2> HIDE DEF fresh
  <2> QED BY <1>1, <2>1, <2>3 DEF Evolves
<1> QED BY <1>2, <1>3, <1>4

\* Every step opens a row, gives it the next revision, or leaves it alone.
LEMMA RowEvolves ==
  ASSUME IInv, [Next]_vars, NEW m \in Months
  PROVE  Evolves(m)
<1>1. CASE row' = row
  BY <1>1 DEF Evolves
<1>2. ASSUME NEW w \in Workers,
             Start(w) \/ Continue(w) \/ Crash(w), row' # row
      PROVE  Evolves(m)
  <2>1. WritePeriod(w) \/ CloseWrite(w) \/ RefreshSnapshot(w) \/ OpenPeriod(w)
    BY <1>2
    DEF Start, Continue, Create, ReadBefore, CheckPeriodOpen, Summarize, Crash, db,
        CommitUpdate, CommitDelete, CommitNotFound, InsertRealized, Correct, ListFrom,
        ComputePeriod, WriteConflict, FindPeriod, FirstActivity, CloseRead
  <2>2. CASE WritePeriod(w)
    <3>1. PICK t : t = top[w]
      OBVIOUS
    <3> QED BY <2>2, <3>1, WrittenRow, SentinelAssumption DEF Evolves
  <2>3. CASE CloseWrite(w)
    <3>1. PICK c : c = cursor[w]
      OBVIOUS
    <3> QED BY <2>3, <3>1, ClosedRow, SentinelAssumption DEF Evolves
  <2>4. CASE RefreshSnapshot(w) \/ OpenPeriod(w)
    <3>1. PICK c : c = cursor[w]
      OBVIOUS
    <3> QED BY <2>4, <3>1, TouchedRow DEF Evolves
  <2> QED BY <2>1, <2>2, <2>3, <2>4
<1>3. CASE Rollover \/ ChangeFixed \/ UNCHANGED vars
  BY <1>1, <1>3 DEF Rollover, ChangeFixed, vars
<1> QED BY <1>1, <1>2, <1>3 DEF Next

\* Rows evolving so, what a request listed stays an earlier state of them.
LEMMA ListedStays ==
  ASSUME IInv, [Next]_vars, NEW w \in Workers, ListedEarlier(w),
         \A m \in Months :
           \/ listed'[w][m] = NoRow \/ listed'[w][m] = listed[w][m]
           \/ listed'[w][m] = row'[m]
  PROVE  ListedEarlier(w)'
<1> SUFFICES ASSUME NEW m \in Months, listed'[w][m] # NoRow
             PROVE  /\ row'[m] # NoRow
                    /\ listed'[w][m].revision <= row'[m].revision
                    /\ listed'[w][m].revision = row'[m].revision =>
                         listed'[w][m] = row'[m]
  BY DEF ListedEarlier
<1>1. /\ NoRow \notin Row /\ row[m] \in Row \cup {NoRow}
      /\ row'[m] \in Row \cup {NoRow} /\ listed[w][m] \in Row \cup {NoRow}
      /\ \A r \in Row : r.revision \in Nat
  BY NextInv, SentinelAssumption DEF IInv, TypeOK, Row
<1>2. CASE listed'[w][m] = row'[m]
  BY <1>1, <1>2
<1>3. CASE listed'[w][m] = listed[w][m]
  <2>1. PICK l \in Row : l = listed[w][m]
    BY <1>1, <1>3
  <2>2. /\ row[m] # NoRow /\ l.revision <= row[m].revision
        /\ l.revision = row[m].revision => l = row[m]
    BY <1>3, <2>1 DEF ListedEarlier
  <2>3. Evolves(m)
    BY RowEvolves
  <2> QED BY <1>1, <1>3, <2>1, <2>2, <2>3 DEF Evolves
<1> QED BY <1>2, <1>3

\* What a step makes of the rows a request listed.
LEMMA ListedNext ==
  ASSUME IInv, NEW w \in Workers, Start(w) \/ Continue(w) \/ Crash(w),
         NEW m \in Months
  PROVE  \/ listed'[w][m] = NoRow \/ listed'[w][m] = listed[w][m]
         \/ listed'[w][m] = row'[m]
<1>1. RequestsTyped
  BY DEF IInv, TypeOK, RequestsTyped
<1>2. ASSUME Done(w) PROVE listed'[w][m] = NoRow
  BY <1>1, <1>2 DEF Done, RequestsTyped
<1>3. ASSUME NEW n, NEW r, HavePrevious(w, n, r) PROVE listed' = listed
  BY <1>3 DEF HavePrevious, request
<1>4. ASSUME NEW r, Resolved(w, r) PROVE listed'[w][m] = NoRow \/ listed' = listed
  BY <1>2, <1>3, <1>4 DEF Resolved, request
<1>5. ASSUME NEW r, Closed(w, r) PROVE listed'[w][m] = NoRow \/ listed' = listed
  BY <1>2, <1>3, <1>5 DEF Closed
<1>6. ASSUME NEW periods, NEW n, Recalculate(w, periods, n)
      PROVE  listed'[w][m] = NoRow \/ listed'[w] = periods
  BY <1>1, <1>2, <1>6 DEF Recalculate, RequestsTyped
<1>7. CASE Start(w)
  BY <1>7 DEF Start, Create, ReadBefore, CheckPeriodOpen, Summarize
<1>8. CASE CommitUpdate(w) \/ CommitDelete(w) \/ CommitNotFound(w) \/ InsertRealized(w)
           \/ Correct(w) \/ WriteConflict(w) \/ FirstActivity(w) \/ Crash(w)
  BY <1>2, <1>8
  DEF CommitUpdate, CommitDelete, CommitNotFound, InsertRealized, Correct,
      WriteConflict, FirstActivity, Crash, request
<1>9. CASE ListFrom(w)
  <2> DEFINE periods == [n \in Months |-> IF n >= from[w] THEN row[n] ELSE NoRow]
  <2>1. Recalculate(w, periods, from[w] - 1) /\ row' = row
    BY <1>9 DEF ListFrom, db
  <2>2. periods[m] = NoRow \/ periods[m] = row'[m]
    BY <2>1
  <2> HIDE DEF periods
  <2> QED BY <1>6, <2>1, <2>2
<1>10. CASE ComputePeriod(w) \/ WritePeriod(w)
  BY <1>6, <1>10 DEF ComputePeriod, WritePeriod, request
<1>11. CASE FindPeriod(w) \/ RefreshSnapshot(w) \/ OpenPeriod(w)
  BY <1>2, <1>4, <1>11 DEF FindPeriod, RefreshSnapshot, OpenPeriod, Fail, request
<1>12. CASE CloseRead(w) \/ CloseWrite(w)
  BY <1>5, <1>12 DEF CloseRead, CloseWrite, request
<1> QED BY <1>7, <1>8, <1>9, <1>10, <1>11, <1>12 DEF Continue

\* Only a computation and the read of a close lead to a write of totals.
LEMMA HoldsNothing ==
  ASSUME IInv, NEW w \in Workers, Start(w) \/ Continue(w) \/ Crash(w)
  PROVE  \/ pc'[w] \notin {"write", "closeWrite"}
         \/ /\ ComputePeriod(w) /\ pc'[w] = "write" /\ held'[w] = Image(w)
            /\ UNCHANGED <<row, listed, top>>
         \/ /\ CloseRead(w) /\ pc'[w] = "closeWrite" /\ UNCHANGED <<row, cursor>>
            /\ held'[w] = Recomputed(row[cursor[w]], cursor[w], row[cursor[w]].carry)
<1> DEFINE quiet == pc'[w] \notin {"write", "closeWrite"}
<1>1. RequestsTyped
  BY DEF IInv, TypeOK, RequestsTyped
<1>2. ASSUME Done(w) PROVE quiet
  BY <1>1, <1>2 DEF Done, Goto, RequestsTyped
<1>3. ASSUME NEW n, NEW r, HavePrevious(w, n, r) PROVE quiet
  BY <1>1, <1>3 DEF HavePrevious, Goto, RequestsTyped
<1>4. ASSUME NEW r, Resolved(w, r) PROVE quiet
  <2>1. ASSUME Goto(w, "closeRead") PROVE quiet
    BY <1>1, <2>1 DEF Goto, RequestsTyped
  <2> QED BY <1>2, <1>3, <1>4, <2>1 DEF Resolved
<1>5. ASSUME NEW r, Closed(w, r) PROVE quiet
  BY <1>2, <1>3, <1>5 DEF Closed
<1>6. ASSUME NEW periods, NEW n, Recalculate(w, periods, n) PROVE quiet
  <2>1. ASSUME Goto(w, "origin") PROVE quiet
    BY <1>1, <2>1 DEF Goto, RequestsTyped
  <2> QED BY <1>2, <1>6, <2>1 DEF Recalculate
<1>7. CASE Start(w)
  BY <1>1, <1>7 DEF Start, Create, ReadBefore, CheckPeriodOpen, Summarize, Goto,
                    RequestsTyped
<1>8. CASE CommitUpdate(w) \/ CommitDelete(w) \/ CommitNotFound(w) \/ InsertRealized(w)
           \/ Crash(w)
  BY <1>1, <1>2, <1>8
  DEF CommitUpdate, CommitDelete, CommitNotFound, InsertRealized, Crash, Goto,
      RequestsTyped
<1>9. CASE Correct(w) \/ WriteConflict(w)
  <2>1. ASSUME Goto(w, "list") PROVE quiet
    BY <1>1, <2>1 DEF Goto, RequestsTyped
  <2> QED BY <1>2, <1>9, <2>1 DEF Correct, WriteConflict
<1>10. CASE FirstActivity(w)
  BY <1>1, <1>10 DEF FirstActivity, Goto, RequestsTyped
<1>11. CASE ListFrom(w) \/ WritePeriod(w)
  BY <1>6, <1>11 DEF ListFrom, WritePeriod
<1>12. CASE ComputePeriod(w)
  <2>1. CASE Recalculate(w, listed[w], top[w])
    BY <1>6, <2>1
  <2>2. CASE ~Recalculate(w, listed[w], top[w])
    BY <1>1, <1>12, <2>2
    DEF ComputePeriod, Goto, RequestsTyped, Image, request, db
  <2> QED BY <2>1, <2>2
<1>13. CASE FindPeriod(w)
  <2>1. CASE Resolved(w, row[cursor[w]])
    BY <1>4, <2>1
  <2>2. CASE ~Resolved(w, row[cursor[w]])
    BY <1>1, <1>13, <2>2 DEF FindPeriod, Goto, RequestsTyped
  <2> QED BY <2>1, <2>2
<1>14. CASE RefreshSnapshot(w) \/ OpenPeriod(w)
  BY <1>2, <1>4, <1>14 DEF RefreshSnapshot, OpenPeriod, Fail
<1>15. CASE CloseRead(w)
  <2>1. CASE Closed(w, row[cursor[w]])
    BY <1>5, <2>1
  <2>2. CASE ~Closed(w, row[cursor[w]])
    BY <1>1, <1>15, <2>2 DEF CloseRead, Goto, RequestsTyped
  <2> QED BY <2>1, <2>2
<1>16. CASE CloseWrite(w)
  BY <1>5, <1>16 DEF CloseWrite
<1> QED BY <1>7, <1>8, <1>9, <1>10, <1>11, <1>12, <1>13, <1>14, <1>15, <1>16
    DEF Continue

\* A chain that agrees with the facts adds up.
LEMMA AgreeingRowsAdd ==
  ASSUME TypeOK, \A m \in Months : AgreesWithFacts(m)
  PROVE  ClosedRowAdds
<1> SUFFICES ASSUME NEW m \in Months, row[m] # NoRow, row[m].status = "CLOSED"
             PROVE  row[m].remaining =
                      row[m].base + row[m].income - row[m].expense + row[m].carry
  BY DEF ClosedRowAdds
<1>1. row[m] \in Row /\ row[m] = Recomputed(row[m], m, row[m].carry)
  BY DEF TypeOK, AgreesWithFacts
<1> QED BY <1>1, RecomputedFields

\* Whatever a step writes to a closed row adds up.
LEMMA WritesAdd ==
  ASSUME AddsInv, NEW w \in Workers, Start(w) \/ Continue(w) \/ Crash(w)
  PROVE  ClosedRowAdds'
<1>1. IInv /\ ClosedRowAdds /\ ListedEarlier(w) /\ HeldAdds(w)
  BY DEF AddsInv
<1> SUFFICES ASSUME NEW m \in Months, row'[m] # NoRow, row'[m].status = "CLOSED",
                    row'[m] # row[m]
             PROVE  row'[m].remaining =
                      row'[m].base + row'[m].income - row'[m].expense + row'[m].carry
  BY <1>1 DEF ClosedRowAdds
<1>2. WritePeriod(w) \/ CloseWrite(w) \/ RefreshSnapshot(w) \/ OpenPeriod(w)
  BY DEF Start, Continue, Create, ReadBefore, CheckPeriodOpen, Summarize, Crash, db,
         CommitUpdate, CommitDelete, CommitNotFound, InsertRealized, Correct, ListFrom,
         ComputePeriod, WriteConflict, FindPeriod, FirstActivity, CloseRead
<1>3. CASE WritePeriod(w)
  <2>1. PICK t : t = top[w]
    OBVIOUS
  <2>2. m = t /\ pc[w] = "write" /\ NoRow \notin Row
    BY <1>1, <1>3, <2>1, WrittenRow, SentinelAssumption DEF WritePeriod
  <2>3. listed[w][m] = row[m]
    BY <1>1, <1>3, <2>1, <2>2, WrittenRow DEF ListedEarlier
  <2>4. held[w].base = row[m].base /\ Sums(held[w])
    BY <1>1, <1>3, <2>1, <2>2, <2>3, WrittenRow DEF HeldAdds
  <2> QED BY <1>1, <1>3, <2>1, <2>2, <2>4, WrittenRow DEF Sums
<1>4. CASE CloseWrite(w)
  <2>1. PICK c : c = cursor[w]
    OBVIOUS
  <2>2. m = c /\ pc[w] = "closeWrite"
    BY <1>1, <1>4, <2>1, ClosedRow DEF CloseWrite
  <2> QED BY <1>1, <1>4, <2>1, <2>2, ClosedRow DEF HeldAdds, Sums
<1>5. CASE RefreshSnapshot(w) \/ OpenPeriod(w)
  <2>1. PICK c : c = cursor[w]
    OBVIOUS
  <2> QED BY <1>1, <1>5, <2>1, TouchedRow
<1> QED BY <1>2, <1>3, <1>4, <1>5

\* What the request that moves is about to write.
LEMMA HeldNext ==
  ASSUME IInv, NEW w \in Workers, Start(w) \/ Continue(w) \/ Crash(w)
  PROVE  HeldAdds(w)'
<1>1. /\ TypeOK /\ RequestOnPath(w) /\ NoRow \notin Row
      /\ \A m \in Months : Income(m) \in Nat /\ Expense(m) \in Nat
  BY TotalsType, SentinelAssumption DEF IInv, TypeOK
<1>2. CASE pc'[w] \notin {"write", "closeWrite"}
  BY <1>2 DEF HeldAdds
<1>3. CASE /\ ComputePeriod(w) /\ pc'[w] = "write" /\ held'[w] = Image(w)
           /\ UNCHANGED <<row, listed, top>>
  <2>1. PICK t \in Months, p \in Row :
          /\ t = top[w] /\ p = listed[w][t] /\ CarryFrom(prev[w]) \in Int
    BY <1>1, <1>3
    DEF ComputePeriod, RequestOnPath, TypeOK, Walking, CarryFrom, Row
  <2>2. Image(w).base = p.base /\ (p.status = "CLOSED" => Sums(Image(w)))
    BY <2>1, ImageFields DEF Sums
  <2> QED BY <1>3, <2>1, <2>2 DEF HeldAdds, Sums
<1>4. CASE /\ CloseRead(w) /\ pc'[w] = "closeWrite" /\ UNCHANGED <<row, cursor>>
           /\ held'[w] = Recomputed(row[cursor[w]], cursor[w], row[cursor[w]].carry)
  <2>1. PICK c \in Months, r \in Row, k \in Int : c = cursor[w] /\ r = row[c] /\ k = r.carry
    BY <1>1, <1>4 DEF CloseRead, RequestOnPath, TypeOK, Row
  <2>2. held'[w] = Recomputed(r, c, k)
    BY <1>4, <2>1
  <2>3. /\ held'[w].base = r.base /\ held'[w].carry = k
        /\ held'[w].income = Income(c) /\ held'[w].expense = Expense(c)
        /\ held'[w].remaining = r.base + Income(c) - Expense(c) + k
    BY <2>2 DEF Recomputed, Row
  <2> QED BY <1>4, <2>1, <2>3 DEF HeldAdds, Sums
<1> QED BY <1>2, <1>3, <1>4, HoldsNothing

LEMMA AddsNext == AddsInv /\ [Next]_vars /\ [ClosingUndisturbed]_vars => AddsInv'
<1> SUFFICES ASSUME AddsInv, [Next]_vars, [ClosingUndisturbed]_vars PROVE AddsInv'
  OBVIOUS
<1>1. IInv /\ IInv' /\ \A w \in Workers : ListedEarlier(w) /\ HeldAdds(w)
  BY NextInv DEF AddsInv
<1>2. ASSUME NEW w \in Workers, Start(w) \/ Continue(w) \/ Crash(w), ClosingUndisturbed
      PROVE  AddsInv'
  <2>1. ClosedRowAdds'
    BY <1>2, WritesAdd
  <2>2. ListedEarlier(w)' /\ HeldAdds(w)'
    BY <1>1, <1>2, HeldNext, ListedNext, ListedStays
  <2>3. ASSUME NEW v \in Workers, v # w
        PROVE  ListedEarlier(v)' /\ HeldAdds(v)'
    <3>1. Unmoved(v)
      BY <1>1, <1>2, <2>3, OthersUnmoved
    <3>2. ListedEarlier(v)'
      BY <1>1, <3>1, ListedStays DEF Unmoved
    <3>3. pc[v] = "closeWrite" =>
            /\ row'[cursor[v]].base = row[cursor[v]].base
            /\ row'[cursor[v]].carry = row[cursor[v]].carry
      BY <1>2, <3>1 DEF ClosingUndisturbed, Unmoved
    <3>4. HeldAdds(v)
      BY <1>1
    <3>5. HeldAdds(v)'
      BY <3>1, <3>3, <3>4 DEF HeldAdds, Unmoved, Sums
    <3> QED BY <3>2, <3>5
  <2> QED BY <1>1, <2>1, <2>2, <2>3 DEF AddsInv
<1>3. CASE Rollover \/ ChangeFixed \/ UNCHANGED vars
  <2>1. UNCHANGED <<row, pc, listed, top, cursor, held>>
    BY <1>3 DEF Rollover, ChangeFixed, vars, request
  <2> QED BY <1>1, <2>1 DEF AddsInv, ClosedRowAdds, ListedEarlier, HeldAdds
<1>4. CASE UNCHANGED vars
  BY <1>3, <1>4
<1> QED BY <1>2, <1>3 DEF Next, vars

LEMMA InitAdds == Init => AddsInv
<1> SUFFICES ASSUME Init PROVE AddsInv
  OBVIOUS
<1>1. IInv /\ \A m \in Months : AgreesWithFacts(m)
  BY InitInv, InitAgrees
<1>2. \A w \in Workers : ListedEarlier(w) /\ HeldAdds(w)
  BY DEF Init, ListedEarlier, HeldAdds
<1>3. ClosedRowAdds
  BY <1>1, AgreeingRowsAdd DEF IInv
<1> QED BY <1>1, <1>2, <1>3 DEF AddsInv

\* Every closed row adds up at every moment, in the middle of concurrent
\* corrections that die or give up too, as long as nobody writes the base or the
\* carry of a row while it is being closed: repository.close reads both before
\* it writes, and the owner lock it holds keeps neither a correction nor a
\* refresh of the fixed snapshot away.
THEOREM ClosingsAdd == Spec /\ ClosingsUndisturbed => []ClosedRowAdds
<1>1. Init => AddsInv
  BY InitAdds
<1>2. AddsInv /\ [Next]_vars /\ [ClosingUndisturbed]_vars => AddsInv'
  BY AddsNext
<1>3. AddsInv => ClosedRowAdds
  BY DEF AddsInv
<1> QED BY <1>1, <1>2, <1>3, PTL DEF Spec, ClosingsUndisturbed

\* The hypothesis holds of requests that come one at a time: a close is two
\* calls of the only request there is.
THEOREM SequentialAdds ==
  ASSUME NEW w, Workers = {w}
  PROVE  Spec => []ClosedRowAdds
<1>1. IInv /\ [Next]_vars => [ClosingUndisturbed]_vars
  <2> SUFFICES ASSUME IInv, [Next]_vars, pc[w] = "closeWrite", pc'[w] = "closeWrite"
               PROVE  /\ row'[cursor[w]].base = row[cursor[w]].base
                      /\ row'[cursor[w]].carry = row[cursor[w]].carry
    BY DEF ClosingUndisturbed
  <2>1. CASE Start(w) \/ Continue(w) \/ Crash(w)
    <3>1. ComputePeriod(w) \/ CloseRead(w)
      BY <2>1, HoldsNothing
    <3> QED BY <3>1 DEF ComputePeriod, CloseRead
  <2>2. CASE Rollover \/ ChangeFixed \/ UNCHANGED vars
    BY <2>2 DEF Rollover, ChangeFixed, vars
  <2> QED BY <2>1, <2>2 DEF Next
<1> QED BY <1>1, RequestsInOrder, ClosingsAdd, PTL DEF Spec, ClosingsUndisturbed

\* A call of a request ends no month and changes no base.
LEMMA CallsLeave ==
  ASSUME NEW w \in Workers, Start(w) \/ Continue(w)
  PROVE  now' = now /\ fixed' = fixed
<1>1. CASE Start(w)
  BY <1>1 DEF Start, Create, ReadBefore, CheckPeriodOpen, Summarize, db
<1>2. CASE CommitUpdate(w) \/ CommitDelete(w) \/ CommitNotFound(w) \/ InsertRealized(w)
  BY <1>2 DEF CommitUpdate, CommitDelete, CommitNotFound, InsertRealized, db
<1>3. CASE Correct(w) \/ ListFrom(w) \/ ComputePeriod(w) \/ WritePeriod(w) \/ WriteConflict(w)
  BY <1>3 DEF Correct, ListFrom, ComputePeriod, WritePeriod, WriteConflict, db
<1>4. CASE FindPeriod(w) \/ RefreshSnapshot(w) \/ FirstActivity(w)
  BY <1>4 DEF FindPeriod, RefreshSnapshot, FirstActivity, db
<1>5. CASE OpenPeriod(w) \/ CloseRead(w) \/ CloseWrite(w)
  BY <1>5 DEF OpenPeriod, CloseRead, CloseWrite, db
<1> QED BY <1>1, <1>2, <1>3, <1>4, <1>5 DEF Continue

\* Writers on a settled chain while no month ends: every past month is closed.
PastIsClosed ==
  \A m \in Months : m < now => row[m] # NoRow /\ row[m].status = "CLOSED"

LEMMA PastStaysClosed ==
  ASSUME "rollover" \notin Requests
  PROVE  IInv /\ PastIsClosed /\ [Next]_vars => PastIsClosed'
<1> SUFFICES ASSUME IInv, PastIsClosed, [Next]_vars,
                    NEW m \in Months, m < now'
             PROVE  row'[m] # NoRow /\ row'[m].status = "CLOSED"
  BY DEF PastIsClosed
<1>1. now' = now
  <2>1. ASSUME NEW w \in Workers, Start(w) \/ Continue(w) PROVE now' = now
    BY <2>1, CallsLeave
  <2> QED BY <2>1 DEF Next, Crash, Rollover, ChangeFixed, vars
<1>2. Evolves(m) /\ row[m] # NoRow /\ row[m].status = "CLOSED"
  BY <1>1, RowEvolves DEF PastIsClosed
<1>3. row'[m] = row[m] \/ row'[m] \in Row
  BY <1>2 DEF Evolves
<1> QED BY <1>2, <1>3, SentinelAssumption DEF Evolves

\* A settled chain is closed up to the current month.
LEMMA PastStartsClosed ==
  ASSUME Seeds = {"settled"}, Init
  PROVE  PastIsClosed
<1> SUFFICES ASSUME NEW m \in Months, m < now
             PROVE  row[m] # NoRow /\ row[m].status = "CLOSED"
  BY DEF PastIsClosed
<1>1. PICK b \in BaseValues, last \in {now - 1, now} :
        row = [k \in Months |-> IF k <= last THEN SeedRow(k, b) ELSE NoRow]
  BY DEF Init
<1>2. m <= last /\ now \in Months
  BY <1>1, InitInv DEF IInv, TypeOK, Months
<1>3. row[m] = SeedRow(m, b)
  BY <1>1, <1>2
<1>4. SeedRow(m, b) \in Row /\ SeedRow(m, b).status = "CLOSED"
  BY <1>2, BaseAssumption, InitInv, SeedRowType DEF IInv, TypeOK
<1> QED BY <1>3, <1>4, SentinelAssumption

\* Writers at once on a chain closed up to the current month, none of which
\* lives to see a month end, find nothing left to close: whatever corrections
\* they interleave, every closed row adds up at every moment.
THEOREM WritersAdd ==
  ASSUME "rollover" \notin Requests, Seeds = {"settled"}
  PROVE  Spec => []ClosedRowAdds
<1>1. Init => PastIsClosed
  BY PastStartsClosed
<1>2. IInv /\ PastIsClosed /\ [Next]_vars => PastIsClosed'
  BY PastStaysClosed
<1>3. IInv /\ PastIsClosed => [ClosingUndisturbed]_vars
  <2> SUFFICES ASSUME IInv, PastIsClosed, NEW w \in Workers, pc[w] = "closeWrite"
               PROVE  FALSE
    BY DEF ClosingUndisturbed
  <2>1. /\ cursor[w] \in Months /\ cursor[w] < now
        /\ row[cursor[w]].status = "OPEN"
    BY DEF IInv, TypeOK, RequestInTime, ClosingIsExclusive
  <2> QED BY <2>1 DEF PastIsClosed
<1> QED BY <1>1, <1>2, <1>3, RequestsInOrder, ClosingsAdd, PTL
    DEF Spec, ClosingsUndisturbed

\* Readers at once: the chain agrees with the facts at every moment, and so
\* every closed row adds up.
THEOREM ReadersAdd == ReadersOnly => (Spec => []ClosedRowAdds)
<1> SUFFICES ASSUME ReadersOnly PROVE Spec => []ClosedRowAdds
  OBVIOUS
<1>1. Spec => [](\A m \in Months : AgreesWithFacts(m))
  BY ReadersKeepChain
<1>2. TypeOK /\ (\A m \in Months : AgreesWithFacts(m)) => ClosedRowAdds
  BY AgreeingRowsAdd
<1> QED BY <1>1, <1>2, TypeCorrect, PTL

(* ---------------------------------------------------------------------- *)
(* Creations that run at once.                                             *)

\* Incomes are recorded, on fixed bases that are not negative and on a chain
\* that agrees with the facts, and no month ends: no balance ever falls.
CreatorsOnly ==
  /\ OpKinds \subseteq {"ENTREE"} /\ BaseValues \subseteq Nat
  /\ Seeds = {"settled"} /\ Requests \subseteq {"create", "realize", "fixed"}

\* The carry that month `m' should have.
Due(m) == IF NothingBefore(m) THEN 0 ELSE row[m - 1].remaining

\* A closed row adds up and has no expense.
Sound(r) == r.status = "CLOSED" => r.expense = 0 /\ Sums(r)

\* No value of `r' is beyond what the facts and the row below it give.
Within(r, m) ==
  /\ r.carry <= Due(m)
  /\ r.status = "CLOSED" => r.income <= Income(m)

\* `s' is what `r' may have become.
Below(r, s) ==
  /\ r.status = s.status /\ r.base = s.base
  /\ r.carry <= s.carry
  /\ r.status = "CLOSED" => r.income <= s.income

\* A row is bounded by the facts.
RowBounded(m) ==
  row[m] # NoRow =>
    0 <= row[m].base /\ 0 <= row[m].carry /\ Sound(row[m]) /\ Within(row[m], m)

\* What a request listed lies below what the rows have become.
ListedBelow(w) ==
  /\ ListedEarlier(w)
  /\ \A m \in Months :
       listed[w][m] # NoRow => Sound(listed[w][m]) /\ Below(listed[w][m], row[m])

\* Row `image' corrects row `l'.
Raises(l, image) ==
  /\ image # l /\ Below(l, image) /\ image.revision = l.revision
  /\ l.status = "OPEN" => image = [l EXCEPT !.carry = image.carry]

\* Where a creation stands: a realization will insert its own operation in a
\* month that is not over; a correction has listed every row from its month on,
\* and neither the carry it read nor the row it will write is too large.
CreatorState(w) ==
  /\ pc[w] \in {"idle", "insert", "correct", "list", "origin", "find", "apply", "write"}
  /\ pc[w] = "insert" =>
       /\ op[w].id \in OpIds /\ ops[op[w].id] = NoOp /\ op[w].month >= now
       /\ \A v \in Workers : v # w => op[v].id # op[w].id
  /\ pc[w] = "correct" => \E j \in Months : touched[w] = {j}
  /\ pc[w] \in {"list", "origin", "find", "apply", "write"} =>
       kind[w] # "summarize" /\ from[w] < now
  /\ pc[w] \in {"origin", "find", "apply", "write"} =>
       /\ from[w] <= top[w]
       /\ \A m \in Months : m >= top[w] /\ row[m] # NoRow => listed[w][m] # NoRow
  /\ pc[w] = "origin" => cursor[w] = top[w]
  /\ pc[w] = "find" => cursor[w] = top[w] - 1 /\ ~NothingBefore(top[w])
  /\ pc[w] = "apply" =>
       /\ listed[w][top[w]].carry <= CarryFrom(prev[w])
       /\ CarryFrom(prev[w]) <= Due(top[w])
  /\ pc[w] = "write" =>
       /\ Raises(listed[w][top[w]], held[w])
       /\ Sound(held[w]) /\ Within(held[w], top[w])

\* Values only rise, and none is beyond the facts.
CreatorsInv ==
  /\ IInv /\ PastIsClosed
  /\ \A m \in Months : RowBounded(m)
  /\ \A w \in Workers : ListedBelow(w) /\ CreatorState(w)

\* The request will still bring month `m' up to date: it has yet to reach it, or
\* what it read for it is what the facts give.
Covers(w, m) ==
  \/ pc[w] = "correct" /\ \E j \in touched[w] : j < now /\ j <= m
  \/ pc[w] = "list" /\ from[w] <= m
  \/ pc[w] \in {"origin", "find", "apply", "write"} /\ top[w] < m
  \/ pc[w] \in {"origin", "find"} /\ top[w] = m
  \/ pc[w] = "apply" /\ top[w] = m /\ CarryFrom(prev[w]) = Due(m)
  \/ /\ pc[w] = "write" /\ top[w] = m /\ held[w].carry = Due(m)
     /\ held[w].status = "CLOSED" => held[w].income = Income(m)

\* Unless one died or gave up, a row that does not agree will be corrected.
EachMonthCovered ==
  excused \/ \A m \in Months : AgreesWithFacts(m) \/ \E w \in Workers : Covers(w, m)

\* Nothing falls: rows stay and gain, operations are added.
Rises ==
  /\ now' = now
  /\ \A m \in Months :
       /\ Income(m)' \in Nat /\ Income(m) <= Income(m)'
       /\ ~NothingBefore(m) => ~NothingBefore(m)'
       /\ m <= now => Due(m)' \in Int /\ Due(m) <= Due(m)'
       /\ row'[m] = NoRow <=> row[m] = NoRow
       /\ row[m] # NoRow => Below(row[m], row'[m])

\* No expense is recorded.
LEMMA NoExpense ==
  ASSUME CreatorsOnly, NEW m \in Months, NEW f \in [OpIds -> Operation \cup {NoOp, Deleted}]
  PROVE  {o \in OpIds : f[o] = [month |-> m, kind |-> "DEPENSE"]} = {}
<1> SUFFICES ASSUME NEW o \in OpIds, f[o] = [month |-> m, kind |-> "DEPENSE"]
             PROVE  FALSE
  OBVIOUS
<1>1. f[o] \notin Operation
  BY DEF CreatorsOnly, Operation
<1>2. f[o] \in {NoOp, Deleted}
  BY <1>1
<1> QED BY <1>2, SentinelAssumption DEF Kinds

\* Two rows of the same revision, neither below the other by more than nothing.
LEMMA SquaredRow ==
  ASSUME NEW r \in Row, NEW s \in Row, Below(r, s), Sound(r), Sound(s),
         r.revision = s.revision, s.carry <= r.carry,
         r.status = "CLOSED" => s.income <= r.income,
         r.status = "OPEN" => s = [r EXCEPT !.carry = s.carry]
  PROVE  r = s
<1>1. r.carry = s.carry /\ r.status \in {"OPEN", "CLOSED"}
  BY DEF Below, Row
<1>2. CASE r.status = "OPEN"
  <2>1. [r EXCEPT !.carry = r.carry] = r
    BY DEF Row
  <2> QED BY <1>1, <1>2, <2>1
<1>3. CASE r.status = "CLOSED"
  <2>1. r.income = s.income /\ r.expense = s.expense
    BY <1>3 DEF Below, Sound, Row
  <2>2. r.remaining = s.remaining
    BY <1>1, <1>3, <2>1 DEF Below, Sound, Sums, Row
  <2> QED BY <1>1, <2>1, <2>2, SameRow DEF Below
<1> QED BY <1>1, <1>2, <1>3

\* A row stays below what becomes of a row above it.
LEMMA BelowOnward ==
  ASSUME NEW r \in Row, NEW s \in Row, NEW t \in Row, Below(r, s), Below(s, t)
  PROVE  Below(r, t)
BY DEF Below, Row

\* A month that is over has a closed row, which is a row.
LEMMA PastRow ==
  ASSUME IInv, PastIsClosed, NEW m \in Months, m < now
  PROVE  row[m] \in Row /\ row[m] # NoRow /\ row[m].status = "CLOSED"
BY DEF PastIsClosed, IInv, TypeOK

\* The closed balance of a month that is over is not negative.
LEMMA BalanceNotNegative ==
  ASSUME CreatorsInv, NEW m \in Months, m < now
  PROVE  row[m].remaining \in Int /\ 0 <= row[m].remaining
<1>1. row[m] \in Row /\ row[m] # NoRow /\ row[m].status = "CLOSED" /\ RowBounded(m)
  BY PastRow DEF CreatorsInv
<1> QED BY <1>1 DEF RowBounded, Sound, Sums, Row

\* The carry a month should have is a number.
LEMMA DueType ==
  ASSUME CreatorsInv, NEW m \in Months, m <= now
  PROVE  Due(m) \in Int /\ 0 <= Due(m)
<1>1. CASE NothingBefore(m)
  BY <1>1 DEF Due
<1>2. CASE ~NothingBefore(m)
  <2>1. PICK k \in Months : k = m - 1
    BY <1>2, OriginHasBelow DEF CreatorsInv, IInv
  <2>2. k < now
    BY <2>1 DEF CreatorsInv, IInv, TypeOK, Months
  <2> QED BY <1>2, <2>1, <2>2, BalanceNotNegative DEF Due
<1> QED BY <1>1, <1>2

\* A row agrees with the facts when its carry and its income do.
LEMMA BoundedAgrees ==
  ASSUME CreatorsOnly, CreatorsInv, NEW m \in Months, row[m] # NoRow
  PROVE  AgreesWithFacts(m) <=>
           /\ row[m].carry = Due(m)
           /\ row[m].status = "CLOSED" => row[m].income = Income(m)
<1>1. /\ IInv /\ TypeOK /\ RowBounded(m) /\ row[m] \in Row /\ m <= now /\ now \in Months
  BY DEF CreatorsInv, IInv, TypeOK, PeriodsInTime
<1>2. Expense(m) = 0
  BY <1>1, NoExpense, FS_EmptySet DEF Expense, OpsIn, TypeOK
<1>3. ~NothingBefore(m) => row[m - 1] # NoRow /\ row[m - 1].status = "CLOSED"
  <2> SUFFICES ASSUME ~NothingBefore(m)
               PROVE  row[m - 1] # NoRow /\ row[m - 1].status = "CLOSED"
    OBVIOUS
  <2>1. PICK k \in Months : k = m - 1
    BY <1>1, OriginHasBelow
  <2>2. k < now
    BY <1>1, <2>1 DEF Months
  <2> QED BY <2>1, <2>2 DEF CreatorsInv, PastIsClosed
<1>4. row[m].status = "CLOSED" =>
        row[m].expense = 0 /\ row[m].remaining =
          row[m].base + row[m].income - row[m].expense + row[m].carry
  BY <1>1 DEF RowBounded, Sound, Sums
<1>5. Income(m) \in Nat
  BY TotalsType
<1> QED BY <1>1, <1>2, <1>3, <1>4, <1>5, AgreesFields DEF Due, Row

\* The same of the state after a step.
LEMMA BoundedAgreesNext ==
  ASSUME CreatorsOnly, CreatorsInv', NEW m \in Months, row'[m] # NoRow
  PROVE  AgreesWithFacts(m)' <=>
           /\ row'[m].carry = Due(m)'
           /\ row'[m].status = "CLOSED" => row'[m].income = Income(m)'
<1>1. /\ TypeOK' /\ RowBounded(m)' /\ row'[m] \in Row /\ m <= now' /\ now' \in Months
  BY DEF CreatorsInv, IInv, TypeOK, PeriodsInTime
<1>2. Expense(m)' = 0
  BY <1>1, NoExpense, FS_EmptySet DEF Expense, OpsIn, TypeOK
<1>3. ~NothingBefore(m)' => row'[m - 1] # NoRow /\ row'[m - 1].status = "CLOSED"
  <2> SUFFICES ASSUME ~NothingBefore(m)'
               PROVE  row'[m - 1] # NoRow /\ row'[m - 1].status = "CLOSED"
    OBVIOUS
  <2>1. PICK o \in OpIds : ops'[o] \in Operation /\ ~(m <= ops'[o].month)
    BY DEF NothingBefore
  <2>2. ops'[o].month \in Months
    BY <2>1 DEF Operation
  <2>3. PICK k \in Months : k = m - 1
    BY <2>1, <2>2, MonthsAssumption DEF Months
  <2>4. k < now'
    BY <1>1, <2>3 DEF Months
  <2> QED BY <2>3, <2>4 DEF CreatorsInv, PastIsClosed
<1>4. row'[m].status = "CLOSED" =>
        row'[m].expense = 0 /\ row'[m].remaining =
          row'[m].base + row'[m].income - row'[m].expense + row'[m].carry
  BY <1>1 DEF RowBounded, Sound, Sums
<1> QED BY <1>1, <1>2, <1>3, <1>4, AgreesFieldsNext DEF Due, Row

\* A step that touches neither operations nor rows.
LEMMA StillRises ==
  ASSUME CreatorsInv, UNCHANGED <<now, ops, row>>
  PROVE  Rises /\ \A m \in Months : Due(m)' = Due(m)
<1>1. \A m \in Months : /\ Income(m)' = Income(m)
                        /\ NothingBefore(m)' <=> NothingBefore(m)
  BY SameFacts
<1>2. \A m \in Months : Due(m)' = Due(m)
  BY <1>1 DEF Due
<1>3. \A m \in Months : m <= now => Due(m) \in Int
  BY DueType
<1>4. \A m \in Months : Income(m) \in Nat
  BY TotalsType
<1>5. \A m \in Months : row[m] # NoRow => Below(row[m], row[m])
  BY DEF CreatorsInv, IInv, TypeOK, Below, Row
<1> QED BY <1>1, <1>2, <1>3, <1>4, <1>5 DEF Rises

\* An operation is added.
LEMMA AdditionRises ==
  ASSUME CreatorsInv, UNCHANGED <<now, row>>, NEW o \in OpIds, ops[o] = NoOp,
         NEW x \in Operation, ops' = [ops EXCEPT ![o] = x]
  PROVE  /\ Rises
         /\ \A m \in Months : m <= x.month =>
              /\ Due(m)' = Due(m)
              /\ m < x.month => Income(m)' = Income(m)
<1>1. /\ TypeOK /\ NoOp \notin Operation /\ ops'[o] = x
      /\ \A z \in OpIds : z # o => ops'[z] = ops[z]
      /\ x.month \in Months /\ now \in Months
  BY SentinelAssumption, OpsAssumption DEF CreatorsInv, IInv, TypeOK, Operation
<1>2. ASSUME NEW m \in Months PROVE Income(m)' \in Nat /\ Income(m) <= Income(m)'
  <2>1. /\ OpsIn(m, "ENTREE") \subseteq OpsIn(m, "ENTREE")'
        /\ OpsIn(m, "ENTREE")' \subseteq OpIds
    <3>1. [month |-> m, kind |-> "ENTREE"] # NoOp
      BY SentinelAssumption DEF Kinds
    <3> QED BY <1>1, <3>1 DEF OpsIn
  <2>2. IsFiniteSet(OpsIn(m, "ENTREE")')
    BY <2>1, OpsAssumption, FS_Subset
  <2> QED BY <2>1, <2>2, FS_Subset, FS_CardinalityType DEF Income
<1>3. ASSUME NEW m \in Months, ~NothingBefore(m) PROVE ~NothingBefore(m)'
  <2>1. PICK z \in OpIds : ops[z] \in Operation /\ ~(m <= ops[z].month)
    BY <1>3 DEF NothingBefore
  <2>2. ops'[z] = ops[z]
    BY <1>1, <2>1
  <2> QED BY <2>1, <2>2 DEF NothingBefore
<1>4. ASSUME NEW m \in Months, m <= now PROVE Due(m)' \in Int /\ Due(m) <= Due(m)'
  <2>1. CASE NothingBefore(m)'
    BY <1>3, <2>1 DEF Due
  <2>2. CASE ~NothingBefore(m)' /\ ~NothingBefore(m)
    <3>1. Due(m)' = Due(m)
      BY <2>2 DEF Due
    <3> QED BY <1>4, <3>1, DueType
  <2>3. CASE ~NothingBefore(m)' /\ NothingBefore(m)
    <3>1. ~(m <= x.month)
      BY <1>1, <2>3 DEF NothingBefore
    <3>2. PICK k \in Months : k = m - 1
      BY <1>1, <3>1, MonthsAssumption DEF Months
    <3>3. k < now
      BY <1>1, <1>4, <3>2 DEF Months
    <3>4. row'[k].remaining \in Int /\ 0 <= row'[k].remaining
      BY <3>3, BalanceNotNegative
    <3> QED BY <2>3, <3>2, <3>4 DEF Due
  <2> QED BY <2>1, <2>2, <2>3
<1>5. \A m \in Months : row[m] # NoRow => Below(row[m], row'[m])
  BY <1>1 DEF TypeOK, Below, Row
<1>6. ASSUME NEW m \in Months, m <= x.month
      PROVE  Due(m)' = Due(m) /\ (m < x.month => Income(m)' = Income(m))
  BY <1>1, <1>6, WriteFacts DEF Due
<1> QED BY <1>2, <1>3, <1>4, <1>5, <1>6 DEF Rises

\* A correction writes a row that takes the place of the one it listed.
LEMMA WriteRises ==
  ASSUME CreatorsInv, NEW w \in Workers, WritePeriod(w), NEW t, t = top[w]
  PROVE  /\ Rises /\ t \in Months /\ t <= now
         /\ row[t] \in Row /\ listed[w][t] = row[t] /\ row'[t] \in Row
         /\ Below(held[w], row'[t]) /\ Sound(row'[t]) /\ Within(held[w], t)
         /\ held[w] \in Row /\ row'[t].carry = held[w].carry
         /\ row'[t].income = held[w].income
         /\ \A m \in Months : m # t => row'[m] = row[m]
         /\ \A m \in Months : m # t + 1 => Due(m)' = Due(m)
         /\ UNCHANGED <<now, ops>>
<1>1. /\ IInv /\ TypeOK /\ CreatorState(w) /\ ListedBelow(w) /\ pc[w] = "write"
      /\ now \in Months /\ t <= now /\ NoRow \notin Row /\ UNCHANGED <<now, ops>>
  BY SentinelAssumption
  DEF CreatorsInv, IInv, TypeOK, WritePeriod, RequestInTime, Walking
<1>2. /\ t \in Months /\ row[t] \in Row /\ held[w] \in Row /\ row'[t] \in Row
      /\ listed[w][t] \in Row /\ listed[w][t].revision = row[t].revision
      /\ row'[t].status = row[t].status /\ row'[t].base = row[t].base
      /\ row'[t].carry = held[w].carry /\ row'[t].income = held[w].income
      /\ row'[t].expense = held[w].expense /\ row'[t].remaining = held[w].remaining
      /\ \A m \in Months : m # t => row'[m] = row[m]
  BY <1>1, WrittenRow
<1>3. listed[w][t] = row[t]
  BY <1>1, <1>2 DEF ListedBelow, ListedEarlier
<1>4. Raises(row[t], held[w]) /\ Sound(held[w]) /\ Within(held[w], t)
  BY <1>1, <1>3 DEF CreatorState
<1>5. Below(row[t], row'[t]) /\ Below(held[w], row'[t]) /\ Sound(row'[t])
  BY <1>2, <1>4 DEF Raises, Below, Sound, Sums, Row
<1>6. \A m \in Months : /\ Income(m)' = Income(m) /\ Income(m) \in Nat
                        /\ NothingBefore(m)' <=> NothingBefore(m)
  BY <1>1, SameFacts, TotalsType
<1>7. ASSUME NEW m \in Months, m # t + 1 PROVE Due(m)' = Due(m)
  <2>1. CASE NothingBefore(m)
    BY <1>6, <2>1 DEF Due
  <2>2. CASE ~NothingBefore(m)
    <3>1. PICK k \in Months : k = m - 1
      BY <1>1, <2>2, OriginHasBelow
    <3>2. k # t
      BY <1>2, <1>7, <3>1 DEF Months
    <3>3. row'[k] = row[k]
      BY <1>2, <3>2
    <3> QED BY <1>6, <2>2, <3>1, <3>3 DEF Due
  <2> QED BY <2>1, <2>2
<1>8. ASSUME NEW m \in Months, m <= now PROVE Due(m)' \in Int /\ Due(m) <= Due(m)'
  <2>1. CASE m # t + 1
    BY <1>7, <1>8, <2>1, DueType
  <2>2. CASE m = t + 1 /\ NothingBefore(m)
    BY <1>6, <2>2 DEF Due
  <2>3. CASE m = t + 1 /\ ~NothingBefore(m)
    <3>1. t = m - 1 /\ t < now
      BY <1>1, <1>2, <1>8, <2>3 DEF Months
    <3>2. RowBounded(t) /\ row[t] # NoRow /\ row[t].status = "CLOSED"
      BY <1>1, <1>2, <3>1 DEF CreatorsInv, PastIsClosed
    <3>3. row'[t].remaining \in Int /\ row[t].remaining <= row'[t].remaining
      BY <1>2, <1>5, <3>2 DEF RowBounded, Sound, Below, Sums, Row
    <3> QED BY <1>6, <2>3, <3>1, <3>3 DEF Due
  <2> QED BY <2>1, <2>2, <2>3
<1>9. \A m \in Months :
        /\ row'[m] = NoRow <=> row[m] = NoRow
        /\ row[m] # NoRow => Below(row[m], row'[m])
  <2>1. ASSUME NEW m \in Months, m # t, row[m] # NoRow PROVE Below(row[m], row'[m])
    BY <1>1, <1>2, <2>1 DEF TypeOK, Below, Row
  <2> QED BY <1>1, <1>2, <1>5, <2>1
<1>10. Rises
  BY <1>1, <1>6, <1>8, <1>9 DEF Rises
<1> QED BY <1>1, <1>2, <1>3, <1>4, <1>5, <1>7, <1>10

\* The rows stay bounded by the facts.
LEMMA BoundsNext ==
  ASSUME CreatorsInv, IInv', Rises, NEW m \in Months,
         row'[m] # row[m] =>
           /\ Sound(row'[m]) /\ row'[m].carry <= Due(m)'
           /\ row'[m].status = "CLOSED" => row'[m].income <= Income(m)'
  PROVE  RowBounded(m)'
<1> SUFFICES ASSUME row'[m] # NoRow
             PROVE  /\ 0 <= row'[m].base /\ 0 <= row'[m].carry /\ Sound(row'[m])
                    /\ row'[m].carry <= Due(m)'
                    /\ row'[m].status = "CLOSED" => row'[m].income <= Income(m)'
  BY DEF RowBounded, Within
<1>1. /\ row[m] # NoRow /\ row[m] \in Row /\ row'[m] \in Row
      /\ RowBounded(m) /\ Below(row[m], row'[m]) /\ m <= now
  BY DEF CreatorsInv, IInv, TypeOK, Rises, PeriodsInTime
<1>2. 0 <= row'[m].base /\ 0 <= row'[m].carry
  BY <1>1 DEF RowBounded, Below, Row
<1>3. CASE row'[m] = row[m]
  <2>1. /\ Due(m) <= Due(m)' /\ Due(m) \in Int /\ Due(m)' \in Int
        /\ Income(m) <= Income(m)' /\ Income(m) \in Nat /\ Income(m)' \in Nat
    BY <1>1, DueType, TotalsType DEF Rises
  <2> QED BY <1>1, <1>2, <1>3, <2>1 DEF RowBounded, Within, Row
<1> QED BY <1>2, <1>3

\* What a request listed stays below the rows.
LEMMA ListedBelowNext ==
  ASSUME CreatorsInv, IInv', [Next]_vars, Rises, NEW v \in Workers,
         \A m \in Months : RowBounded(m)',
         \A m \in Months :
           \/ listed'[v][m] = NoRow \/ listed'[v][m] = listed[v][m]
           \/ listed'[v][m] = row'[m]
  PROVE  ListedBelow(v)'
<1>1. ListedEarlier(v)'
  BY ListedStays DEF CreatorsInv, ListedBelow
<1>2. ASSUME NEW m \in Months, listed'[v][m] # NoRow
      PROVE  Sound(listed'[v][m]) /\ Below(listed'[v][m], row'[m])
  <2>1. row'[m] # NoRow /\ row'[m] \in Row /\ listed'[v][m] \in Row
    BY <1>1, <1>2 DEF ListedEarlier, IInv, TypeOK
  <2>2. CASE listed'[v][m] = row'[m]
    BY <2>1, <2>2 DEF RowBounded, Below, Row
  <2>3. CASE listed'[v][m] = listed[v][m]
    <3>1. PICK l \in Row : l = listed[v][m]
      BY <2>1, <2>3
    <3>2. Sound(l) /\ Below(l, row[m]) /\ row[m] # NoRow /\ row[m] \in Row
      BY <1>2, <2>3, <3>1 DEF CreatorsInv, ListedBelow, ListedEarlier, IInv, TypeOK
    <3>3. Below(row[m], row'[m])
      BY <3>2 DEF Rises
    <3> QED BY <2>1, <2>3, <3>1, <3>2, <3>3, BelowOnward
  <2> QED BY <1>2, <2>2, <2>3
<1>3. \A m \in Months :
        listed'[v][m] # NoRow => Sound(listed'[v][m]) /\ Below(listed'[v][m], row'[m])
  BY <1>2
<1> QED BY <1>1, <1>3 DEF ListedBelow

\* A request that waits stays where it is, and covers the months it did, but for
\* one whose carry or income should now be another.
LEMMA CreatorStays ==
  ASSUME CreatorsInv, IInv', Rises, NEW v \in Workers, Unmoved(v),
         pc[v] = "insert" =>
           /\ ops'[op[v].id] = NoOp
           /\ \A w \in Workers : w # v => op'[w].id # op[v].id
  PROVE  /\ CreatorState(v)'
         /\ \A m \in Months :
              /\ Covers(v, m)
              /\ \/ Due(m)' = Due(m) /\ (row[m].status = "CLOSED" => Income(m)' = Income(m))
                 \/ ~(pc[v] \in {"apply", "write"} /\ top[v] = m)
              => Covers(v, m)'
<1>1. /\ IInv /\ TypeOK /\ CreatorState(v) /\ ListedBelow(v) /\ RequestInTime(v)
      /\ RequestOnPath(v)
  BY DEF CreatorsInv, IInv
<1>2. PICK t \in Months : t = top[v] /\ top'[v] = t
  BY <1>1 DEF TypeOK, Unmoved
<1>3. pc[v] \in {"origin", "find", "apply", "write"} => t <= now
  BY <1>1, <1>2 DEF RequestInTime, Walking, Resolving
<1>4. ASSUME pc[v] \in {"apply", "write"}
      PROVE  /\ Due(t) <= Due(t)' /\ Due(t) \in Int /\ Due(t)' \in Int
             /\ Income(t) <= Income(t)' /\ Income(t) \in Nat /\ Income(t)' \in Nat
  BY <1>3, <1>4, DueType, TotalsType DEF Rises
<1>5. ASSUME pc[v] = "apply"
      PROVE  /\ listed'[v][top'[v]].carry <= CarryFrom(prev'[v])
             /\ CarryFrom(prev'[v]) <= Due(top[v])'
  <2>1. CarryFrom(prev[v]) \in Int /\ prev'[v] = prev[v] /\ listed'[v] = listed[v]
    BY <1>1 DEF TypeOK, CarryFrom, Row, Unmoved
  <2>2. /\ listed[v][t].carry <= CarryFrom(prev[v]) /\ CarryFrom(prev[v]) <= Due(t)
    BY <1>1, <1>2, <1>5 DEF CreatorState
  <2>3. Due(top[v])' = Due(t)'
    BY <1>2 DEF Due, NothingBefore
  <2> QED BY <1>2, <1>4, <1>5, <2>1, <2>2, <2>3
<1>6. ASSUME pc[v] = "write"
      PROVE  /\ Raises(listed'[v][top'[v]], held'[v])
             /\ Sound(held'[v]) /\ Within(held[v], top[v])'
  <2>1. /\ held'[v] = held[v] /\ listed'[v] = listed[v]
        /\ Raises(listed[v][t], held[v]) /\ Sound(held[v]) /\ Within(held[v], t)
        /\ held[v] \in Row
    BY <1>1, <1>2, <1>6 DEF CreatorState, Unmoved, TypeOK, RequestOnPath
  <2>2. Due(top[v])' = Due(t)' /\ Income(top[v])' = Income(t)'
    BY <1>2 DEF Due, NothingBefore, Income, OpsIn
  <2>3. /\ held[v].carry <= Due(t)'
        /\ held[v].status = "CLOSED" => held[v].income <= Income(t)'
    BY <1>4, <1>6, <2>1 DEF Within, Row
  <2> QED BY <1>2, <2>1, <2>2, <2>3 DEF Within
<1>7. pc[v] = "find" => ~NothingBefore(top[v])'
  <2>1. pc[v] = "find" => ~NothingBefore(t)
    BY <1>1, <1>2 DEF CreatorState
  <2>2. pc[v] = "find" => ~NothingBefore(t)'
    BY <2>1 DEF Rises
  <2> QED BY <1>2, <2>2 DEF NothingBefore
<1>8. CreatorState(v)'
  BY <1>1, <1>5, <1>6, <1>7 DEF CreatorState, Unmoved, Rises
<1>9. ASSUME NEW m \in Months, Covers(v, m),
             \/ Due(m)' = Due(m) /\ (row[m].status = "CLOSED" => Income(m)' = Income(m))
             \/ ~(pc[v] \in {"apply", "write"} /\ top[v] = m)
      PROVE  Covers(v, m)'
  <2>1. now' = now
    BY DEF Rises
  <2>2. CASE ~(pc[v] \in {"apply", "write"} /\ top[v] = m)
    BY <1>9, <2>1, <2>2 DEF Covers, Unmoved
  <2>3. CASE pc[v] = "apply" /\ top[v] = m
    BY <1>9, <2>3 DEF Covers, Unmoved
  <2>4. CASE pc[v] = "write" /\ top[v] = m
    <3>1. held[v].status = row[m].status
      BY <1>1, <2>4
      DEF CreatorState, Raises, ListedBelow, ListedEarlier, Below, RequestOnPath, Walking
    <3> QED BY <1>9, <2>4, <3>1 DEF Covers, Unmoved
  <2> QED BY <2>2, <2>3, <2>4
<1> QED BY <1>8, <1>9

\* Creations start, insert, correct or die.
LEMMA CreatorSteps ==
  ASSUME CreatorsOnly, CreatorsInv, NEW w \in Workers,
         Start(w) \/ Continue(w) \/ Crash(w)
  PROVE  \/ Create(w) \/ CheckPeriodOpen(w) \/ InsertRealized(w) \/ Correct(w)
         \/ ListFrom(w) \/ FirstActivity(w) \/ FindPeriod(w) \/ ComputePeriod(w)
         \/ WritePeriod(w) \/ WriteConflict(w) \/ Crash(w)
<1>1. ~ReadBefore(w) /\ ~Summarize(w)
  BY DEF CreatorsOnly, ReadBefore, Summarize, Begin
<1>2. CreatorState(w)
  BY DEF CreatorsInv
<1>3. /\ ~CommitUpdate(w) /\ ~CommitDelete(w) /\ ~CommitNotFound(w)
      /\ ~RefreshSnapshot(w) /\ ~OpenPeriod(w) /\ ~CloseRead(w) /\ ~CloseWrite(w)
  BY <1>2
  DEF CommitUpdate, CommitDelete, CommitNotFound, RefreshSnapshot, OpenPeriod,
      CloseRead, CloseWrite, CreatorState
<1> QED BY <1>1, <1>3 DEF Start, Continue

\* Going on to the next listed period, or ending when there is none.
LEMMA RecalculateCovers ==
  ASSUME CreatorsInv, NEW w \in Workers, kind[w] # "summarize", from[w] < now,
         now' = now, NEW periods, NEW last \in Int, from[w] <= last + 1,
         Recalculate(w, periods, last),
         \A m \in Months : m > last /\ row'[m] # NoRow => periods[m] # NoRow
  PROVE  /\ CreatorState(w)'
         /\ \A m \in Months : m > last => row'[m] = NoRow \/ Covers(w, m)'
<1>1. RequestsTyped /\ from[w] \in Months
  BY DEF CreatorsInv, IInv, TypeOK, RequestsTyped
<1>2. ASSUME \A m \in Months : m > last => periods[m] = NoRow, Done(w)
      PROVE  CreatorState(w)'
  BY <1>1, <1>2 DEF Done, Goto, RequestsTyped, CreatorState
<1>3. ASSUME NEW n \in Months, n > last, periods[n] # NoRow,
             \A m \in Months : m > last /\ periods[m] # NoRow => n <= m,
             listed' = [listed EXCEPT ![w] = periods],
             top' = [top EXCEPT ![w] = n],
             cursor' = [cursor EXCEPT ![w] = n],
             Goto(w, "origin"), UNCHANGED <<kind, from>>
      PROVE  /\ CreatorState(w)'
             /\ \A m \in Months : m > last => row'[m] = NoRow \/ Covers(w, m)'
  <2>1. /\ pc'[w] = "origin" /\ cursor'[w] = n /\ top'[w] = n /\ listed'[w] = periods
        /\ kind'[w] = kind[w] /\ from'[w] = from[w]
    BY <1>1, <1>3 DEF Goto, RequestsTyped
  <2>2. from[w] <= n
    BY <1>1, <1>3 DEF Months
  <2>3. \A m \in Months : m >= n /\ row'[m] # NoRow => periods[m] # NoRow
    BY <1>3 DEF Months
  <2>4. CreatorState(w)'
    BY <2>1, <2>2, <2>3 DEF CreatorState
  <2>5. ASSUME NEW m \in Months, m > last, row'[m] # NoRow PROVE Covers(w, m)'
    <3>1. n <= m
      BY <1>3, <2>5
    <3>2. n = m \/ n < m
      BY <3>1 DEF Months
    <3> QED BY <2>1, <3>2 DEF Covers
  <2> QED BY <2>4, <2>5
<1> QED BY <1>2, <1>3 DEF Recalculate

\* Where a correction stands when it computes or writes a period.
LEMMA CreatorApplies ==
  ASSUME CreatorsInv, NEW w \in Workers, pc[w] \in {"origin", "find", "apply", "write"}
  PROVE  /\ top[w] \in Months /\ from[w] \in Months /\ from[w] <= top[w]
         /\ top[w] <= now /\ now \in Months
         /\ kind[w] # "summarize" /\ from[w] < now
         /\ listed[w][top[w]] \in Row /\ row[top[w]] \in Row
         /\ listed[w][top[w]] # NoRow /\ row[top[w]] # NoRow
         /\ Sound(listed[w][top[w]]) /\ Below(listed[w][top[w]], row[top[w]])
         /\ RowBounded(top[w])
         /\ \A m \in Months : m >= top[w] /\ row[m] # NoRow => listed[w][m] # NoRow
         /\ prev[w] \in Row \cup {NoRow} /\ CarryFrom(prev[w]) \in Int
<1>1. /\ IInv /\ TypeOK /\ RequestOnPath(w) /\ RequestInTime(w)
      /\ CreatorState(w) /\ ListedBelow(w)
  BY DEF CreatorsInv, IInv
<1>2. top[w] \in Months /\ from[w] \in Months /\ now \in Months /\ top[w] <= now
      /\ prev[w] \in Row \cup {NoRow}
  BY <1>1 DEF TypeOK, RequestInTime, Walking, Resolving
<1>3. /\ kind[w] # "summarize" /\ from[w] < now /\ from[w] <= top[w]
      /\ \A m \in Months : m >= top[w] /\ row[m] # NoRow => listed[w][m] # NoRow
  BY <1>1 DEF CreatorState
<1>4. listed[w][top[w]] # NoRow
  BY <1>1, <1>3 DEF RequestOnPath, Walking, Resolving
<1>5. listed[w][top[w]] \in Row
  BY <1>1, <1>2, <1>4 DEF TypeOK
<1>6. row[top[w]] # NoRow /\ row[top[w]] \in Row
  BY <1>1, <1>2, <1>4 DEF ListedBelow, ListedEarlier, TypeOK
<1>7. Sound(listed[w][top[w]]) /\ Below(listed[w][top[w]], row[top[w]])
  BY <1>1, <1>2, <1>4 DEF ListedBelow
<1>8. CarryFrom(prev[w]) \in Int
  BY <1>2 DEF CarryFrom, Row
<1> QED BY <1>2, <1>3, <1>4, <1>5, <1>6, <1>7, <1>8 DEF CreatorsInv

\* The image that a correction computes raises what it listed, by no more than
\* the facts give.
LEMMA ImageRaises ==
  ASSUME CreatorsOnly, CreatorsInv, NEW w \in Workers, pc[w] = "apply",
         NEW l \in Row, l = listed[w][top[w]]
  PROVE  /\ Image(w) \in Row /\ Below(l, Image(w)) /\ Sound(Image(w))
         /\ Within(Image(w), top[w]) /\ Image(w).revision = l.revision
         /\ Image(w).carry = CarryFrom(prev[w])
         /\ Image(w).status = "CLOSED" => Image(w).income = Income(top[w])
         /\ l.status = "OPEN" => Image(w) = [l EXCEPT !.carry = Image(w).carry]
<1>1. PICK t \in Months : t = top[w]
  BY CreatorApplies
<1>2. /\ Sound(l) /\ Below(l, row[t]) /\ row[t] \in Row /\ row[t] # NoRow
      /\ RowBounded(t) /\ t <= now /\ CarryFrom(prev[w]) \in Int
  BY <1>1, CreatorApplies
<1>3. l.carry <= CarryFrom(prev[w]) /\ CarryFrom(prev[w]) <= Due(t)
  BY <1>1 DEF CreatorsInv, CreatorState
<1>4. /\ Image(w) \in Row /\ Image(w).status = l.status /\ Image(w).base = l.base
      /\ Image(w).carry = CarryFrom(prev[w])
      /\ l.status = "CLOSED" =>
           /\ Image(w).income = Income(t) /\ Image(w).expense = Expense(t)
           /\ Image(w).remaining =
                l.base + Income(t) - Expense(t) + CarryFrom(prev[w])
  BY <1>1, <1>2, ImageFields
<1>5. Expense(t) = 0
  BY NoExpense, FS_EmptySet DEF CreatorsInv, IInv, TypeOK, Expense, OpsIn
<1>6. Income(t) \in Nat
  BY TotalsType
<1>7. l.status = "CLOSED" => l.income <= Income(t)
  BY <1>2, <1>6 DEF Below, RowBounded, Within, Row
<1>8. Below(l, Image(w)) /\ Sound(Image(w)) /\ Within(Image(w), t)
  BY <1>3, <1>4, <1>5, <1>6, <1>7 DEF Below, Sound, Within, Sums
<1>9. Image(w).revision = l.revision
  BY <1>1 DEF Image, Recomputed, Row
<1>10. ASSUME l.status = "OPEN" PROVE Image(w) = [l EXCEPT !.carry = Image(w).carry]
  <2>1. Image(w) = [l EXCEPT !.carry = CarryFrom(prev[w])]
    BY <1>10 DEF Image
  <2> QED BY <1>4, <2>1
<1> QED BY <1>1, <1>4, <1>8, <1>9, <1>10

\* A request takes no identifier that another one is about to insert.
LEMMA OwnIdentifier ==
  ASSUME CreatorsOnly, CreatorsInv, NEW w \in Workers,
         Start(w) \/ Continue(w) \/ Crash(w),
         NEW v \in Workers, v # w, pc[v] = "insert"
  PROVE  op'[w].id # op[v].id
<1>1. /\ RequestsTyped /\ NoOp \notin OpIds /\ op[v].id \in OpIds
      /\ op[w].id # op[v].id
  BY SentinelAssumption DEF CreatorsInv, CreatorState, IInv, TypeOK, RequestsTyped
<1>2. ASSUME Done(w) PROVE op'[w].id = NoOp
  BY <1>1, <1>2 DEF Done, RequestsTyped
<1>3. CASE CheckPeriodOpen(w)
  <2>1. PICK o \in Unused, m \in Months : op' = [op EXCEPT ![w] = [id |-> o, month |-> m]]
    BY <1>3 DEF CheckPeriodOpen
  <2> QED BY <1>1, <2>1 DEF Unused, RequestsTyped
<1>4. CASE Done(w)
  BY <1>1, <1>2, <1>4
<1>5. ASSUME NEW periods, NEW n, Recalculate(w, periods, n) PROVE Done(w) \/ op' = op
  BY <1>5 DEF Recalculate
<1>6. ASSUME NEW n, NEW r, HavePrevious(w, n, r) PROVE op' = op
  BY <1>6 DEF HavePrevious, request
<1>7. ASSUME NEW r, Resolved(w, r) PROVE Done(w) \/ op' = op
  BY <1>6, <1>7 DEF Resolved, request
<1>8. CASE Create(w) \/ InsertRealized(w) \/ Correct(w) \/ Crash(w)
  BY <1>1, <1>4, <1>8 DEF Create, InsertRealized, Correct, Crash
<1>9. CASE ListFrom(w) \/ ComputePeriod(w) \/ WritePeriod(w)
  BY <1>1, <1>4, <1>5, <1>9 DEF ListFrom, ComputePeriod, WritePeriod, request
<1>10. CASE FirstActivity(w) \/ FindPeriod(w) \/ WriteConflict(w)
  BY <1>1, <1>4, <1>7, <1>10 DEF FirstActivity, FindPeriod, WriteConflict, request
<1> QED BY <1>3, <1>8, <1>9, <1>10, CreatorSteps

\* Requests that begin a realization, give up or die.
LEMMA CreatorTurns ==
  ASSUME CreatorsInv, NEW w \in Workers,
         CheckPeriodOpen(w) \/ WriteConflict(w) \/ Crash(w)
  PROVE  /\ UNCHANGED <<now, ops, row>> /\ CreatorState(w)'
         /\ excused' \/ \A m \in Months : Covers(w, m) => Covers(w, m)'
<1>1. RequestsTyped /\ CreatorState(w) /\ NoOp \notin OpIds
  BY SentinelAssumption DEF CreatorsInv, IInv, TypeOK, RequestsTyped
<1>2. CASE CheckPeriodOpen(w)
  <2>1. PICK o \in Unused, m \in Months :
          m >= now /\ op' = [op EXCEPT ![w] = [id |-> o, month |-> m]]
    BY <1>2 DEF CheckPeriodOpen
  <2>2. /\ pc[w] = "idle" /\ pc'[w] = "insert" /\ UNCHANGED <<now, ops, row>>
    BY <1>1, <1>2 DEF CheckPeriodOpen, Begin, Goto, RequestsTyped, db
  <2>3. /\ op'[w].id = o /\ op'[w].month = m /\ o \in OpIds /\ ops[o] = NoOp
        /\ \A v \in Workers : v # w => op'[v].id # o
    BY <1>1, <2>1 DEF Unused, RequestsTyped
  <2>4. CreatorState(w)'
    BY <2>1, <2>2, <2>3 DEF CreatorState
  <2> QED BY <2>2, <2>4 DEF Covers
<1>3. CASE Crash(w)
  <2>1. pc'[w] = "idle" /\ excused' /\ UNCHANGED <<now, ops, row>>
    BY <1>1, <1>3 DEF Crash, Done, Goto, RequestsTyped
  <2> QED BY <2>1 DEF CreatorState
<1>4. CASE WriteConflict(w)
  <2>1. pc[w] = "write" /\ UNCHANGED <<now, ops, row>>
    BY <1>4 DEF WriteConflict, db
  <2>2. CASE excused' /\ Done(w)
    <3>1. pc'[w] = "idle"
      BY <1>1, <2>2 DEF Done, Goto, RequestsTyped
    <3> QED BY <2>1, <2>2, <3>1 DEF CreatorState
  <2>3. CASE Goto(w, "list") /\ UNCHANGED request
    <3>1. pc'[w] = "list" /\ from'[w] = from[w] /\ kind'[w] = kind[w]
      BY <1>1, <2>3 DEF Goto, RequestsTyped, request
    <3>2. CreatorState(w)'
      BY <1>1, <2>1, <3>1 DEF CreatorState
    <3>3. ASSUME NEW m \in Months, Covers(w, m) PROVE from[w] <= m
      <4>1. top[w] <= m /\ top[w] \in Months
        BY <1>1, <2>1, <3>3 DEF Covers, RequestsTyped, Months
      <4>2. from[w] <= top[w] /\ from[w] \in Months
        BY <1>1, <2>1 DEF CreatorState, RequestsTyped
      <4> QED BY <4>1, <4>2 DEF Months
    <3> QED BY <2>1, <3>1, <3>2, <3>3 DEF Covers
  <2> QED BY <1>4, <2>2, <2>3 DEF WriteConflict
<1> QED BY <1>2, <1>3, <1>4

\* A missing row agrees.
LEMMA MissingAgrees ==
  ASSUME NEW m, row[m] = NoRow
  PROVE  AgreesWithFacts(m)
BY DEF AgreesWithFacts

\* Requests that learn which rows to correct.
LEMMA CreatorLists ==
  ASSUME CreatorsInv, NEW w \in Workers, Correct(w) \/ ListFrom(w)
  PROVE  /\ UNCHANGED <<now, ops, row>> /\ CreatorState(w)'
         /\ \A m \in Months : Covers(w, m) => Covers(w, m)' \/ AgreesWithFacts(m)
<1>1. /\ RequestsTyped /\ CreatorState(w) /\ IInv /\ now \in Months
  BY DEF CreatorsInv, IInv, TypeOK, RequestsTyped
<1>2. CASE Correct(w)
  <2>1. PICK j \in Months : touched[w] = {j}
    BY <1>1, <1>2 DEF Correct, CreatorState
  <2>2. pc[w] = "correct" /\ kind[w] # "summarize" /\ UNCHANGED <<now, ops, row>>
    BY <1>1, <1>2 DEF Correct, db, IInv, RequestOnPath
  <2>3. CASE j >= now /\ Done(w)
    <3>1. pc'[w] = "idle" /\ ~(j < now)
      BY <1>1, <2>3 DEF Done, Goto, RequestsTyped, Months
    <3> QED BY <2>1, <2>2, <3>1 DEF CreatorState, Covers
  <2>4. CASE /\ j < now /\ from' = [from EXCEPT ![w] = j] /\ Goto(w, "list")
             /\ kind' = kind
    <3>1. pc'[w] = "list" /\ from'[w] = j /\ kind'[w] = kind[w]
      BY <1>1, <2>4 DEF Goto, RequestsTyped
    <3> QED BY <2>1, <2>2, <2>4, <3>1 DEF CreatorState, Covers
  <2> QED BY <1>2, <2>1, <2>3, <2>4 DEF Correct
<1>3. CASE ListFrom(w)
  <2> DEFINE periods == [m \in Months |-> IF m >= from[w] THEN row[m] ELSE NoRow]
             last == from[w] - 1
  <2>1. /\ pc[w] = "list" /\ UNCHANGED <<now, ops, row>> /\ from[w] \in Months
        /\ kind[w] # "summarize" /\ from[w] < now
    BY <1>1, <1>3 DEF ListFrom, db, CreatorState, RequestsTyped
  <2>2. /\ Recalculate(w, periods, last) /\ last \in Int /\ from[w] <= last + 1
        /\ \A m \in Months : m > last <=> m >= from[w]
    BY <1>3, <2>1 DEF ListFrom, Months
  <2>3. \A m \in Months : m > last /\ row'[m] # NoRow => periods[m] # NoRow
    BY <2>1, <2>2
  <2> HIDE DEF periods, last
  <2>4. /\ CreatorState(w)'
        /\ \A m \in Months : m > last => row'[m] = NoRow \/ Covers(w, m)'
    BY <2>1, <2>2, <2>3, RecalculateCovers
  <2>5. \A m \in Months : Covers(w, m) => m >= from[w]
    BY <2>1 DEF Covers, Months
  <2> QED BY <2>1, <2>2, <2>4, <2>5, MissingAgrees
<1> QED BY <1>2, <1>3

\* Requests that read the carry of the month they correct.
LEMMA CreatorReads ==
  ASSUME CreatorsInv, NEW w \in Workers, FirstActivity(w) \/ FindPeriod(w)
  PROVE  /\ UNCHANGED <<now, ops, row>> /\ CreatorState(w)'
         /\ \A m \in Months : Covers(w, m) => Covers(w, m)'
<1>1. /\ RequestsTyped /\ CreatorState(w) /\ IInv /\ TypeOK
      /\ pc[w] \in {"origin", "find"} /\ UNCHANGED <<now, ops, row>>
  BY DEF CreatorsInv, IInv, TypeOK, RequestsTyped, FirstActivity, FindPeriod, db
<1>2. PICK t \in Months : t = top[w]
  BY <1>1 DEF RequestsTyped
<1>3. /\ kind[w] # "summarize" /\ from[w] < now /\ from[w] <= t /\ t <= now
      /\ now \in Months
      /\ \A m \in Months : m >= t /\ row[m] # NoRow => listed[w][m] # NoRow
  BY <1>1, <1>2, CreatorApplies
<1>4. Due(t) \in Int /\ listed[w][t].carry <= Due(t)
  <2>1. /\ listed[w][t] \in Row /\ row[t] \in Row /\ row[t] # NoRow
        /\ Below(listed[w][t], row[t]) /\ RowBounded(t)
    BY <1>1, <1>2, CreatorApplies
  <2>2. Due(t) \in Int
    BY <1>3, DueType
  <2> QED BY <2>1, <2>2 DEF Below, RowBounded, Within, Row
<1>5. ASSUME pc'[w] = "apply", CarryFrom(prev'[w]) = Due(t),
             UNCHANGED request
      PROVE  CreatorState(w)' /\ \A m \in Months : Covers(w, m) => Covers(w, m)'
  <2>1. /\ top'[w] = t /\ listed'[w] = listed[w] /\ from'[w] = from[w]
        /\ kind'[w] = kind[w]
    BY <1>2, <1>5 DEF request
  <2>2. \A m \in Months : Due(m)' = Due(m)
    BY <1>1, StillRises
  <2>3. Due(top[w])' = Due(t)
    <3>1. Due(top[w])' = Due(t)'
      BY <2>1 DEF Due, NothingBefore
    <3> QED BY <2>2, <3>1
  <2>4. CreatorState(w)'
    <3>1. CarryFrom(prev[w])' = Due(t)
      BY <1>5 DEF CarryFrom
    <3> QED BY <1>1, <1>3, <1>4, <1>5, <2>1, <2>3, <3>1 DEF CreatorState
  <2>5. \A m \in Months : Covers(w, m) => t = m \/ t < m
    BY <1>1, <1>2 DEF Covers
  <2>6. \A m \in Months : t = m \/ t < m => Covers(w, m)'
    BY <1>5, <2>1, <2>2 DEF Covers
  <2> QED BY <2>4, <2>5, <2>6
<1>6. CASE FirstActivity(w)
  <2>1. pc[w] = "origin" /\ cursor[w] = t
    BY <1>1, <1>2, <1>6 DEF FirstActivity, CreatorState
  <2>2. CASE NothingBefore(t)
    <3>1. /\ prev' = [prev EXCEPT ![w] = NoRow] /\ Goto(w, "apply") /\ UNCHANGED request
      BY <1>2, <1>3, <1>6, <2>1, <2>2 DEF FirstActivity
    <3>2. pc'[w] = "apply" /\ CarryFrom(prev'[w]) = Due(t)
      BY <1>1, <2>2, <3>1 DEF Goto, RequestsTyped, CarryFrom, Due
    <3> QED BY <1>1, <1>5, <3>1, <3>2
  <2>3. CASE ~NothingBefore(t)
    <3>1. /\ cursor' = [cursor EXCEPT ![w] = @ - 1] /\ Goto(w, "find")
          /\ UNCHANGED request
      BY <1>6, <2>1, <2>3 DEF FirstActivity
    <3>2. pc'[w] = "find" /\ cursor'[w] = t - 1 /\ ~NothingBefore(t)'
      BY <1>1, <2>1, <2>3, <3>1, SameFacts DEF Goto, RequestsTyped
    <3>3. /\ top'[w] = t /\ listed'[w] = listed[w] /\ from'[w] = from[w]
          /\ kind'[w] = kind[w]
      BY <1>2, <3>1 DEF request
    <3>4. ~NothingBefore(top[w])'
      BY <3>2, <3>3 DEF NothingBefore
    <3>5. CreatorState(w)'
      BY <1>1, <1>3, <3>2, <3>3, <3>4 DEF CreatorState
    <3>6. \A m \in Months : Covers(w, m) => Covers(w, m)'
      BY <1>2, <2>1, <3>2, <3>3 DEF Covers
    <3> QED BY <1>1, <3>5, <3>6
  <2> QED BY <2>2, <2>3
<1>7. CASE FindPeriod(w)
  <2>1. pc[w] = "find" /\ cursor[w] = t - 1 /\ ~NothingBefore(t)
    BY <1>1, <1>2, <1>7 DEF FindPeriod, CreatorState
  <2>2. PICK c \in Months, r \in Row : c = cursor[w] /\ c < now /\ c + 1 = t /\ r = row[c]
                 /\ r # NoRow /\ r.status = "CLOSED" /\ c = t - 1
    <3>1. PICK c \in Months : c = cursor[w] /\ c < now /\ c + 1 = t /\ c = t - 1
      BY <1>1, <1>2, <1>3, <2>1 DEF RequestsTyped, Months
    <3> QED BY <1>1, <3>1, PastRow DEF CreatorsInv
  <2>3. HavePrevious(w, c, r)
    BY <1>3, <1>7, <2>2 DEF FindPeriod, Resolved
  <2>4. /\ prev' = [prev EXCEPT ![w] = r] /\ Goto(w, "apply") /\ UNCHANGED request
    BY <1>2, <1>3, <2>2, <2>3 DEF HavePrevious
  <2>5. pc'[w] = "apply" /\ prev'[w] = r
    BY <1>1, <2>4 DEF Goto, RequestsTyped
  <2>6. CarryFrom(prev'[w]) = Due(t)
    BY <2>1, <2>2, <2>5 DEF CarryFrom, Due
  <2> QED BY <1>1, <1>5, <2>4, <2>5, <2>6
<1> QED BY <1>6, <1>7

\* A request that computes: a row left as it was listed agrees, if what was read
\* for it is what the facts give, because it lies between the two.
LEMMA CreatorComputes ==
  ASSUME CreatorsOnly, CreatorsInv, NEW w \in Workers, ComputePeriod(w)
  PROVE  /\ UNCHANGED <<now, ops, row>> /\ CreatorState(w)'
         /\ \A m \in Months : Covers(w, m) => Covers(w, m)' \/ AgreesWithFacts(m)
<1>1. /\ RequestsTyped /\ CreatorState(w) /\ pc[w] = "apply"
      /\ UNCHANGED <<now, ops, row>>
  BY DEF CreatorsInv, IInv, TypeOK, RequestsTyped, ComputePeriod, db
<1>2. PICK t \in Months, l \in Row : t = top[w] /\ l = listed[w][t]
  BY <1>1, CreatorApplies
<1>3. /\ kind[w] # "summarize" /\ from[w] \in Months /\ from[w] < now /\ from[w] <= t
      /\ t <= now /\ now \in Months /\ row[t] \in Row /\ row[t] # NoRow
      /\ Below(l, row[t]) /\ RowBounded(t) /\ CarryFrom(prev[w]) \in Int
      /\ \A m \in Months : m >= t /\ row[m] # NoRow => listed[w][m] # NoRow
  BY <1>1, <1>2, CreatorApplies
<1>4. /\ Image(w) \in Row /\ Below(l, Image(w)) /\ Sound(Image(w))
      /\ Within(Image(w), t) /\ Image(w).revision = l.revision
      /\ Image(w).carry = CarryFrom(prev[w])
      /\ Image(w).status = "CLOSED" => Image(w).income = Income(t)
      /\ l.status = "OPEN" => Image(w) = [l EXCEPT !.carry = Image(w).carry]
  BY <1>1, <1>2, ImageRaises
<1>5. \A m \in Months : Covers(w, m) => (t = m /\ CarryFrom(prev[w]) = Due(t)) \/ t < m
  BY <1>1, <1>2 DEF Covers
<1>6. \/ Image(w) = l /\ Recalculate(w, listed[w], t)
      \/ /\ Image(w) # l /\ held' = [held EXCEPT ![w] = Image(w)]
         /\ Goto(w, "write") /\ UNCHANGED request
  BY <1>2 DEF ComputePeriod, Image
<1>7. CASE Image(w) = l /\ Recalculate(w, listed[w], t)
  <2>1. from[w] <= t + 1 /\ t \in Int
    BY <1>3 DEF Months
  <2>2. \A m \in Months : m > t /\ row'[m] # NoRow => listed[w][m] # NoRow
    BY <1>1, <1>3 DEF Months
  <2>3. PICK periods : periods = listed[w]
    OBVIOUS
  <2>4. /\ CreatorState(w)'
        /\ \A m \in Months : m > t => row'[m] = NoRow \/ Covers(w, m)'
    BY <1>1, <1>3, <1>7, <2>1, <2>2, <2>3, RecalculateCovers
  <2>5. ASSUME CarryFrom(prev[w]) = Due(t) PROVE AgreesWithFacts(t)
    <3>1. row[t].carry = Due(t)
      BY <1>3, <1>4, <1>7, <2>5 DEF Below, RowBounded, Within, Row
    <3>2. row[t].status = "CLOSED" => row[t].income = Income(t)
      <4>1. Income(t) \in Nat
        BY TotalsType
      <4>2. l.status = "CLOSED" => l.income = Income(t)
        BY <1>4, <1>7
      <4>3. /\ row[t].status = l.status
            /\ l.status = "CLOSED" => l.income <= row[t].income
        BY <1>3 DEF Below
      <4>4. row[t].status = "CLOSED" => row[t].income <= Income(t)
        BY <1>3 DEF RowBounded, Within
      <4>5. row[t].income \in Nat
        BY <1>3 DEF Row
      <4> QED BY <4>1, <4>2, <4>3, <4>4, <4>5
    <3> QED BY <1>3, <3>1, <3>2, BoundedAgrees
  <2>6. ASSUME NEW m \in Months, t < m PROVE Covers(w, m)' \/ AgreesWithFacts(m)
    <3>1. m > t
      BY <2>6 DEF Months
    <3> QED BY <1>1, <2>4, <3>1, MissingAgrees
  <2> QED BY <1>1, <1>5, <2>4, <2>5, <2>6
<1>8. CASE /\ Image(w) # l /\ held' = [held EXCEPT ![w] = Image(w)]
           /\ Goto(w, "write") /\ UNCHANGED request
  <2>1. /\ pc'[w] = "write" /\ held'[w] = Image(w) /\ top'[w] = t /\ listed'[w] = listed[w]
        /\ from'[w] = from[w] /\ kind'[w] = kind[w]
    BY <1>1, <1>2, <1>8 DEF Goto, RequestsTyped, request
  <2>2. \A m \in Months : Due(m)' = Due(m) /\ Income(m)' = Income(m)
    BY <1>1, StillRises, SameFacts
  <2>3. Due(top[w])' = Due(t) /\ Income(top[w])' = Income(t)
    <3>1. Due(top[w])' = Due(t)' /\ Income(top[w])' = Income(t)'
      BY <2>1 DEF Due, NothingBefore, Income, OpsIn
    <3> QED BY <2>2, <3>1
  <2>4. Raises(listed'[w][t], held'[w])
    BY <1>2, <1>4, <1>8, <2>1 DEF Raises
  <2>5. Within(held[w], top[w])'
    BY <1>4, <2>1, <2>3 DEF Within
  <2>6. CreatorState(w)'
    BY <1>1, <1>3, <1>4, <2>1, <2>4, <2>5 DEF CreatorState
  <2>7. ASSUME NEW m \in Months, Covers(w, m) PROVE Covers(w, m)'
    <3>1. CASE t < m
      BY <2>1, <3>1 DEF Covers
    <3>2. CASE t = m /\ CarryFrom(prev[w]) = Due(t)
      BY <1>4, <2>1, <2>2, <3>2 DEF Covers
    <3> QED BY <1>5, <2>7, <3>1, <3>2
  <2> QED BY <1>1, <2>6, <2>7
<1> QED BY <1>6, <1>7, <1>8

\* A request that writes goes on to the month after.
LEMMA CreatorWrites ==
  ASSUME CreatorsInv, NEW w \in Workers, WritePeriod(w), NEW t, t = top[w]
  PROVE  /\ CreatorState(w)'
         /\ \A m \in Months : m > t => row'[m] = NoRow \/ Covers(w, m)'
<1>1. /\ pc[w] = "write" /\ now' = now /\ Recalculate(w, listed[w], t)
  BY DEF WritePeriod
<1>2. /\ t \in Months /\ kind[w] # "summarize" /\ from[w] \in Months
      /\ from[w] < now /\ from[w] <= t
      /\ \A m \in Months : m >= t /\ row[m] # NoRow => listed[w][m] # NoRow
  BY <1>1, CreatorApplies
<1>3. from[w] <= t + 1 /\ t \in Int
  BY <1>2 DEF Months
<1>4. \A m \in Months : m > t /\ row'[m] # NoRow => listed[w][m] # NoRow
  <2>1. \A m \in Months : row'[m] = NoRow <=> row[m] = NoRow
    BY WriteRises DEF Rises
  <2> QED BY <1>2, <2>1 DEF Months
<1>5. PICK periods : periods = listed[w]
  OBVIOUS
<1> QED BY <1>1, <1>2, <1>3, <1>4, <1>5, RecalculateCovers

\* A request that adds an operation will correct every month from its own on, if
\* that month is over.
LEMMA CreatorAdds ==
  ASSUME CreatorsInv, NEW w \in Workers, Create(w) \/ InsertRealized(w)
  PROVE  \E o \in OpIds, x \in Operation :
           /\ ops[o] = NoOp /\ ops' = [ops EXCEPT ![o] = x]
           /\ UNCHANGED <<now, row>> /\ CreatorState(w)'
           /\ x.month < now => \A m \in Months : x.month <= m => Covers(w, m)'
           /\ pc[w] \in {"idle", "insert"}
           /\ \A v \in Workers : v # w => op[v].id # o
<1>1. RequestsTyped /\ CreatorState(w) /\ now \in Months
  BY DEF CreatorsInv, IInv, TypeOK, RequestsTyped
<1>2. CASE Create(w)
  <2>1. PICK o \in Unused, x \in Operation :
          ops' = [ops EXCEPT ![o] = x] /\ touched' = [touched EXCEPT ![w] = {x.month}]
    BY <1>2 DEF Create
  <2>2. /\ pc[w] = "idle" /\ pc'[w] = "correct" /\ touched'[w] = {x.month}
        /\ UNCHANGED <<now, row>>
    BY <1>1, <1>2, <2>1 DEF Create, Begin, Goto, RequestsTyped
  <2>3. x.month \in Months
    BY DEF Operation
  <2>4. CreatorState(w)'
    BY <2>2, <2>3 DEF CreatorState
  <2>5. x.month < now => \A m \in Months : x.month <= m => Covers(w, m)'
    BY <2>2 DEF Covers
  <2>6. o \in OpIds /\ ops[o] = NoOp /\ \A v \in Workers : v # w => op[v].id # o
    BY DEF Unused
  <2> QED BY <2>1, <2>2, <2>4, <2>5, <2>6
<1>3. CASE InsertRealized(w)
  <2>1. PICK x \in Operation : x.month = op[w].month /\ ops' = [ops EXCEPT ![op[w].id] = x]
    BY <1>3 DEF InsertRealized
  <2>2. PICK o \in OpIds : /\ o = op[w].id /\ ops[o] = NoOp /\ op[w].month >= now
                           /\ \A v \in Workers : v # w => op[v].id # o
    BY <1>1, <1>3 DEF InsertRealized, CreatorState
  <2>3. pc[w] = "insert" /\ pc'[w] = "idle" /\ UNCHANGED <<now, row>>
    BY <1>1, <1>3 DEF InsertRealized, Done, Goto, RequestsTyped
  <2>4. ~(x.month < now)
    BY <1>1, <2>1, <2>2 DEF Operation, Months
  <2>5. CreatorState(w)'
    BY <2>3 DEF CreatorState
  <2> QED BY <2>1, <2>2, <2>3, <2>4, <2>5
<1> QED BY <1>2, <1>3

\* The invariant is kept: no request carries more than the facts give.
LEMMA CreatorsNext == CreatorsOnly /\ CreatorsInv /\ [Next]_vars => CreatorsInv'
<1> SUFFICES ASSUME CreatorsOnly, CreatorsInv, [Next]_vars PROVE CreatorsInv'
  OBVIOUS
<1>1. /\ IInv /\ IInv' /\ PastIsClosed'
      /\ \A v \in Workers : CreatorState(v) /\ ListedBelow(v)
  BY NextInv, PastStaysClosed DEF CreatorsInv, CreatorsOnly
<1>2. ASSUME Rises,
             \A m \in Months : row'[m] # row[m] =>
               /\ Sound(row'[m]) /\ row'[m].carry <= Due(m)'
               /\ row'[m].status = "CLOSED" => row'[m].income <= Income(m)',
             NEW w, \A v \in Workers : v # w => Unmoved(v),
             w \in Workers => CreatorState(w)'
                              /\ (Start(w) \/ Continue(w) \/ Crash(w)),
             \A v \in Workers : v # w /\ pc[v] = "insert" =>
               /\ ops'[op[v].id] = NoOp
               /\ \A u \in Workers : u # v => op'[u].id # op[v].id
      PROVE  CreatorsInv'
  <2>1. \A m \in Months : RowBounded(m)'
    BY <1>1, <1>2, BoundsNext
  <2>2. ASSUME NEW v \in Workers PROVE ListedBelow(v)'
    <3>1. \A m \in Months : \/ listed'[v][m] = NoRow \/ listed'[v][m] = listed[v][m]
                            \/ listed'[v][m] = row'[m]
      <4>1. CASE v = w
        BY <1>1, <1>2, <4>1, ListedNext
      <4>2. CASE v # w
        BY <1>2, <4>2 DEF Unmoved
      <4> QED BY <4>1, <4>2
    <3> QED BY <1>1, <1>2, <2>1, <3>1, ListedBelowNext
  <2>3. ASSUME NEW v \in Workers, v # w PROVE CreatorState(v)'
    BY <1>1, <1>2, <2>3, CreatorStays
  <2> QED BY <1>1, <1>2, <2>1, <2>2, <2>3 DEF CreatorsInv
<1>3. ASSUME NEW w \in Workers, Start(w) \/ Continue(w) \/ Crash(w)
      PROVE  CreatorsInv'
  <2>1. /\ \A v \in Workers : v # w => Unmoved(v)
        /\ \A v \in Workers : v # w /\ pc[v] = "insert" =>
             \A u \in Workers : u # v => op'[u].id # op[v].id
    <3>1. \A v \in Workers : v # w => Unmoved(v)
      BY <1>1, <1>3, OthersUnmoved
    <3>2. ASSUME NEW v \in Workers, v # w, pc[v] = "insert", NEW u \in Workers, u # v
          PROVE  op'[u].id # op[v].id
      <4>1. CASE u = w
        BY <1>3, <3>2, <4>1, OwnIdentifier
      <4>2. CASE u # w
        BY <1>1, <3>1, <3>2, <4>2 DEF Unmoved, CreatorState
      <4> QED BY <4>1, <4>2
    <3> QED BY <3>1, <3>2
  <2>2. CASE Create(w) \/ InsertRealized(w)
    <3>1. PICK o \in OpIds, x \in Operation :
            /\ ops[o] = NoOp /\ ops' = [ops EXCEPT ![o] = x]
            /\ UNCHANGED <<now, row>> /\ CreatorState(w)'
            /\ \A v \in Workers : v # w => op[v].id # o
      BY <2>2, CreatorAdds
    <3>2. Rises
      BY <3>1, AdditionRises
    <3>3. \A v \in Workers : v # w /\ pc[v] = "insert" => ops'[op[v].id] = NoOp
      BY <1>1, <3>1 DEF CreatorState, IInv, TypeOK
    <3> QED BY <1>2, <1>3, <2>1, <3>1, <3>2, <3>3
  <2>3. CASE WritePeriod(w)
    <3>1. PICK t : t = top[w]
      OBVIOUS
    <3>2. /\ Rises /\ t \in Months /\ Sound(row'[t]) /\ Within(held[w], t)
          /\ Below(held[w], row'[t]) /\ UNCHANGED <<now, ops>>
          /\ row'[t].carry = held[w].carry /\ row'[t].income = held[w].income
          /\ \A m \in Months : m # t => row'[m] = row[m]
          /\ \A m \in Months : m # t + 1 => Due(m)' = Due(m)
      BY <2>3, <3>1, WriteRises
    <3>3. Due(t)' = Due(t) /\ Income(t)' = Income(t)
      BY <3>2, SameFacts DEF Months
    <3>4. /\ row'[t].carry <= Due(t)'
          /\ row'[t].status = "CLOSED" => row'[t].income <= Income(t)'
      BY <3>2, <3>3 DEF Within, Below
    <3>5. CreatorState(w)'
      BY <2>3, <3>1, CreatorWrites
    <3>6. \A v \in Workers : v # w /\ pc[v] = "insert" => ops'[op[v].id] = NoOp
      BY <1>1, <3>2 DEF CreatorState
    <3> QED BY <1>2, <1>3, <2>1, <3>2, <3>4, <3>5, <3>6
  <2>4. ASSUME UNCHANGED <<now, ops, row>>, CreatorState(w)' PROVE CreatorsInv'
    <3>1. Rises
      BY <2>4, StillRises
    <3>2. \A v \in Workers : v # w /\ pc[v] = "insert" => ops'[op[v].id] = NoOp
      BY <1>1, <2>4 DEF CreatorState
    <3> QED BY <1>2, <1>3, <2>1, <2>4, <3>1, <3>2
  <2>5. CASE CheckPeriodOpen(w) \/ WriteConflict(w) \/ Crash(w)
    BY <2>4, <2>5, CreatorTurns
  <2>6. CASE Correct(w) \/ ListFrom(w)
    BY <2>4, <2>6, CreatorLists
  <2>7. CASE FirstActivity(w) \/ FindPeriod(w)
    BY <2>4, <2>7, CreatorReads
  <2>8. CASE ComputePeriod(w)
    BY <2>4, <2>8, CreatorComputes
  <2> QED BY <1>3, <2>2, <2>3, <2>5, <2>6, <2>7, <2>8, CreatorSteps
<1>4. CASE Rollover \/ ChangeFixed \/ UNCHANGED vars
  <2>1. UNCHANGED <<now, ops, row, pc, kind, op, today, from, touched, listed, top,
                    cursor, prev, held>>
    BY <1>4 DEF Rollover, ChangeFixed, vars, request, CreatorsOnly
  <2>2. Rises
    BY <2>1, StillRises
  <2>3. PICK w : w \notin Workers
    BY SentinelAssumption
  <2>4. \A v \in Workers : Unmoved(v)
    BY <2>1 DEF Unmoved
  <2>5. \A v \in Workers : pc[v] = "insert" =>
          /\ ops'[op[v].id] = NoOp
          /\ \A u \in Workers : u # v => op'[u].id # op[v].id
    BY <1>1, <2>1 DEF CreatorState
  <2> QED BY <1>2, <2>1, <2>2, <2>3, <2>4, <2>5
<1> QED BY <1>3, <1>4 DEF Next

\* Without expenses and on a base that is not negative, neither is a carry.
LEMMA SeedCarryNotNegative ==
  ASSUME CreatorsOnly, TypeOK, NEW m \in Months, NEW b \in Nat
  PROVE  SeedCarry(m, b) \in Int /\ 0 <= SeedCarry(m, b)
<1> DEFINE h == Cardinality(HandedOn(m))
           r(t) == Cardinality(Recorded(m, t))
<1>1. SeedCarry(m, b) = b * h + r("ENTREE") - r("DEPENSE")
  BY DEF SeedCarry, HandedOn, Recorded
<1>2. h \in Nat
  <2>1. IsFiniteSet(Months) /\ HandedOn(m) \subseteq Months
    BY MonthsAssumption, FS_Interval DEF Months, HandedOn
  <2> QED BY <2>1, FS_Subset, FS_CardinalityType
<1>3. r("ENTREE") \in Nat
  <2>1. Recorded(m, "ENTREE") \subseteq OpIds
    BY DEF Recorded
  <2> QED BY <2>1, OpsAssumption, FS_Subset, FS_CardinalityType
<1>4. r("DEPENSE") = 0
  <2>1. Recorded(m, "DEPENSE") = {}
    BY NoExpense DEF Recorded, OpsIn, TypeOK
  <2> QED BY <2>1, FS_EmptySet
<1> HIDE DEF h, r
<1>5. b * h \in Nat
  BY <1>2
<1> QED BY <1>1, <1>3, <1>4, <1>5

\* Initially every row agrees and none is negative.
LEMMA InitCreators == CreatorsOnly /\ Init => CreatorsInv /\ EachMonthCovered
<1> SUFFICES ASSUME CreatorsOnly, Init PROVE CreatorsInv /\ EachMonthCovered
  OBVIOUS
<1>1. /\ IInv /\ TypeOK /\ PastIsClosed /\ \A m \in Months : AgreesWithFacts(m)
      /\ Seeds = {"settled"} /\ BaseValues \subseteq Nat
  BY InitInv, InitAgrees, PastStartsClosed DEF IInv, CreatorsOnly
<1>2. PICK b \in Nat, last \in {now - 1, now} :
        row = [m \in Months |-> IF m <= last THEN SeedRow(m, b) ELSE NoRow]
  BY <1>1 DEF Init
<1>3. ASSUME NEW m \in Months, row[m] # NoRow PROVE RowBounded(m)
  <2>1. row[m] = SeedRow(m, b) /\ row[m] \in Row
    BY <1>1, <1>2, <1>3 DEF TypeOK
  <2>2. row[m].base = b /\ row[m].carry = SeedCarry(m, b)
    <3>1. b \in Int /\ now \in Months
      BY <1>1 DEF TypeOK
    <3>2. SeedRow(m, b).base = b
      BY <3>1, SeedRowType
    <3>3. SeedRow(m, b).carry = SeedCarry(m, b)
      BY <1>1, <3>1, SeedRowFields
    <3> QED BY <2>1, <3>2, <3>3
  <2>3. 0 <= row[m].base /\ 0 <= row[m].carry
    BY <1>1, <2>2, SeedCarryNotNegative
  <2>4. /\ row[m].carry = Due(m)
        /\ row[m].status = "CLOSED" =>
             /\ row[m].income = Income(m) /\ row[m].expense = Expense(m)
             /\ row[m].remaining =
                  row[m].base + Income(m) - Expense(m) + row[m].carry
    BY <1>1, <1>3, AgreesFields DEF Due
  <2>5. Expense(m) = 0
    BY <1>1, NoExpense, FS_EmptySet DEF Expense, OpsIn, TypeOK
  <2> QED BY <2>1, <2>3, <2>4, <2>5 DEF RowBounded, Sound, Within, Sums, Row
<1>4. \A m \in Months : RowBounded(m)
  BY <1>3 DEF RowBounded
<1>5. \A w \in Workers : ListedBelow(w) /\ CreatorState(w)
  BY DEF Init, ListedBelow, ListedEarlier, CreatorState
<1> QED BY <1>1, <1>4, <1>5 DEF CreatorsInv, EachMonthCovered

\* What a row's agreement depends on stays.
LEMMA AgreementStays ==
  ASSUME CreatorsOnly, CreatorsInv, CreatorsInv', NEW m \in Months, AgreesWithFacts(m),
         row'[m] = row[m], Due(m)' = Due(m),
         row[m].status = "CLOSED" => Income(m)' = Income(m)
  PROVE  AgreesWithFacts(m)'
<1>1. CASE row[m] = NoRow
  BY <1>1 DEF AgreesWithFacts
<1>2. CASE row[m] # NoRow
  <2>1. row[m].carry = Due(m) /\ (row[m].status = "CLOSED" => row[m].income = Income(m))
    BY <1>2, BoundedAgrees
  <2> QED BY <1>2, <2>1, BoundedAgreesNext
<1> QED BY <1>1, <1>2

\* An added operation leaves each month before its own as it was, and the others
\* to the request that added it.
LEMMA AdditionCovered ==
  ASSUME CreatorsOnly, CreatorsInv, CreatorsInv', NEW w \in Workers,
         \A v \in Workers : v # w => Unmoved(v),
         \A v \in Workers : v # w /\ pc[v] = "insert" =>
           \A u \in Workers : u # v => op'[u].id # op[v].id,
         Create(w) \/ InsertRealized(w), NEW m \in Months,
         AgreesWithFacts(m) \/ \E v \in Workers : Covers(v, m)
  PROVE  AgreesWithFacts(m)' \/ \E v \in Workers : Covers(v, m)'
<1>1. IInv /\ IInv' /\ now \in Months
  BY DEF CreatorsInv, IInv, TypeOK
<1>2. PICK o \in OpIds, x \in Operation :
        /\ ops[o] = NoOp /\ ops' = [ops EXCEPT ![o] = x]
        /\ UNCHANGED <<now, row>>
        /\ x.month < now => \A k \in Months : x.month <= k => Covers(w, k)'
        /\ pc[w] \in {"idle", "insert"}
        /\ \A v \in Workers : v # w => op[v].id # o
  BY CreatorAdds
<1>3. x.month \in Months
  BY DEF Operation
<1>4. /\ Rises
      /\ m <= x.month => Due(m)' = Due(m) /\ (m < x.month => Income(m)' = Income(m))
  BY <1>2, AdditionRises
<1>5. CASE row[m] = NoRow
  BY <1>2, <1>5 DEF AgreesWithFacts
<1>6. CASE row[m] # NoRow /\ x.month < now /\ x.month <= m
  BY <1>2, <1>6
<1>7. CASE row[m] # NoRow /\ ~(x.month < now /\ x.month <= m)
  <2>1. m <= now /\ (row[m].status = "CLOSED" => m < now)
    BY <1>1, <1>7 DEF IInv, PeriodsInTime
  <2>2. m <= x.month /\ (row[m].status = "CLOSED" => m < x.month)
    BY <1>1, <1>3, <1>7, <2>1 DEF Months
  <2>3. Due(m)' = Due(m) /\ (row[m].status = "CLOSED" => Income(m)' = Income(m))
    BY <1>4, <2>2
  <2>4. CASE AgreesWithFacts(m)
    BY <1>2, <2>3, <2>4, AgreementStays
  <2>5. ASSUME NEW v \in Workers, Covers(v, m) PROVE Covers(v, m)'
    <3>1. v # w
      BY <1>2, <2>5 DEF Covers
    <3>2. pc[v] = "insert" => ops'[op[v].id] = NoOp
      BY <1>1, <1>2, <3>1 DEF CreatorsInv, CreatorState, IInv, TypeOK
    <3> QED BY <1>1, <1>4, <2>3, <2>5, <3>1, <3>2, CreatorStays
  <2> QED BY <2>4, <2>5
<1> QED BY <1>5, <1>6, <1>7

\* A write leaves the months before its own as they were and the others to the
\* request that wrote. Its own month does not agree yet: what is about to be
\* written is not the row that is there, and beyond neither it nor the facts. So
\* some request covers it, and if it is the one that writes, the row agrees now.
LEMMA WriteCovered ==
  ASSUME CreatorsOnly, CreatorsInv, CreatorsInv', NEW w \in Workers,
         \A v \in Workers : v # w => Unmoved(v),
         \A v \in Workers : v # w /\ pc[v] = "insert" =>
           \A u \in Workers : u # v => op'[u].id # op[v].id,
         WritePeriod(w), NEW m \in Months,
         AgreesWithFacts(m) \/ \E v \in Workers : Covers(v, m)
  PROVE  AgreesWithFacts(m)' \/ \E v \in Workers : Covers(v, m)'
<1>1. IInv /\ IInv' /\ pc[w] = "write" /\ CreatorState(w)
  BY DEF CreatorsInv, WritePeriod
<1>2. PICK t : t = top[w]
  OBVIOUS
<1>3. /\ Rises /\ t \in Months /\ row[t] \in Row /\ listed[w][t] = row[t]
      /\ row'[t] \in Row /\ held[w] \in Row /\ Below(held[w], row'[t])
      /\ Within(held[w], t) /\ row'[t].carry = held[w].carry
      /\ row'[t].income = held[w].income
      /\ \A k \in Months : k # t => row'[k] = row[k]
      /\ \A k \in Months : k # t + 1 => Due(k)' = Due(k)
      /\ UNCHANGED <<now, ops>>
  BY <1>2, WriteRises
<1>4. Income(m)' = Income(m) /\ row[t] # NoRow /\ row'[t] # NoRow
  BY <1>3, SameFacts, SentinelAssumption
<1>5. CASE m > t
  BY <1>2, <1>4, <1>5, CreatorWrites DEF AgreesWithFacts
<1>6. CASE ~(m > t)
  <2>1. Due(m)' = Due(m)
    BY <1>3, <1>6 DEF Months
  <2>2. ASSUME NEW v \in Workers, v # w, Covers(v, m) PROVE Covers(v, m)'
    <3>1. pc[v] = "insert" => ops'[op[v].id] = NoOp
      BY <1>3 DEF CreatorsInv, CreatorState
    <3> QED BY <1>1, <1>3, <1>4, <2>1, <2>2, <3>1, CreatorStays
  <2>3. CASE m # t
    <3>1. ~Covers(w, m)
      BY <1>1, <1>2, <1>3, <1>6, <2>3 DEF Covers, Months
    <3>2. AgreesWithFacts(m) => AgreesWithFacts(m)'
      BY <1>3, <1>4, <2>1, <2>3, AgreementStays
    <3> QED BY <2>2, <3>1, <3>2
  <2>4. CASE m = t
    <3>1. ~AgreesWithFacts(t)
      <4> SUFFICES ASSUME AgreesWithFacts(t) PROVE FALSE
        OBVIOUS
      <4>1. /\ row[t].carry = Due(t)
            /\ row[t].status = "CLOSED" => row[t].income = Income(t)
        BY <1>3, <1>4, BoundedAgrees
      <4>2. /\ Raises(row[t], held[w]) /\ Sound(held[w]) /\ Sound(row[t])
        BY <1>1, <1>2, <1>3, <1>4 DEF CreatorState, CreatorsInv, RowBounded
      <4>3. held[w].carry <= row[t].carry
        BY <1>3, <4>1 DEF Within
      <4>4. row[t].status = "CLOSED" => held[w].income <= row[t].income
        BY <1>3, <4>1, <4>2 DEF Within, Raises, Below
      <4>5. PICK h \in Row : h = held[w]
        BY <1>3
      <4>6. row[t] = h
        BY <1>3, <4>2, <4>3, <4>4, <4>5, SquaredRow DEF Raises
      <4> QED BY <4>2, <4>5, <4>6 DEF Raises
    <3>2. ASSUME Covers(w, t) PROVE AgreesWithFacts(t)'
      <4>1. /\ held[w].carry = Due(t)
            /\ held[w].status = "CLOSED" => held[w].income = Income(t)
        BY <1>1, <1>2, <1>3, <3>2 DEF Covers, Months
      <4> QED BY <1>3, <1>4, <2>1, <2>4, <4>1, BoundedAgreesNext DEF Below
    <3> QED BY <2>2, <2>4, <3>1, <3>2
  <2> QED BY <2>3, <2>4
<1> QED BY <1>5, <1>6

\* Whatever a step takes from the requests that cover a month, another request
\* covers it or its row agrees.
LEMMA CoverNext ==
  CreatorsOnly /\ CreatorsInv /\ CreatorsInv' /\ EachMonthCovered /\ [Next]_vars
    => EachMonthCovered'
<1> SUFFICES ASSUME CreatorsOnly, CreatorsInv, CreatorsInv', EachMonthCovered,
                    [Next]_vars
             PROVE  EachMonthCovered'
  OBVIOUS
<1>1. IInv /\ IInv' /\ \A v \in Workers : CreatorState(v)
  BY DEF CreatorsInv
<1>2. ASSUME UNCHANGED <<now, ops, row>>, NEW v \in Workers, Unmoved(v),
             \A u \in Workers : u # v => (pc[v] = "insert" => op'[u].id # op[v].id),
             NEW m \in Months, Covers(v, m)
      PROVE  Covers(v, m)'
  <2>1. Rises /\ Due(m)' = Due(m) /\ Income(m)' = Income(m)
    BY <1>2, StillRises, SameFacts
  <2>2. pc[v] = "insert" => ops'[op[v].id] = NoOp
    BY <1>1, <1>2 DEF CreatorState
  <2> QED BY <1>1, <1>2, <2>1, <2>2, CreatorStays
<1>3. ASSUME UNCHANGED <<now, ops, row>>, NEW m \in Months, AgreesWithFacts(m)
      PROVE  AgreesWithFacts(m)'
  <2>1. Due(m)' = Due(m) /\ Income(m)' = Income(m)
    BY <1>3, StillRises, SameFacts
  <2> QED BY <1>3, <2>1, AgreementStays
<1>4. ASSUME NEW w \in Workers, Start(w) \/ Continue(w) \/ Crash(w), ~excused',
             NEW m \in Months
      PROVE  AgreesWithFacts(m)' \/ \E v \in Workers : Covers(v, m)'
  <2>1. \A v \in Workers : v # w => Unmoved(v)
    BY <1>1, <1>4, OthersUnmoved
  <2>2. \A v \in Workers : v # w /\ pc[v] = "insert" =>
          \A u \in Workers : u # v => op'[u].id # op[v].id
    <3>1. ASSUME NEW v \in Workers, v # w, pc[v] = "insert", NEW u \in Workers, u # v
          PROVE  op'[u].id # op[v].id
      <4>1. CASE u = w
        BY <1>4, <3>1, <4>1, OwnIdentifier
      <4>2. CASE u # w
        BY <1>1, <2>1, <3>1, <4>2 DEF Unmoved, CreatorState
      <4> QED BY <4>1, <4>2
    <3> QED BY <3>1
  <2>3. AgreesWithFacts(m) \/ \E v \in Workers : Covers(v, m)
    <3>1. ~excused
      BY <1>4, CreatorSteps
      DEF Create, CheckPeriodOpen, InsertRealized, Correct, ListFrom, FirstActivity,
          FindPeriod, ComputePeriod, WritePeriod, WriteConflict, Crash
    <3> QED BY <3>1 DEF EachMonthCovered
  <2>4. ASSUME UNCHANGED <<now, ops, row>>,
               Covers(w, m) => Covers(w, m)' \/ AgreesWithFacts(m)
        PROVE  AgreesWithFacts(m)' \/ \E v \in Workers : Covers(v, m)'
    <3>1. CASE AgreesWithFacts(m)
      BY <1>3, <2>4, <3>1
    <3>2. ASSUME NEW v \in Workers, v # w, Covers(v, m) PROVE Covers(v, m)'
      BY <1>2, <2>1, <2>2, <2>4, <3>2
    <3> QED BY <2>3, <2>4, <3>1, <3>2
  <2>5. CASE CheckPeriodOpen(w) \/ WriteConflict(w) \/ Crash(w)
    BY <1>4, <2>4, <2>5, CreatorTurns
  <2>6. CASE Correct(w) \/ ListFrom(w)
    BY <2>4, <2>6, CreatorLists
  <2>7. CASE FirstActivity(w) \/ FindPeriod(w)
    BY <2>4, <2>7, CreatorReads
  <2>8. CASE ComputePeriod(w)
    BY <2>4, <2>8, CreatorComputes
  <2>9. CASE Create(w) \/ InsertRealized(w)
    BY <2>1, <2>2, <2>3, <2>9, AdditionCovered
  <2>10. CASE WritePeriod(w)
    BY <2>1, <2>2, <2>3, <2>10, WriteCovered
  <2> QED BY <1>4, <2>5, <2>6, <2>7, <2>8, <2>9, <2>10, CreatorSteps
<1>5. CASE Rollover \/ ChangeFixed \/ UNCHANGED vars
  <2>1. UNCHANGED <<now, ops, row, pc, kind, op, today, from, touched, listed, top,
                    cursor, prev, held, excused>>
    BY <1>5 DEF Rollover, ChangeFixed, vars, request, CreatorsOnly
  <2>2. \A v \in Workers : /\ Unmoved(v)
                           /\ pc[v] = "insert" =>
                                \A u \in Workers : u # v => op'[u].id # op[v].id
    BY <1>1, <2>1 DEF Unmoved, CreatorState
  <2> QED BY <1>2, <1>3, <2>1, <2>2 DEF EachMonthCovered
<1>6. CASE ~excused' /\ \E w \in Workers : Start(w) \/ Continue(w) \/ Crash(w)
  BY <1>4, <1>6 DEF EachMonthCovered
<1> QED BY <1>5, <1>6 DEF Next, EachMonthCovered

\* Requests that record incomes at once, on a chain that agrees and is closed up
\* to the current month: whatever their calls interleave, whichever conflicts
\* they meet and retry, and whether others die, once they are all answered and
\* none died or gave up, every row agrees with the operations and with the row
\* before it.
THEOREM CreatorsSettled == CreatorsOnly => (Spec => []SettledChain)
<1> SUFFICES ASSUME CreatorsOnly PROVE Spec => []SettledChain
  OBVIOUS
<1>1. Init => CreatorsInv /\ EachMonthCovered
  BY InitCreators
<1>2. CreatorsInv /\ [Next]_vars => CreatorsInv'
  BY CreatorsNext
<1>3. CreatorsInv /\ CreatorsInv' /\ EachMonthCovered /\ [Next]_vars => EachMonthCovered'
  BY CoverNext
<1>4. EachMonthCovered => SettledChain
  BY DEF EachMonthCovered, SettledChain, Covers
<1> QED BY <1>1, <1>2, <1>3, <1>4, PTL DEF Spec

(* ---------------------------------------------------------------------- *)
(* The forecast and the summary.                                           *)

\* A set of numbers has a least one.
LEMMA Least ==
  ASSUME NEW T, T \subseteq Nat, T # {}
  PROVE  \E x \in T : \A y \in T : x <= y
<1> DEFINE Less == OpToRel(<, Nat)
<1>1. IsWellFoundedOn(Less, Nat)
  BY NatLessThanWellFounded
<1>2. Less = {p \in Nat \X Nat : p[1] < p[2]}
  BY Zenon DEF OpToRel
<1> HIDE DEF Less
<1>3. PICK x \in T : \A y \in T : <<y, x>> \notin Less
  BY <1>1, WFMin
<1>4. ASSUME NEW y \in T PROVE x <= y
  <2>1. y \in Nat /\ x \in Nat
    OBVIOUS
  <2>2. <<y, x>> \in Nat \X Nat
    BY <2>1
  <2>3. ~(<<y, x>>[1] < <<y, x>>[2])
    BY <1>2, <1>3, <2>2, Zenon
  <2>4. ~(y < x)
    BY <2>3
  <2> QED BY <2>1, <2>4
<1> QED BY <1>4

\* A set of months has a last one.
LEMMA LastOf ==
  ASSUME NEW T, T \subseteq Months, T # {}
  PROVE  \E x \in T : \A y \in T : y <= x
<1> DEFINE N == {n \in Nat : LastMonth - n \in T}
<1>1. \A x \in T : x \in Int /\ LastMonth - x \in Nat /\ LastMonth - (LastMonth - x) = x
  BY MonthsAssumption DEF Months
<1>2. \A x \in T : LastMonth - x \in N
  BY <1>1
<1>3. PICK n \in N : \A k \in N : n <= k
  <2>1. N \subseteq Nat /\ N # {}
    BY <1>2
  <2> HIDE DEF N
  <2> QED BY <2>1, Least
<1>4. ASSUME NEW y \in T PROVE y <= LastMonth - n
  <2>1. n <= LastMonth - y /\ n \in Nat /\ y \in Int /\ LastMonth \in Int
    BY <1>1, <1>2, <1>3, MonthsAssumption
  <2> QED BY <2>1
<1> QED BY <1>3, <1>4

\* The chain starts at one month, the first with an operation.
LEMMA OriginIs ==
  ASSUME TypeOK, NEW t \in Months, ~NothingBefore(t)
  PROVE  \E g \in Months : /\ g < t /\ Origin = {g}
                           /\ \A m \in Nat : NothingBefore(m) <=> m <= g
<1> DEFINE M == {m \in Months : \E o \in OpIds : ops[o] \in Operation /\ ops[o].month = m}
<1>1. \A o \in OpIds : ops[o] \in Operation => ops[o].month \in M
  BY DEF Operation
<1>2. \A m \in M : m \in Months /\ \E o \in OpIds : ops[o] \in Operation /\ ops[o].month = m
  OBVIOUS
<1>3. PICK g \in M : \A m \in M : g <= m
  <2>1. M \subseteq Nat /\ M # {}
    BY <1>1 DEF NothingBefore, Months
  <2> HIDE DEF M
  <2> QED BY <2>1, Least
<1>4. ASSUME NEW m \in Nat PROVE NothingBefore(m) <=> m <= g
  <2>1. ASSUME m <= g, NEW o \in OpIds, ops[o] \in Operation PROVE m <= ops[o].month
    <3>1. g \in Int /\ ops[o].month \in Int /\ g <= ops[o].month
      BY <1>1, <1>2, <1>3, <2>1 DEF Months
    <3> QED BY <2>1, <3>1
  <2>2. ASSUME NothingBefore(m) PROVE m <= g
    BY <1>2, <1>3, <2>2 DEF NothingBefore
  <2> QED BY <2>1, <2>2 DEF NothingBefore
<1>5. g \in Months /\ g < t
  BY <1>2, <1>3, <1>4 DEF Months
<1>6. Origin = {g}
  <2>1. \A m \in Origin : m \in M /\ m <= g
    BY <1>4 DEF Origin, Months
  <2>2. g \in Origin
    BY <1>2, <1>3, <1>4, <1>5 DEF Origin, Months
  <2>3. ASSUME NEW m \in Origin PROVE m = g
    <3>1. m \in M /\ m <= g /\ g <= m /\ m \in Int /\ g \in Int
      BY <1>2, <1>3, <1>5, <2>1, <2>3 DEF Months
    <3> QED BY <3>1
  <2> QED BY <2>2, <2>3
<1> QED BY <1>4, <1>5, <1>6

\* One month replayed on what the month before left.
ReplayedMonth(m, prior) ==
  LET base == ReplayedBase(m, prior.base)
  IN  [base |-> base, carry |-> base + Income(m) - Expense(m) + prior.carry]

\* A replay, from what it starts from, up to a month.
Replayed(f, first, start, last) ==
  f = [m \in (first - 1)..last |->
         IF m < first THEN start ELSE ReplayedMonth(m, f[m - 1])]

\* Months are replayed one by one, to any month.
LEMMA ReplayedExists ==
  ASSUME NEW first \in Months, NEW start, NEW n \in Nat
  PROVE  \E f : Replayed(f, first, start, first - 1 + n)
<1> DEFINE S == {k \in Nat : ~ \E f : Replayed(f, first, start, first - 1 + k)}
<1> SUFFICES ASSUME n \in S PROVE FALSE
  OBVIOUS
<1>1. PICK k \in S : \A i \in S : k <= i
  <2>1. S \subseteq Nat /\ S # {}
    OBVIOUS
  <2> HIDE DEF S
  <2> QED BY <2>1, Least
<1>2. k \in Nat /\ ~ \E f : Replayed(f, first, start, first - 1 + k)
  OBVIOUS
<1>3. first \in Int
  BY DEF Months
<1>4. CASE k = 0
  <2> DEFINE f == [m \in (first - 1)..(first - 1 + k) |-> start]
  <2>1. \A m \in (first - 1)..(first - 1 + k) : m < first
    BY <1>3, <1>4
  <2>2. f = [m \in (first - 1)..(first - 1 + k) |->
               IF m < first THEN start ELSE ReplayedMonth(m, f[m - 1])]
    BY <2>1
  <2> HIDE DEF f
  <2>3. Replayed(f, first, start, first - 1 + k)
    BY <2>2 DEF Replayed
  <2> QED BY <1>2, <2>3
<1>5. CASE k # 0
  <2>1. PICK i \in Nat : i = k - 1
    BY <1>2, <1>5
  <2>2. PICK f : Replayed(f, first, start, first - 1 + i)
    BY <1>1, <1>2, <2>1
  <2>3. \A m \in (first - 1)..(first - 1 + i) :
          f[m] = IF m < first THEN start ELSE ReplayedMonth(m, f[m - 1])
    BY <2>2, Zenon DEF Replayed
  <2> DEFINE h == [m \in (first - 1)..(first - 1 + k) |->
                     IF m = first - 1 + k THEN ReplayedMonth(m, f[m - 1]) ELSE f[m]]
  <2>4. ASSUME NEW m \in (first - 1)..(first - 1 + k)
        PROVE  h[m] = IF m < first THEN start ELSE ReplayedMonth(m, h[m - 1])
    <3>1. m \in Int /\ first - 1 <= m /\ m <= first - 1 + k
      BY <1>2, <1>3
    <3>2. CASE m = first - 1 + k
      <4>1. ~(m < first) /\ m - 1 \in (first - 1)..(first - 1 + k) /\ m - 1 # first - 1 + k
        BY <1>2, <1>3, <1>5, <3>1, <3>2
      <4>2. h[m - 1] = f[m - 1]
        BY <4>1
      <4>3. h[m] = ReplayedMonth(m, f[m - 1])
        BY <3>2
      <4> HIDE DEF h
      <4> QED BY <4>1, <4>2, <4>3
    <3>3. CASE m # first - 1 + k
      <4>1. m \in (first - 1)..(first - 1 + i)
        BY <1>2, <1>3, <2>1, <3>1, <3>3
      <4>2. h[m] = f[m]
        BY <3>3
      <4>3. ~(m < first) => h[m - 1] = f[m - 1]
        <5>1. ASSUME ~(m < first)
              PROVE  m - 1 \in (first - 1)..(first - 1 + k) /\ m - 1 # first - 1 + k
          BY <1>2, <1>3, <3>1, <5>1
        <5> QED BY <5>1
      <4> HIDE DEF h
      <4> QED BY <2>3, <4>1, <4>2, <4>3
    <3> QED BY <3>2, <3>3
  <2>5. h = [m \in (first - 1)..(first - 1 + k) |-> h[m]]
    OBVIOUS
  <2> HIDE DEF h
  <2>6. Replayed(h, first, start, first - 1 + k)
    BY <2>4, <2>5 DEF Replayed
  <2> QED BY <1>2, <2>6
<1> QED BY <1>4, <1>5

\* The forecast's replay starts from what it is given and goes month by month.
LEMMA ReplaySteps ==
  ASSUME NEW first \in Months, NEW start
  PROVE  /\ Replay(first, start)[first - 1] = start
         /\ \A m \in Months : m >= first =>
              Replay(first, start)[m] = ReplayedMonth(m, Replay(first, start)[m - 1])
<1>1. PICK n \in Nat : first - 1 + n = LastMonth
  <2>1. LastMonth - first + 1 \in Nat /\ first - 1 + (LastMonth - first + 1) = LastMonth
    BY MonthsAssumption DEF Months
  <2> QED BY <2>1
<1>2. Replay(first, start) = CHOOSE f : Replayed(f, first, start, LastMonth)
  BY DEF Replay, Replayed, ReplayedMonth
<1>3. PICK f : f = Replay(first, start) /\ Replayed(f, first, start, LastMonth)
  BY <1>1, <1>2, ReplayedExists
<1>4. \A m \in (first - 1)..LastMonth :
        f[m] = IF m < first THEN start ELSE ReplayedMonth(m, f[m - 1])
  BY <1>3, Zenon DEF Replayed
<1>5. /\ first \in Int /\ first - 1 \in (first - 1)..LastMonth /\ first - 1 < first
      /\ \A m \in Months : m >= first => m \in (first - 1)..LastMonth /\ ~(m < first)
  BY MonthsAssumption DEF Months
<1> QED BY <1>3, <1>4, <1>5

\* `v' holds the base and the balance of every month before `t' from the origin
\* of the chain on: of a month with a row its base, of another the one it will
\* be opened with.
Follows(v, t) ==
  \A m \in Months : m < t /\ ~NothingBefore(m + 1) =>
    /\ v[m].base = IF row[m] # NoRow THEN row[m].base
                   ELSE IF NothingBefore(m) \/ m \in PlannedMonths THEN fixed[m]
                   ELSE v[m - 1].base
    /\ v[m].carry = v[m].base + Income(m) - Expense(m)
                      + IF NothingBefore(m) THEN 0 ELSE v[m - 1].carry

\* `p' is the carry of month `t', or what it will be opened with.
Foretold(p, t) ==
  IF row[t] # NoRow
  THEN p = row[t].carry
  ELSE \E v : Follows(v, t) /\ p = IF NothingBefore(t) THEN 0 ELSE v[t - 1].carry

\* From the origin to a closed month, every month of an agreeing chain is closed.
LEMMA ClosedDownwards ==
  ASSUME TypeOK, \A m \in Months : AgreesWithFacts(m),
         NEW g \in Months, \A m \in Nat : NothingBefore(m) <=> m <= g,
         NEW last \in Months, row[last] # NoRow, row[last].status = "CLOSED",
         NEW k \in Months, g <= k, k <= last
  PROVE  row[k] # NoRow /\ row[k].status = "CLOSED"
<1> DEFINE Bad == {m \in Months : /\ g <= m /\ m <= last
                                  /\ ~(row[m] # NoRow /\ row[m].status = "CLOSED")}
<1> SUFFICES ASSUME k \in Bad PROVE FALSE
  OBVIOUS
<1>1. PICK m \in Bad : \A i \in Bad : i <= m
  <2>1. Bad \subseteq Months /\ Bad # {}
    OBVIOUS
  <2> HIDE DEF Bad
  <2> QED BY <2>1, LastOf
<1>2. m \in Months /\ g <= m /\ m <= last /\ ~(row[m] # NoRow /\ row[m].status = "CLOSED")
  OBVIOUS
<1>3. PICK d \in Months : d = m + 1 /\ g < d /\ d <= last /\ d - 1 = m
  <2>1. m # last /\ m \in Int /\ last \in Int /\ g \in Int
    BY <1>2 DEF Months
  <2>2. m + 1 \in Months /\ g < m + 1 /\ m + 1 <= last /\ (m + 1) - 1 = m
    BY <1>2, <2>1, MonthsAssumption DEF Months
  <2> QED BY <2>2
<1>4. row[d] # NoRow /\ row[d].status = "CLOSED"
  <2>1. d \notin Bad
    <3>1. ~(d <= m)
      BY <1>2, <1>3 DEF Months
    <3> QED BY <1>1, <3>1
  <2>2. g <= d
    BY <1>3 DEF Months
  <2> QED BY <1>3, <2>1, <2>2
<1>5. ~NothingBefore(d)
  BY <1>3 DEF Months
<1> QED BY <1>2, <1>3, <1>4, <1>5, AgreesFields

\* What is replayed from the latest closed month, or from the first month with
\* an operation, is what follows.
LEMMA ForecastForetells ==
  ASSUME TypeOK, \A m \in Months : AgreesWithFacts(m), NEW t \in Months
  PROVE  Foretold(CurrentCarry(t), t)
<1>1. CASE row[t] # NoRow
  BY <1>1 DEF Foretold, CurrentCarry
<1>2. CASE row[t] = NoRow /\ NothingBefore(t)
  <2>1. \A first \in Origin : first >= t
    BY <1>2 DEF NothingBefore, Origin, Months
  <2>2. CurrentCarry(t) = 0
    BY <1>2, <2>1, Zenon DEF CurrentCarry
  <2>3. \E v : Follows(v, t)
    <3>1. \A m \in Months : m < t => NothingBefore(m + 1)
      <4> SUFFICES ASSUME NEW m \in Months, m < t PROVE NothingBefore(m + 1)
        OBVIOUS
      <4>1. m + 1 \in Months /\ m + 1 <= t
        BY MonthsAssumption DEF Months
      <4> QED BY <1>2, <4>1, NothingBeforeEarlier
    <3> QED BY <3>1 DEF Follows
  <2> QED BY <1>2, <2>2, <2>3 DEF Foretold
<1>3. CASE row[t] = NoRow /\ ~NothingBefore(t)
  <2>1. PICK g \in Months : /\ g < t /\ Origin = {g}
                            /\ \A m \in Nat : NothingBefore(m) <=> m <= g
    BY <1>3, OriginIs
  <2>2. ~ \A first \in Origin : first >= t
    BY <2>1 DEF Months
  <2>3. /\ t \in Int /\ g \in Int /\ t - 1 \in Months
        /\ \A m \in Months : /\ m \in Nat /\ m + 1 \in Nat /\ m \in Int
                             /\ NothingBefore(m + 1) <=> m < g
                             /\ NothingBefore(m) <=> m <= g
                             /\ ~(m <= g) => m - 1 \in Months
    BY <2>1, MonthsAssumption DEF Months
  <2>4. ASSUME NEW first \in Months, NEW start, NEW v, first - 1 < t,
               CurrentCarry(t) = Replay(first, start)[t - 1].carry,
               \A m \in (first - 1)..LastMonth : m > 0 => v[m] = Replay(first, start)[m],
               \A m \in Months : g <= m /\ m < first /\ m < t =>
                 /\ v[m].base = IF row[m] # NoRow THEN row[m].base
                                ELSE IF NothingBefore(m) \/ m \in PlannedMonths THEN fixed[m]
                                ELSE v[m - 1].base
                 /\ v[m].carry = v[m].base + Income(m) - Expense(m)
                                   + IF NothingBefore(m) THEN 0 ELSE v[m - 1].carry,
               g <= first,
               first = g => start.base = fixed[g] /\ start.carry = 0
        PROVE  Foretold(CurrentCarry(t), t)
    <3>1. PICK f : f = Replay(first, start)
      OBVIOUS
    <3>2. /\ f[first - 1] = start
          /\ \A m \in Months : m >= first => f[m] = ReplayedMonth(m, f[m - 1])
      BY <3>1, ReplaySteps
    <3>3. ASSUME NEW m \in Months, m < t, ~NothingBefore(m + 1), m >= first
          PROVE  /\ v[m].base = IF row[m] # NoRow THEN row[m].base
                                ELSE IF NothingBefore(m) \/ m \in PlannedMonths THEN fixed[m]
                                ELSE v[m - 1].base
                 /\ v[m].carry = v[m].base + Income(m) - Expense(m)
                                   + IF NothingBefore(m) THEN 0 ELSE v[m - 1].carry
      <4>1. m \in (first - 1)..LastMonth /\ m > 0 /\ m - 1 \in (first - 1)..LastMonth
            /\ first \in Int /\ m \in Int
        BY <3>3, MonthsAssumption DEF Months
      <4>2. v[m] = f[m] /\ f[m] = ReplayedMonth(m, f[m - 1])
        BY <2>4, <3>1, <3>2, <3>3, <4>1
      <4>3. /\ v[m].base = ReplayedBase(m, f[m - 1].base)
            /\ v[m].carry = v[m].base + Income(m) - Expense(m) + f[m - 1].carry
        BY <4>2 DEF ReplayedMonth
      <4>4. CASE NothingBefore(m)
        <5>1. m = g /\ first = g
          BY <2>3, <2>4, <3>3, <4>1, <4>4
        <5>2. f[m - 1].base = fixed[m] /\ f[m - 1].carry = 0
          BY <2>4, <3>2, <5>1
        <5> QED BY <4>3, <4>4, <5>2 DEF ReplayedBase
      <4>5. CASE ~NothingBefore(m)
        <5>1. m - 1 \in Months /\ m - 1 > 0
          BY <2>3, <4>5 DEF Months
        <5>2. v[m - 1] = f[m - 1]
          BY <2>4, <3>1, <4>1, <5>1
        <5> QED BY <4>3, <4>5, <5>2 DEF ReplayedBase
      <4> QED BY <4>4, <4>5
    <3>4. Follows(v, t)
      <4> SUFFICES ASSUME NEW m \in Months, m < t, ~NothingBefore(m + 1), ~(m >= first)
                   PROVE  g <= m /\ m < first
        BY <2>4, <3>3 DEF Follows
      <4> QED BY <2>3 DEF Months
    <3>5. v[t - 1] = f[t - 1]
      <4>1. t - 1 \in (first - 1)..LastMonth /\ t - 1 > 0
        BY <2>3, <2>4 DEF Months
      <4> QED BY <2>4, <3>1, <4>1
    <3> QED BY <1>3, <2>4, <3>1, <3>4, <3>5 DEF Foretold
  <2>5. CASE ClosedBefore(t) = {}
    <3>1. PICK start : start = [base |-> fixed[g], carry |-> 0]
      OBVIOUS
    <3>2. g = CHOOSE m \in Origin : TRUE
      BY <2>1
    <3>3. CurrentCarry(t) = Replay(g, start)[t - 1].carry
      BY <1>3, <2>2, <2>5, <3>1, <3>2, Zenon DEF CurrentCarry
    <3>4. start.base = fixed[g] /\ start.carry = 0
      BY <3>1
    <3>5. g - 1 < t /\ \A m \in Months : ~(g <= m /\ m < g)
      BY <2>1 DEF Months
    <3>6. PICK v : v = Replay(g, start)
      OBVIOUS
    <3>7. \A m \in (g - 1)..LastMonth : m > 0 => v[m] = Replay(g, start)[m]
      BY <3>6
    <3>8. g <= g
      BY <2>3
    <3> QED BY <2>4, <3>3, <3>4, <3>5, <3>7, <3>8
  <2>6. CASE ClosedBefore(t) # {}
    <3>1. PICK last : last = CHOOSE m \in ClosedBefore(t) : \A k \in ClosedBefore(t) : k <= m
      OBVIOUS
    <3>2. last \in ClosedBefore(t)
      <4>1. ClosedBefore(t) \subseteq Months
        BY DEF ClosedBefore
      <4>2. \E m \in ClosedBefore(t) : \A k \in ClosedBefore(t) : k <= m
        BY <2>6, <4>1, LastOf
      <4> QED BY <3>1, <4>2
    <3>3. /\ last \in Months /\ last < t /\ g <= last
          /\ row[last] # NoRow /\ row[last].status = "CLOSED"
      BY <2>1, <3>2 DEF ClosedBefore
    <3>4. PICK start : start = [base |-> row[last].base, carry |-> row[last].remaining]
      OBVIOUS
    <3>5. PICK first \in Months : first = last + 1 /\ first - 1 = last /\ g < first
      <4>1. last + 1 \in Months /\ (last + 1) - 1 = last /\ g < last + 1
        BY <2>3, <3>3, MonthsAssumption DEF Months
      <4> QED BY <4>1
    <3>6. CurrentCarry(t) = Replay(first, start)[t - 1].carry
      BY <1>3, <2>2, <2>6, <3>1, <3>4, <3>5, Zenon DEF CurrentCarry
    <3>7. PICK f : f = Replay(first, start) /\ f[last] = start
      BY <3>5, ReplaySteps
    <3> DEFINE v == [m \in Months |->
                       IF m < last THEN [base |-> row[m].base, carry |-> row[m].remaining]
                       ELSE f[m]]
    <3>8. \A m \in Months : /\ m < last => v[m].base = row[m].base /\ v[m].carry = row[m].remaining
                            /\ ~(m < last) => v[m] = f[m]
      OBVIOUS
    <3> HIDE DEF v
    <3>9. \A m \in Months : m <= last => v[m].base = row[m].base /\ v[m].carry = row[m].remaining
      <4> SUFFICES ASSUME NEW m \in Months, m <= last, ~(m < last)
                   PROVE  v[m].base = row[m].base /\ v[m].carry = row[m].remaining
        BY <3>8
      <4>1. m = last
        BY <3>3 DEF Months
      <4> QED BY <3>4, <3>7, <3>8, <4>1
    <3>10. ASSUME NEW m \in Months, g <= m, m < first
           PROVE  /\ v[m].base = IF row[m] # NoRow THEN row[m].base
                                 ELSE IF NothingBefore(m) \/ m \in PlannedMonths THEN fixed[m]
                                 ELSE v[m - 1].base
                  /\ v[m].carry = v[m].base + Income(m) - Expense(m)
                                    + IF NothingBefore(m) THEN 0 ELSE v[m - 1].carry
      <4>1. m <= last
        BY <3>3, <3>5, <3>10 DEF Months
      <4>2. row[m] # NoRow /\ row[m].status = "CLOSED"
        BY <2>1, <3>3, <3>10, <4>1, ClosedDownwards
      <4>3. /\ NothingBefore(m) => row[m].carry = 0
            /\ ~NothingBefore(m) => row[m].carry = row[m - 1].remaining
            /\ row[m].remaining = row[m].base + Income(m) - Expense(m) + row[m].carry
        BY <4>2, AgreesFields
      <4>4. ~NothingBefore(m) => v[m - 1].carry = row[m - 1].remaining
        <5> SUFFICES ASSUME ~NothingBefore(m) PROVE m - 1 \in Months /\ m - 1 <= last
          BY <3>9
        <5> QED BY <2>3, <3>3, <4>1 DEF Months
      <4> QED BY <3>9, <4>1, <4>2, <4>3, <4>4
    <3>11. \A m \in (first - 1)..LastMonth : m > 0 => v[m] = Replay(first, start)[m]
      <4> SUFFICES ASSUME NEW m \in (first - 1)..LastMonth, m > 0 PROVE m \in Months /\ ~(m < last)
        BY <3>7, <3>8
      <4> QED BY <3>3, <3>5, MonthsAssumption DEF Months
    <3>12. first # g /\ g <= first /\ first - 1 < t
      BY <2>3, <3>3, <3>5 DEF Months
    <3> QED BY <2>4, <3>6, <3>10, <3>11, <3>12
  <2> QED BY <2>5, <2>6
<1> QED BY <1>1, <1>2, <1>3

\* A closed month leaves what follows from the months before it.
LEMMA ClosedFollows ==
  ASSUME TypeOK, \A m \in Months : AgreesWithFacts(m), NEW t \in Months, NEW v,
         Follows(v, t), NEW m \in Months, m < t, ~NothingBefore(m + 1),
         row[m] # NoRow, row[m].status = "CLOSED"
  PROVE  v[m].base = row[m].base /\ v[m].carry = row[m].remaining
<1> DEFINE Bad == {k \in Months : /\ k < t /\ ~NothingBefore(k + 1)
                                  /\ row[k] # NoRow /\ row[k].status = "CLOSED"
                                  /\ v[k].carry # row[k].remaining}
<1>1. v[m].base = row[m].base
  BY DEF Follows
<1> SUFFICES ASSUME m \in Bad PROVE FALSE
  BY <1>1
<1>2. PICK k \in Bad : \A i \in Bad : k <= i
  <2>1. Bad \subseteq Nat /\ Bad # {}
    BY DEF Months
  <2> HIDE DEF Bad
  <2> QED BY <2>1, Least
<1>3. /\ k \in Months /\ k < t /\ ~NothingBefore(k + 1)
      /\ row[k] # NoRow /\ row[k].status = "CLOSED" /\ v[k].carry # row[k].remaining
  OBVIOUS
<1>4. /\ v[k].base = row[k].base
      /\ v[k].carry = row[k].base + Income(k) - Expense(k)
                        + IF NothingBefore(k) THEN 0 ELSE v[k - 1].carry
  BY <1>3 DEF Follows
<1>5. /\ NothingBefore(k) => row[k].carry = 0
      /\ ~NothingBefore(k) => /\ row[k - 1] # NoRow /\ row[k - 1].status = "CLOSED"
                              /\ row[k].carry = row[k - 1].remaining
      /\ row[k].remaining = row[k].base + Income(k) - Expense(k) + row[k].carry
  BY <1>3, AgreesFields
<1>6. CASE NothingBefore(k)
  BY <1>3, <1>4, <1>5, <1>6
<1>7. CASE ~NothingBefore(k)
  <2>1. PICK d \in Months : d = k - 1 /\ d < t /\ d + 1 = k /\ ~(k <= d)
    <3>1. k - 1 \in Months
      BY <1>7, OriginHasBelow
    <3>2. k - 1 < t /\ (k - 1) + 1 = k /\ ~(k <= k - 1)
      BY <1>3 DEF Months
    <3> QED BY <3>1, <3>2
  <2>2. d \notin Bad
    BY <1>2, <2>1
  <2>3. v[d].carry = row[d].remaining
    BY <1>5, <1>7, <2>1, <2>2
  <2> QED BY <1>3, <1>4, <1>5, <1>7, <2>1, <2>3
<1> QED BY <1>6, <1>7

\* What follows from the row below is what is foretold.
LEMMA ForetoldFromBelow ==
  ASSUME TypeOK, \A m \in Months : AgreesWithFacts(m), NEW t \in Months, NEW p,
         Foretold(p, t), row[t] = NoRow, NEW r, KnowsPrevious(t, r)
  PROVE  CarryFrom(r) = p
<1>1. PICK v : Follows(v, t) /\ p = IF NothingBefore(t) THEN 0 ELSE v[t - 1].carry
  BY DEF Foretold
<1>2. CASE NothingBefore(t)
  BY <1>1, <1>2 DEF KnowsPrevious, CarryFrom
<1>3. CASE ~NothingBefore(t)
  <2>1. PICK d \in Months : d = t - 1 /\ d < t /\ d + 1 = t
    <3>1. t - 1 \in Months
      BY <1>3, OriginHasBelow
    <3>2. t - 1 < t /\ (t - 1) + 1 = t
      BY DEF Months
    <3> QED BY <3>1, <3>2
  <2>2. row[d] # NoRow /\ row[d].status = "CLOSED" /\ r = row[d]
    BY <1>3, <2>1 DEF KnowsPrevious
  <2>3. v[d].carry = row[d].remaining
    BY <1>1, <1>3, <2>1, <2>2, ClosedFollows
  <2> QED BY <1>1, <1>3, <2>1, <2>2, <2>3 DEF CarryFrom
<1> QED BY <1>2, <1>3

\* What follows stays so while rows keep their base and a month that gets one
\* takes the base it was to be opened with.
LEMMA FollowsStays ==
  ASSUME ops' = ops, fixed' = fixed, NEW t, NEW v, Follows(v, t),
         \A m \in Months : m < t /\ ~NothingBefore(m + 1) =>
           \/ row'[m] = row[m]
           \/ row'[m] # NoRow /\ row'[m].base = v[m].base
  PROVE  Follows(v, t)'
<1> SUFFICES ASSUME NEW m \in Months, m < t, ~NothingBefore(m + 1)'
             PROVE  /\ v[m].base = IF row'[m] # NoRow THEN row'[m].base
                                   ELSE IF NothingBefore(m)' \/ m \in PlannedMonths THEN fixed'[m]
                                   ELSE v[m - 1].base
                    /\ v[m].carry = v[m].base + Income(m)' - Expense(m)'
                                      + IF NothingBefore(m)' THEN 0 ELSE v[m - 1].carry
  BY DEF Follows
<1>1. /\ Income(m)' = Income(m) /\ Expense(m)' = Expense(m)
      /\ NothingBefore(m)' <=> NothingBefore(m)
      /\ NothingBefore(m + 1)' <=> NothingBefore(m + 1)
  BY SameFacts
<1>2. /\ v[m].base = IF row[m] # NoRow THEN row[m].base
                     ELSE IF NothingBefore(m) \/ m \in PlannedMonths THEN fixed[m]
                     ELSE v[m - 1].base
      /\ v[m].carry = v[m].base + Income(m) - Expense(m)
                        + IF NothingBefore(m) THEN 0 ELSE v[m - 1].carry
  BY <1>1 DEF Follows
<1> QED BY <1>1, <1>2

\* What is foretold of a month stays so, whether its row stays, or is missing
\* and stays missing while what follows stays.
LEMMA ForetoldStays ==
  ASSUME ops' = ops, fixed' = fixed, NEW t, NEW p, Foretold(p, t),
         \/ /\ row[t] # NoRow /\ row'[t] # NoRow /\ row'[t].carry = row[t].carry
         \/ /\ row[t] = NoRow /\ row'[t] # NoRow /\ row'[t].carry = p
         \/ /\ row[t] = NoRow /\ row'[t] = NoRow
            /\ \A v : Follows(v, t) => Follows(v, t)'
  PROVE  Foretold(p, t)'
<1>1. CASE row'[t] # NoRow
  BY <1>1 DEF Foretold
<1>2. CASE row'[t] = NoRow
  <2>1. PICK v : Follows(v, t) /\ p = IF NothingBefore(t) THEN 0 ELSE v[t - 1].carry
    BY <1>2 DEF Foretold
  <2>2. Follows(v, t)' /\ (NothingBefore(t)' <=> NothingBefore(t))
    BY <1>2, <2>1, SameFacts
  <2> QED BY <1>2, <2>1, <2>2 DEF Foretold
<1> QED BY <1>1, <1>2

\* It stays so when nothing it rests on changes.
LEMMA ForetoldUnchanged ==
  ASSUME UNCHANGED <<ops, row, fixed>>, NEW t, NEW p, Foretold(p, t)
  PROVE  Foretold(p, t)'
<1>1. \A v : Follows(v, t) => Follows(v, t)'
  BY FollowsStays
<1> QED BY <1>1, ForetoldStays

\* A summary of the current month walks below the months it has found missing.
OnTheWay(w) ==
  /\ pc[w] \in Resolving \cup {"origin"}
  /\ kind[w] = "summarize" /\ today[w] = top[w]
  /\ \A m \in Months : cursor[w] < m /\ m <= top[w] => row[m] = NoRow
  /\ pc[w] \in {"origin", "open"} => row[cursor[w]] = NoRow

\* Its calls keep what is foretold of the month: a month below is opened with
\* the base foretold, and the month itself with the carry.
LEMMA WalkForetold ==
  ASSUME IInv, NEW w \in Workers, WalkKnows(w), OnTheWay(w), WalkCall(w),
         \A m \in Months : AgreesWithFacts(m), NEW t, t = top[w], NEW p, Foretold(p, t)
  PROVE  Foretold(p, t)'
<1>1. /\ TypeOK /\ RequestsTyped /\ RequestInTime(w) /\ RequestOnPath(w)
      /\ ClosingIsExclusive /\ NoRow \notin Row
      /\ row \in [Months -> Row \cup {NoRow}] /\ ops' = ops /\ fixed' = fixed
  BY SentinelAssumption
  DEF IInv, TypeOK, RequestsTyped, WalkCall, FindPeriod, RefreshSnapshot, FirstActivity,
      OpenPeriod, CloseRead, CloseWrite, db
<1>2. PICK c \in Months : c = cursor[w]
  BY <1>1 DEF RequestsTyped
<1>3. t \in Months /\ c <= t
  BY <1>1, <1>2 DEF RequestsTyped, RequestInTime, OnTheWay, Walking
<1>4. CASE UNCHANGED row
  BY <1>1, <1>4, ForetoldUnchanged
<1>5. ASSUME row[c] # NoRow, row'[c] # NoRow, row'[c].carry = row[c].carry,
             row'[c].base = row[c].base \/ c = t,
             \A m \in Months : m # c => row'[m] = row[m]
      PROVE  Foretold(p, t)'
  <2>1. ASSUME NEW v, Follows(v, t) PROVE Follows(v, t)'
    <3>1. ASSUME NEW m \in Months, m < t, ~NothingBefore(m + 1), row'[m] # row[m]
          PROVE  row'[m] # NoRow /\ row'[m].base = v[m].base
      <4>1. m = c /\ c # t
        BY <1>3, <1>5, <3>1 DEF Months
      <4>2. v[m].base = row[m].base
        BY <1>5, <2>1, <3>1, <4>1 DEF Follows
      <4> QED BY <1>5, <4>1, <4>2
    <3> QED BY <1>1, <2>1, <3>1, FollowsStays
  <2>2. CASE c = t
    BY <1>1, <1>5, <2>2, ForetoldStays
  <2>3. CASE c # t
    <3>1. row'[t] = row[t]
      BY <1>3, <1>5, <2>3
    <3> QED BY <1>1, <2>1, <3>1, ForetoldStays
  <2> QED BY <2>2, <2>3
<1>6. CASE RefreshSnapshot(w) /\ row' # row
  <2>1. /\ row[c] \in Row /\ pc[w] = "refresh"
        /\ row' = [row EXCEPT ![c] = [row[c] EXCEPT !.base = held[w].base,
                                                    !.revision = row[c].revision + 1]]
    BY <1>1, <1>2, <1>6 DEF RefreshSnapshot, RequestOnPath
  <2>2. /\ row'[c] = [row[c] EXCEPT !.base = held[w].base, !.revision = row[c].revision + 1]
        /\ \A m \in Months : m # c => row'[m] = row[m]
    BY <1>1, <2>1
  <2>3. c = t
    BY <1>2, <2>1 DEF WalkKnows, OnTheWay
  <2>4. row'[c].carry = row[c].carry /\ row'[c] # NoRow
    <3>1. Evolves(c)
      BY <1>2, <1>6, TouchedRow
    <3>2. row'[c].carry = row[c].carry
      BY <2>1, <2>2 DEF Row
    <3> QED BY <1>1, <2>1, <3>1, <3>2 DEF Evolves
  <2> QED BY <1>1, <1>5, <2>1, <2>2, <2>3, <2>4
<1>7. CASE CloseWrite(w)
  <2>1. /\ row[c] \in Row /\ row'[c] \in Row
        /\ row'[c].base = row[c].base /\ row'[c].carry = row[c].carry
        /\ \A m \in Months : m # c => row'[m] = row[m]
    BY <1>2, <1>7, ClosedRow
  <2> QED BY <1>1, <1>5, <2>1
<1>8. CASE OpenPeriod(w) /\ row' # row
  <2>1. PICK r : r = OpenRow(OpeningBase(w), CarryFrom(prev[w]))
    OBVIOUS
  <2>2. /\ pc[w] = "open" /\ row[c] = NoRow /\ row' = [row EXCEPT ![c] = r]
    BY <1>1, <1>2, <1>8, <2>1 DEF OpenPeriod, OnTheWay
  <2>3. row'[c] = r /\ \A m \in Months : m # c => row'[m] = row[m]
    BY <1>1, <2>2
  <2>4. r \in Row /\ r.base = OpeningBase(w) /\ r.carry = CarryFrom(prev[w])
    <3>1. CarryFrom(prev[w]) \in Int /\ OpeningBase(w) \in Int
      BY <1>1, <1>2 DEF CarryFrom, OpeningBase, TypeOK, Row
    <3> QED BY <2>1, <3>1, OpenRowType DEF OpenRow
  <2>5. PICK b : b = prev[w] /\ KnowsPrevious(c, b)
    BY <1>2, <2>2 DEF WalkKnows
  <2>6. CASE c = t
    <3>1. r.carry = p
      BY <1>1, <1>3, <2>2, <2>4, <2>5, <2>6, ForetoldFromBelow
    <3> QED BY <1>1, <2>2, <2>3, <2>4, <2>6, <3>1, ForetoldStays
  <2>7. CASE c # t
    <3>1. c < t /\ c < today[w]
      BY <1>3, <2>7 DEF OnTheWay, Months
    <3>2. ASSUME NEW v, Follows(v, t), ~NothingBefore(c + 1) PROVE r.base = v[c].base
      <4>1. v[c].base = IF NothingBefore(c) \/ c \in PlannedMonths THEN fixed[c]
                        ELSE v[c - 1].base
        BY <2>2, <3>1, <3>2 DEF Follows
      <4>2. r.base = IF b # NoRow /\ c \notin PlannedMonths THEN b.base ELSE fixed[c]
        BY <1>2, <2>4, <2>5, <3>1 DEF OpeningBase
      <4>3. CASE NothingBefore(c)
        BY <2>5, <4>1, <4>2, <4>3 DEF KnowsPrevious
      <4>4. CASE ~NothingBefore(c)
        <5>1. PICK d \in Months : d = c - 1 /\ d < t /\ d + 1 = c
          <6>1. c - 1 \in Months
            BY <1>1, <4>4, OriginHasBelow
          <6>2. c - 1 < t /\ (c - 1) + 1 = c
            BY <1>3, <3>1 DEF Months
          <6> QED BY <6>1, <6>2
        <5>2. b = row[d] /\ row[d] # NoRow
          BY <2>5, <4>4, <5>1 DEF KnowsPrevious
        <5>3. v[d].base = row[d].base
          BY <3>2, <4>4, <5>1, <5>2 DEF Follows
        <5> QED BY <4>1, <4>2, <4>4, <5>1, <5>2, <5>3
      <4> QED BY <4>3, <4>4
    <3>3. ASSUME NEW v, Follows(v, t) PROVE Follows(v, t)'
      <4>1. ASSUME NEW m \in Months, m < t, ~NothingBefore(m + 1), row'[m] # row[m]
            PROVE  row'[m] # NoRow /\ row'[m].base = v[m].base
        <5>1. m = c
          BY <2>3, <4>1
        <5> QED BY <1>1, <2>3, <2>4, <3>2, <3>3, <4>1, <5>1
      <4> QED BY <1>1, <3>3, <4>1, FollowsStays
    <3>4. row'[t] = row[t]
      BY <1>3, <2>3, <2>7
    <3>5. row[t] = NoRow
      BY <1>2, <1>3, <3>1 DEF OnTheWay, Months
    <3> QED BY <1>1, <3>3, <3>4, <3>5, ForetoldStays
  <2> QED BY <2>6, <2>7
<1>9. CASE FindPeriod(w) \/ FirstActivity(w) \/ CloseRead(w)
  BY <1>4, <1>9 DEF FindPeriod, FirstActivity, CloseRead, db
<1> QED BY <1>4, <1>6, <1>7, <1>8, <1>9 DEF WalkCall

\* A summary that has resolved the month under its cursor is answered, when that
\* is the month asked for, or closes it or steps up to the missing month above.
LEMMA ResolvedOnTheWay ==
  ASSUME IInv, NEW w \in Workers, OnTheWay(w), pc[w] \in Resolving,
         NEW r, row'[cursor[w]] = r, r # NoRow,
         \A m \in Months : m # cursor[w] => row'[m] = row[m],
         Resolved(w, r) \/ Closed(w, r)
  PROVE  \/ pc'[w] = "idle" /\ row'[top[w]] # NoRow
         \/ OnTheWay(w)' /\ top'[w] = top[w]
<1>1. RequestsTyped /\ RequestInTime(w)
  BY DEF IInv, TypeOK, RequestsTyped
<1>2. PICK c \in Months, t \in Months : c = cursor[w] /\ t = top[w]
  BY <1>1 DEF RequestsTyped
<1>3. /\ c <= t /\ kind[w] = "summarize" /\ today[w] = t
      /\ \A m \in Months : c < m /\ m <= t => row'[m] = NoRow
  BY <1>1, <1>2 DEF RequestInTime, OnTheWay, Walking, Months
<1>4. CASE Done(w) /\ c = t
  BY <1>1, <1>2, <1>4 DEF Done, Goto, RequestsTyped
<1>5. CASE Goto(w, "closeRead") /\ UNCHANGED <<request, cursor, prev, held, tries>>
  <2>1. /\ pc'[w] = "closeRead" /\ cursor'[w] = c /\ top'[w] = t
        /\ kind'[w] = "summarize" /\ today'[w] = t
    BY <1>1, <1>2, <1>3, <1>5 DEF Goto, RequestsTyped, request
  <2> QED BY <1>2, <1>3, <2>1 DEF OnTheWay, Resolving
<1>6. CASE HavePrevious(w, cursor[w], r) /\ c # t
  <2>1. PICK d \in Months : d = c + 1 /\ d <= t /\ c < d /\ \A m \in Months : d < m => c < m
    <3>1. c + 1 \in Months /\ c + 1 <= t /\ c < c + 1 /\ \A m \in Months : c + 1 < m => c < m
      BY <1>3, <1>6, MonthsAssumption DEF Months
    <3> QED BY <3>1
  <2>2. /\ pc'[w] = "open" /\ cursor'[w] = d /\ top'[w] = t
        /\ kind'[w] = "summarize" /\ today'[w] = t
    BY <1>1, <1>2, <1>3, <1>6, <2>1 DEF HavePrevious, Goto, RequestsTyped, request
  <2>3. row'[d] = NoRow /\ \A m \in Months : d < m /\ m <= t => row'[m] = NoRow
    BY <1>3, <2>1
  <2> QED BY <1>2, <2>2, <2>3 DEF OnTheWay, Resolving
<1> QED BY <1>2, <1>3, <1>4, <1>5, <1>6 DEF Resolved, Closed

\* A call of a summary of the current month leaves it on its way, or answers it
\* when its month has a row.
LEMMA WalkOnTheWay ==
  ASSUME IInv, NEW w \in Workers, WalkKnows(w), OnTheWay(w), WalkCall(w)
  PROVE  \/ pc'[w] = "idle" /\ row'[top[w]] # NoRow
         \/ OnTheWay(w)' /\ top'[w] = top[w]
<1>1. /\ TypeOK /\ RequestsTyped /\ RequestInTime(w) /\ RequestOnPath(w)
      /\ ClosingIsExclusive /\ NoRow \notin Row
      /\ row \in [Months -> Row \cup {NoRow}]
  BY SentinelAssumption DEF IInv, TypeOK, RequestsTyped
<1>2. PICK c \in Months, t \in Months : c = cursor[w] /\ t = top[w]
  BY <1>1 DEF RequestsTyped
<1>3. /\ c <= t /\ kind[w] = "summarize" /\ today[w] = t
      /\ \A m \in Months : c < m /\ m <= t => row[m] = NoRow
  BY <1>1, <1>2 DEF RequestInTime, OnTheWay, Walking
<1>4. ASSUME NEW r, row'[c] = r, r # NoRow, pc[w] \in Resolving,
             \A m \in Months : m # c => row'[m] = row[m],
             Resolved(w, r) \/ Closed(w, r)
      PROVE  \/ pc'[w] = "idle" /\ row'[top[w]] # NoRow
             \/ OnTheWay(w)' /\ top'[w] = top[w]
  BY <1>2, <1>4, ResolvedOnTheWay
<1>5. ASSUME UNCHANGED <<row, request, cursor>>, NEW call \in Resolving \cup {"origin"},
             Goto(w, call), call \in {"origin", "open"} => row[c] = NoRow
      PROVE  OnTheWay(w)' /\ top'[w] = top[w]
  <2>1. /\ pc'[w] = call /\ cursor'[w] = c /\ top'[w] = t
        /\ kind'[w] = "summarize" /\ today'[w] = t
    BY <1>1, <1>2, <1>3, <1>5 DEF Goto, RequestsTyped, request
  <2> QED BY <1>2, <1>3, <1>5, <2>1 DEF OnTheWay
<1>6. CASE FindPeriod(w)
  <2>1. UNCHANGED row /\ pc[w] = "find"
    BY <1>6 DEF FindPeriod, db
  <2>2. CASE row[c] = NoRow
    BY <1>2, <1>5, <1>6, <2>1, <2>2 DEF FindPeriod, Resolving
  <2>3. CASE row[c] # NoRow /\ Goto(w, "refresh") /\ UNCHANGED <<request, cursor>>
    BY <1>5, <2>1, <2>3 DEF Resolving
  <2>4. CASE row[c] # NoRow /\ Resolved(w, row[c])
    BY <1>4, <2>1, <2>4 DEF Resolving
  <2> QED BY <1>2, <1>6, <2>2, <2>3, <2>4 DEF FindPeriod
<1>7. CASE RefreshSnapshot(w)
  <2>1. row[c] \in Row /\ pc[w] = "refresh" /\ c = t
    BY <1>1, <1>2, <1>3, <1>7 DEF RefreshSnapshot, RequestOnPath, WalkKnows
  <2>2. CASE Fail(w) /\ UNCHANGED row
    BY <1>1, <1>2, <2>1, <2>2 DEF Fail, Done, Goto, RequestsTyped
  <2>3. CASE ~(Fail(w) /\ UNCHANGED row)
    <3>1. PICK r : /\ r = [row[c] EXCEPT !.base = held[w].base, !.revision = row[c].revision + 1]
                   /\ row' = [row EXCEPT ![c] = r] /\ Resolved(w, r)
      BY <1>2, <1>7, <2>3 DEF RefreshSnapshot
    <3>2. row'[c] = r /\ \A m \in Months : m # c => row'[m] = row[m]
      BY <1>1, <3>1
    <3>3. r # NoRow
      <4>1. Evolves(c)
        BY <1>2, <1>7, TouchedRow
      <4> QED BY <1>1, <2>1, <3>2, <4>1 DEF Evolves
    <3> QED BY <1>4, <2>1, <3>1, <3>2, <3>3 DEF Resolving
  <2> QED BY <2>2, <2>3
<1>8. CASE FirstActivity(w)
  <2>1. UNCHANGED row /\ pc[w] = "origin" /\ row[c] = NoRow
    BY <1>2, <1>8 DEF FirstActivity, OnTheWay, db
  <2>2. CASE NothingBefore(c)
    BY <1>2, <1>3, <1>5, <1>8, <2>1, <2>2 DEF FirstActivity, Resolving
  <2>3. CASE ~NothingBefore(c)
    <3>1. PICK d \in Months : d = c - 1 /\ \A m \in Months : d < m => m = c \/ c < m
      <4>1. c - 1 \in Months
        BY <1>1, <2>3, OriginHasBelow
      <4>2. \A m \in Months : c - 1 < m => m = c \/ c < m
        BY DEF Months
      <4> QED BY <4>1, <4>2
    <3>2. /\ pc'[w] = "find" /\ cursor'[w] = d /\ top'[w] = t
          /\ kind'[w] = "summarize" /\ today'[w] = t
      BY <1>1, <1>2, <1>3, <1>8, <2>3, <3>1 DEF FirstActivity, Goto, RequestsTyped, request
    <3> QED BY <1>2, <1>3, <2>1, <3>1, <3>2 DEF OnTheWay, Resolving
  <2> QED BY <2>2, <2>3
<1>9. CASE OpenPeriod(w)
  <2>1. PICK r : r = OpenRow(OpeningBase(w), CarryFrom(prev[w]))
    OBVIOUS
  <2>2. pc[w] = "open" /\ row' = [row EXCEPT ![c] = r] /\ Resolved(w, r)
    BY <1>2, <1>9, <2>1 DEF OpenPeriod, OnTheWay
  <2>3. r \in Row
    <3>1. CarryFrom(prev[w]) \in Int /\ OpeningBase(w) \in Int
      BY <1>1, <1>2 DEF CarryFrom, OpeningBase, TypeOK, Row
    <3> QED BY <2>1, <3>1, OpenRowType
  <2>4. row'[c] = r /\ \A m \in Months : m # c => row'[m] = row[m]
    BY <1>1, <2>2
  <2> QED BY <1>1, <1>4, <2>2, <2>3, <2>4 DEF Resolving
<1>10. CASE CloseRead(w)
  <2>1. UNCHANGED row /\ pc[w] = "closeRead" /\ row[c] \in Row
    BY <1>1, <1>2, <1>10 DEF CloseRead, RequestOnPath
  <2>2. CASE Closed(w, row[c])
    BY <1>1, <1>4, <2>1, <2>2 DEF Resolving
  <2>3. CASE Goto(w, "closeWrite") /\ UNCHANGED <<request, cursor>>
    BY <1>5, <2>1, <2>3 DEF Resolving
  <2> QED BY <1>2, <1>10, <2>2, <2>3 DEF CloseRead
<1>11. CASE CloseWrite(w)
  <2>1. PICK r : r = row'[c]
    OBVIOUS
  <2>2. /\ r # NoRow /\ pc[w] = "closeWrite"
        /\ \A m \in Months : m # c => row'[m] = row[m]
    <3>1. row'[c] \in Row /\ \A m \in Months : m # c => row'[m] = row[m]
      BY <1>2, <1>11, ClosedRow
    <3> QED BY <1>1, <1>11, <2>1, <3>1 DEF CloseWrite
  <2>3. Closed(w, r)
    BY <1>1, <1>2, <1>11, <2>1 DEF CloseWrite
  <2> QED BY <1>4, <2>1, <2>2, <2>3 DEF Resolving
<1> QED BY <1>6, <1>7, <1>8, <1>9, <1>10, <1>11 DEF WalkCall

\* What a summary noted at its start is what is foretold of its month, unless a
\* request died before.
NoteKept(w) ==
  preview[w] # {} =>
    /\ OnTheWay(w)
    /\ ~excused => \E t \in Months : \E p : /\ t = top[w] /\ preview[w] = {p}
                                            /\ Foretold(p, t)

\* What holds at every step of a single request and of the forecast it is
\* compared with.
PreviewInv(w) == SequentialInv(w) /\ DOMAIN preview = Workers /\ NoteKept(w)

\* Nothing is excused that has not been, and what was stays excused.
LEMMA StaysExcused ==
  ASSUME Next, excused
  PROVE  excused'
<1>1. ASSUME NEW w \in Workers, Start(w) PROVE excused'
  BY <1>1, Zenon DEF Start, Create, ReadBefore, CheckPeriodOpen, Summarize
<1>2. ASSUME NEW w \in Workers, Continue(w) PROVE excused'
  BY <1>2, ZenonT(30)
     DEF Continue, CommitUpdate, CommitDelete, CommitNotFound, InsertRealized, Correct,
         ListFrom, ComputePeriod, WritePeriod, WriteConflict, FindPeriod, RefreshSnapshot,
         FirstActivity, OpenPeriod, CloseRead, CloseWrite, Fail
<1> QED BY <1>1, <1>2, Zenon DEF Next, Crash, Rollover, ChangeFixed

\* A step of a summary under way is a call of its walk.
LEMMA OnTheWayCalls ==
  ASSUME NEW w \in Workers, OnTheWay(w), Start(w) \/ Continue(w)
  PROVE  WalkCall(w)
BY DEF OnTheWay, Resolving, Start, Continue, Create, ReadBefore, CheckPeriodOpen, Summarize,
       Begin, CommitUpdate, CommitDelete, CommitNotFound, InsertRealized, Correct, ListFrom,
       ComputePeriod, WritePeriod, WriteConflict, WalkCall

\* Alone, a summary whose note is kept still finds it right after a step, and is
\* answered with the carry it noted.
LEMMA NoteStep ==
  ASSUME NEW w, Workers = {w}, PreviewInv(w), IInv', Next, preview[w] # {}, fixed' = fixed
  PROVE  /\ pc'[w] # "idle" => OnTheWay(w)'
         /\ ~excused' =>
              \E t \in Months : \E p :
                /\ t = top[w] /\ preview[w] = {p} /\ Foretold(p, t)'
                /\ pc'[w] # "idle" => top'[w] = t
                /\ pc'[w] = "idle" => row'[t] # NoRow
<1>1. /\ IInv /\ WalkKnows(w) /\ OnTheWay(w) /\ TypeOK /\ RequestsTyped
      /\ ~excused => \A m \in Months : AgreesWithFacts(m)
  BY DEF PreviewInv, NoteKept, SequentialInv, AgreesSoFar, Correcting, OnTheWay, Resolving,
         IInv, TypeOK, RequestsTyped
<1>2. ~excused' => ~excused
  BY StaysExcused
<1>3. ~excused => \E t \in Months : \E p : t = top[w] /\ preview[w] = {p} /\ Foretold(p, t)
  BY DEF PreviewInv, NoteKept
<1>4. CASE Crash(w)
  <2>1. pc'[w] = "idle" /\ excused'
    BY <1>1, <1>4 DEF Crash, Done, Goto, RequestsTyped
  <2> QED BY <2>1
<1>5. CASE WalkCall(w)
  <2>1. \/ pc'[w] = "idle" /\ row'[top[w]] # NoRow
        \/ OnTheWay(w)' /\ top'[w] = top[w]
    BY <1>1, <1>5, WalkOnTheWay
  <2>2. ASSUME ~excused'
        PROVE  \E t \in Months : \E p : t = top[w] /\ preview[w] = {p} /\ Foretold(p, t)'
    <3>1. PICK t \in Months : \E p : t = top[w] /\ preview[w] = {p} /\ Foretold(p, t)
      BY <1>2, <1>3, <2>2
    <3>2. PICK p : t = top[w] /\ preview[w] = {p} /\ Foretold(p, t)
      BY <3>1
    <3>3. Foretold(p, t)'
      BY <1>1, <1>2, <1>5, <2>2, <3>2, WalkForetold
    <3> QED BY <3>2, <3>3
  <2>3. pc'[w] = "idle" => ~OnTheWay(w)'
    BY DEF OnTheWay, Resolving
  <2> QED BY <2>1, <2>2, <2>3
<1>6. CASE Rollover \/ ChangeFixed
  <2>1. /\ UNCHANGED <<ops, row, fixed, pc, request, cursor, excused>>
    BY <1>6 DEF Rollover, ChangeFixed
  <2>2. OnTheWay(w)' /\ top'[w] = top[w] /\ pc'[w] # "idle"
    BY <1>1, <2>1 DEF OnTheWay, Resolving, request
  <2>3. ASSUME ~excused'
        PROVE  \E t \in Months : \E p : t = top[w] /\ preview[w] = {p} /\ Foretold(p, t)'
    <3>1. PICK t \in Months : \E p : t = top[w] /\ preview[w] = {p} /\ Foretold(p, t)
      BY <1>2, <1>3, <2>3
    <3>2. PICK p : t = top[w] /\ preview[w] = {p} /\ Foretold(p, t)
      BY <3>1
    <3>3. Foretold(p, t)'
      BY <2>1, <3>2, ForetoldUnchanged
    <3> QED BY <3>2, <3>3
  <2> QED BY <2>2, <2>3
<1> QED BY <1>1, <1>4, <1>5, <1>6, OnTheWayCalls DEF Next

\* A summary of the current month notes what is foretold of it.
LEMMA NoteTaken ==
  ASSUME NEW w, Workers = {w}, PreviewInv(w), StartSummary(w)
  PROVE  NoteKept(w)'
<1>1. /\ IInv /\ TypeOK /\ RequestsTyped /\ now \in Months /\ DOMAIN preview = Workers
      /\ pc[w] = "idle" /\ UNCHANGED <<now, ops, row, fixed, excused>>
  BY DEF PreviewInv, SequentialInv, IInv, TypeOK, RequestsTyped, StartSummary, Summarize,
         Begin, db
<1>2. ~excused => \A m \in Months : AgreesWithFacts(m)
  BY <1>1 DEF PreviewInv, SequentialInv, AgreesSoFar, Correcting, Walking, Resolving
<1>3. PICK t \in Months : /\ top'[w] = t /\ cursor'[w] = t /\ pc'[w] = "find"
                          /\ kind'[w] = "summarize" /\ today'[w] = now
  BY <1>1 DEF StartSummary, Summarize, Begin, Goto, RequestsTyped
<1>4. preview'[w] = IF t = now THEN {CurrentCarry(now)} ELSE {}
  BY <1>1, <1>3 DEF StartSummary
<1>5. CASE t = now
  <2>1. OnTheWay(w)'
    BY <1>3, <1>5 DEF OnTheWay, Resolving, Months
  <2>2. PICK p : p = CurrentCarry(t)
    OBVIOUS
  <2>3. ~excused => Foretold(p, t)'
    BY <1>1, <1>2, <2>2, ForecastForetells, ForetoldUnchanged
  <2>4. preview'[w] = {p}
    BY <1>4, <1>5, <2>2
  <2> QED BY <1>1, <1>3, <2>1, <2>3, <2>4 DEF NoteKept
<1>6. CASE t # now
  BY <1>4, <1>6 DEF NoteKept
<1> QED BY <1>5, <1>6

\* Every step keeps the note right, or drops it.
LEMMA PreviewStep ==
  ASSUME NEW w, Workers = {w}
  PROVE  PreviewInv(w) /\ [PreviewNext]_previewVars => PreviewInv(w)'
<1> SUFFICES ASSUME PreviewInv(w), [PreviewNext]_previewVars PROVE PreviewInv(w)'
  OBVIOUS
<1>1. SequentialInv(w) /\ DOMAIN preview = Workers /\ NoteKept(w)
  BY DEF PreviewInv
<1>2. CASE UNCHANGED previewVars
  <2>1. UNCHANGED vars /\ preview' = preview
    BY <1>2 DEF previewVars
  <2>2. SequentialInv(w)'
    BY <1>1, <2>1, SequentialNext
  <2>3. UNCHANGED <<ops, row, fixed, pc, request, cursor, excused>>
    BY <2>1 DEF vars, request
  <2>4. ASSUME preview'[w] # {}
        PROVE  OnTheWay(w)'
    BY <1>1, <2>1, <2>3, <2>4 DEF NoteKept, OnTheWay, request
  <2>5. ASSUME preview'[w] # {}, ~excused'
        PROVE  \E t \in Months : \E p : t = top'[w] /\ preview'[w] = {p} /\ Foretold(p, t)'
    <3>1. PICK t \in Months : \E p : t = top[w] /\ preview[w] = {p} /\ Foretold(p, t)
      BY <1>1, <2>1, <2>3, <2>5 DEF NoteKept
    <3>2. PICK p : t = top[w] /\ preview[w] = {p} /\ Foretold(p, t)
      BY <3>1
    <3>3. Foretold(p, t)'
      BY <2>3, <3>2, ForetoldUnchanged
    <3> QED BY <2>1, <2>3, <3>2, <3>3 DEF request
  <2> QED BY <1>1, <2>1, <2>2, <2>4, <2>5 DEF PreviewInv, NoteKept
<1>3. CASE StartSummary(w)
  <2>1. Next
    BY <1>3 DEF StartSummary, Next, Start
  <2>2. SequentialInv(w)'
    BY <1>1, <2>1, SequentialNext
  <2>3. DOMAIN preview' = Workers
    BY <1>1, <1>3 DEF StartSummary
  <2> QED BY <1>3, <2>2, <2>3, NoteTaken DEF PreviewInv
<1>4. CASE /\ Next
           /\ preview' = [v \in Workers |->
                            IF fixed' # fixed \/ pc'[v] = "idle" THEN {} ELSE preview[v]]
  <2>1. SequentialInv(w)' /\ IInv'
    <3>1. SequentialInv(w)'
      BY <1>1, <1>4, SequentialNext
    <3> QED BY <3>1 DEF SequentialInv
  <2>2. /\ DOMAIN preview' = Workers
        /\ preview'[w] = IF fixed' # fixed \/ pc'[w] = "idle" THEN {} ELSE preview[w]
    BY <1>4
  <2>3. CASE preview'[w] = {}
    BY <2>1, <2>2, <2>3 DEF PreviewInv, NoteKept
  <2>4. CASE preview'[w] # {}
    <3>1. fixed' = fixed /\ pc'[w] # "idle" /\ preview'[w] = preview[w]
      BY <2>2, <2>4
    <3>2. /\ OnTheWay(w)'
          /\ ~excused' => \E t \in Months : \E p :
               t = top'[w] /\ preview[w] = {p} /\ Foretold(p, t)'
      <4>1. preview[w] # {}
        BY <2>4, <3>1
      <4> QED BY <1>4, <2>1, <3>1, <4>1, NoteStep
    <3> QED BY <2>1, <2>2, <3>1, <3>2 DEF PreviewInv, NoteKept
  <2> QED BY <2>3, <2>4
<1> QED BY <1>2, <1>3, <1>4 DEF PreviewNext

\* One request at a time: the carry that the forecast replays without writing is
\* the one the summary stores, for any history of operations, fixed bases, plans
\* and months, and whenever months end during the summary.
THEOREM SequentialForecasts ==
  ASSUME NEW u, Workers = {u}
  PROVE  PreviewSpec => ForecastFollowsSummary
<1>1. PreviewInit => PreviewInv(u)
  <2> SUFFICES ASSUME PreviewInit PROVE PreviewInv(u)
    OBVIOUS
  <2>1. SequentialInv(u)
    BY InitSequential DEF PreviewInit
  <2>2. DOMAIN preview = Workers /\ preview[u] = {}
    BY DEF PreviewInit
  <2> QED BY <2>1, <2>2 DEF PreviewInv, NoteKept
<1>2. PreviewInv(u) /\ [PreviewNext]_previewVars => PreviewInv(u)'
  BY PreviewStep
<1>3. PreviewInv(u) /\ [PreviewNext]_previewVars =>
        [\A w \in Workers :
           pc[w] # "idle" /\ pc'[w] = "idle" /\ preview[w] # {} /\ ~excused' =>
             row'[top[w]] # NoRow /\ row'[top[w]].carry \in preview[w]]_previewVars
  <2> SUFFICES ASSUME PreviewInv(u), PreviewNext,
                      pc[u] # "idle", pc'[u] = "idle", preview[u] # {}, ~excused'
               PROVE  row'[top[u]] # NoRow /\ row'[top[u]].carry \in preview[u]
    BY DEF previewVars
  <2>1. Next
    <3>1. ~StartSummary(u)
      BY DEF StartSummary, Summarize, Begin
    <3> QED BY <3>1 DEF PreviewNext
  <2>2. IInv' /\ fixed' = fixed
    <3>1. IInv'
      BY <2>1, NextInv DEF PreviewInv, SequentialInv
    <3>2. ~ChangeFixed
      BY DEF ChangeFixed
    <3>3. ASSUME NEW w \in Workers, Start(w) \/ Continue(w) PROVE fixed' = fixed
      BY <3>3, CallsLeave
    <3> QED BY <2>1, <3>1, <3>2, <3>3 DEF Next, Crash, Rollover
  <2>3. PICK t \in Months : \E p : /\ t = top[u] /\ preview[u] = {p} /\ Foretold(p, t)'
                                   /\ row'[t] # NoRow
    BY <2>1, <2>2, NoteStep
  <2>4. PICK p : /\ t = top[u] /\ preview[u] = {p} /\ Foretold(p, t)'
                 /\ row'[t] # NoRow
    BY <2>3
  <2> QED BY <2>4 DEF Foretold
<1> QED BY <1>1, <1>2, <1>3, PTL DEF PreviewSpec, ForecastFollowsSummary
=============================================================================
