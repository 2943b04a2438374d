--------------------------- MODULE EnvelopesProofs ---------------------------
(***************************************************************************)
(* Proofs about Envelopes, for every number of operations, payments,       *)
(* requests, months and amounts: its variables are typed, a linked payment *)
(* matches its occurrence, what an open month reserves is active, dated    *)
(* edits leave the past alone, and the payments implement PaymentRegister. *)
(***************************************************************************)
EXTENDS Envelopes, TLAPS, WellFoundedInduction, NaturalsInduction

(* ---------------------------------------------------------------------- *)
(* Definitions and versions                                                *)

\* Merging the fields a form names into a definition gives a definition.
LEMMA MergeType ==
  ASSUME NEW d \in Definition, NEW change \in Change
  PROVE  Merge(d, change) \in Definition
<1>1. DOMAIN d = {"amount", "currency", "monthly", "envelope", "from", "until", "archived"}
  BY DEF Definition
<1>2. Merge(d, change) =
        [amount |-> Merge(d, change).amount, currency |-> Merge(d, change).currency,
         monthly |-> Merge(d, change).monthly, envelope |-> Merge(d, change).envelope,
         from |-> Merge(d, change).from, until |-> Merge(d, change).until,
         archived |-> Merge(d, change).archived]
  BY <1>1 DEF Merge
<1>3. /\ Merge(d, change).amount \in Amounts
      /\ Merge(d, change).currency \in Currencies
      /\ Merge(d, change).monthly \in BOOLEAN
      /\ Merge(d, change).envelope \in BOOLEAN
      /\ Merge(d, change).from \in Months
      /\ Merge(d, change).until \in Months \union {Forever}
      /\ Merge(d, change).archived \in BOOLEAN
  BY <1>1 DEF Merge, Definition, Change
<1> QED BY <1>2, <1>3 DEF Definition

\* A nonempty set of months and the origin has a latest member.
LEMMA LatestExists ==
  ASSUME NEW S \in SUBSET (Months \union {Origin}), S # {}
  PROVE  \E k \in S : \A j \in S : j <= k
<1>1. LastMonth \in Nat BY EnvelopeAssumption
<1> DEFINE Gap == {LastMonth - k : k \in S}
<1>2. Gap \subseteq Nat /\ Gap # {}
  BY <1>1 DEF Months, Origin
<1> DEFINE Before == OpToRel(<, Nat)
<1>3. IsWellFoundedOn(Before, Nat) BY NatLessThanWellFounded
<1>4. \A x, y \in Nat : <<x, y>> \in Before <=> x < y BY DEF OpToRel
<1> HIDE DEF Before
<1>5. PICK g \in Gap : \A h \in Gap : <<h, g>> \notin Before
  <2> HIDE DEF Gap
  <2> QED BY <1>2, <1>3, WFMin
<1>6. PICK k \in S : g = LastMonth - k BY <1>5
<1>7. \A j \in S : j <= k
  <2> TAKE j \in S
  <2>1. LastMonth - j \in Gap /\ LastMonth - j \in Nat /\ g \in Nat BY <1>2, <1>5
  <2>2. ~(LastMonth - j < g) BY <2>1, <1>4, <1>5
  <2>3. j \in Int /\ k \in Int /\ LastMonth \in Int BY <1>1, <1>6 DEF Months, Origin
  <2> HIDE DEF Gap
  <2> QED BY <2>2, <2>3, <1>6
<1> QED BY <1>7

\* The version that applies is one of the versions, and none later does.
LEMMA ApplicableIsLatest ==
  ASSUME NEW vs, DOMAIN vs \subseteq Months \union {Origin},
         NEW m \in Months, NEW k0 \in DOMAIN vs, k0 <= m
  PROVE  \E k \in DOMAIN vs : /\ k <= m
                              /\ \A j \in DOMAIN vs : j <= m => j <= k
                              /\ Applicable(vs, m) = vs[k]
<1> DEFINE past == {k \in DOMAIN vs : k <= m}
<1>1. past \in SUBSET (Months \union {Origin}) /\ past # {} OBVIOUS
<1>2. \E k \in past : \A j \in past : j <= k
  <2> HIDE DEF past
  <2> QED BY <1>1, LatestExists
<1> QED BY <1>2 DEF Applicable

\* Versions agreeing up to a month give that month the same definition.
LEMMA SameVersionsSameDefinition ==
  ASSUME NEW vs, DOMAIN vs \subseteq Months \union {Origin},
         NEW ws, DOMAIN ws \subseteq Months \union {Origin}, NEW m \in Months,
         \A k \in Months \union {Origin} :
            k <= m => /\ k \in DOMAIN vs <=> k \in DOMAIN ws
                      /\ k \in DOMAIN vs => vs[k] = ws[k]
  PROVE  Applicable(vs, m) = Applicable(ws, m) \/ \A k \in DOMAIN vs : ~(k <= m)
<1> SUFFICES ASSUME NEW k0 \in DOMAIN vs, k0 <= m
             PROVE  Applicable(vs, m) = Applicable(ws, m)
  OBVIOUS
<1>1. k0 \in DOMAIN ws OBVIOUS
<1>2. PICK k \in DOMAIN vs : /\ k <= m
                             /\ \A j \in DOMAIN vs : j <= m => j <= k
                             /\ Applicable(vs, m) = vs[k]
  BY ApplicableIsLatest
<1>3. PICK l \in DOMAIN ws : /\ l <= m
                             /\ \A j \in DOMAIN ws : j <= m => j <= l
                             /\ Applicable(ws, m) = ws[l]
  BY <1>1, ApplicableIsLatest
<1>4. k <= l /\ l <= k BY <1>2, <1>3
<1>5. k = l BY <1>4, EnvelopeAssumption DEF Months, Origin
<1> QED BY <1>2, <1>3, <1>5

LEMMA BlankType == Blank \in Definition
<1>1. (CHOOSE a \in Amounts : TRUE) \in Amounts BY EnvelopeAssumption
<1>2. (CHOOSE x \in Currencies : TRUE) \in Currencies BY EnvelopeAssumption
<1> QED BY <1>1, <1>2, EnvelopeAssumption DEF Blank, Definition, Months, Forever

\* A row that exists has a definition in every month.
LEMMA ResolvedType ==
  ASSUME TypeOK, NEW s \in Sources, Exists(s), NEW m \in Months
  PROVE  Resolved(s, m) \in Definition
<1>1. charge[s] \in Definition BY DEF TypeOK, Exists
<1>2. CASE \E k \in DOMAIN versions[s] : k <= m
  <2>1. PICK k \in DOMAIN versions[s] : Applicable(versions[s], m) = versions[s][k]
    BY <1>2, ApplicableIsLatest DEF TypeOK
  <2> QED BY <1>2, <2>1 DEF Resolved, Resolve, TypeOK
<1>3. CASE ~\E k \in DOMAIN versions[s] : k <= m
  BY <1>1, <1>3 DEF Resolved, Resolve
<1> QED BY <1>2, <1>3

(* ---------------------------------------------------------------------- *)
(* Types                                                                   *)

LEMMA InitType == Init => TypeOK
BY EnvelopeAssumption, BlankType DEF Init, TypeOK, NoVersions, Months

LEMMA BeginType ==
  ASSUME TypeOK, NEW c \in Callers, NEW pending \in Pending, Begin(c, pending)
  PROVE  TypeOK'
BY EnvelopeAssumption DEF TypeOK, Begin, Call, Exists

LEMMA ScheduleRequestType ==
  ASSUME TypeOK, NEW s \in Sources, NEW change \in Change, NEW target \in Months
  PROVE  [step |-> "schedule", source |-> s, change |-> change,
          target |-> target, today |-> month] \in Pending
BY DEF TypeOK, Pending

LEMMA ChangeTypes ==
  /\ Unchanged \in Change /\ Archived \in Change
  /\ \A form \in EnvelopeForms : [form EXCEPT !.envelope = TRUE] \in Change
  /\ \A form \in EditForms \union EnvelopeForms : form \in Change
BY EnvelopeAssumption DEF Change, Unchanged, Archived

LEMMA WithVersionType ==
  ASSUME TypeOK, NEW s \in Sources, Exists(s), NEW target \in Months, NEW d \in Definition
  PROVE  /\ DOMAIN WithVersion(s, target, d) \subseteq Months \union {Origin}
         /\ \A k \in DOMAIN WithVersion(s, target, d) : WithVersion(s, target, d)[k] \in Definition
         /\ \A m \in Months : Applicable(WithVersion(s, target, d), m) \in Definition
<1> DEFINE vs == WithVersion(s, target, d)
<1>1. charge[s] \in Definition BY DEF TypeOK, Exists
<1>2. /\ DOMAIN vs = DOMAIN versions[s] \union {Origin, target}
      /\ DOMAIN vs \subseteq Months \union {Origin}
      /\ \A k \in DOMAIN vs : vs[k] \in Definition
  BY <1>1 DEF WithVersion, TypeOK
<1>3. ASSUME NEW m \in Months PROVE Applicable(vs, m) \in Definition
  <2>1. Origin \in DOMAIN vs /\ Origin <= m BY <1>2, EnvelopeAssumption DEF Months, Origin
  <2> HIDE DEF vs
  <2> QED BY <1>2, <2>1, ApplicableIsLatest
<1> QED BY <1>2, <1>3

LEMMA ScheduleType ==
  ASSUME TypeOK, NEW c \in Callers, Schedule(c)
  PROVE  TypeOK'
<1> DEFINE s == request[c].source
           target == request[c].target
           d == Merge(Resolved(s, target), request[c].change)
           vs == WithVersion(s, target, d)
<1>1. request[c] \in Pending /\ s \in Sources /\ target \in Months
  BY DEF TypeOK, Schedule, Pending
<1>2. request' \in [Callers -> Pending \union {NoRequest}]
  BY DEF TypeOK, Schedule
<1>3. CASE UNCHANGED <<versions, plan>>
  BY <1>2, <1>3 DEF TypeOK, Schedule
<1>4. CASE /\ Exists(s) /\ ScheduleAccepted(s, target, d, vs)
           /\ versions' = [versions EXCEPT ![s] = vs]
           /\ plan' = [o \in Slots |-> IF o \in Affected(s, target)
                                       THEN Replanned(o, Applicable(vs, o[2]))
                                       ELSE plan[o]]
  <2>1. d \in Definition BY <1>1, <1>4, ResolvedType, MergeType DEF Pending
  <2>2. /\ DOMAIN vs \subseteq Months \union {Origin}
        /\ \A k \in DOMAIN vs : vs[k] \in Definition
        /\ \A m \in Months : Applicable(vs, m) \in Definition
    <3> HIDE DEF d, s, target
    <3> QED BY <1>1, <1>4, <2>1, WithVersionType
  <2> HIDE DEF vs, d, s, target
  <2>3. \A o \in Slots : Replanned(o, Applicable(vs, o[2])) \in Occurrence \union {NoOccurrence}
    BY <2>2 DEF Replanned, Occurrence, Definition, Slots
  <2>4. plan' \in [Slots -> Occurrence \union {NoOccurrence}]
    BY <1>4, <2>3 DEF TypeOK
  <2>5. /\ DOMAIN versions' = Sources
        /\ \A q \in Sources : /\ DOMAIN versions'[q] \subseteq Months \union {Origin}
                              /\ \A k \in DOMAIN versions'[q] : versions'[q][k] \in Definition
    BY <1>1, <1>4, <2>2 DEF TypeOK
  <2>6. UNCHANGED <<month, charge, payment, link, closed, calls>> BY DEF Schedule
  <2> QED BY <1>2, <2>4, <2>5, <2>6 DEF TypeOK
<1> QED BY <1>3, <1>4 DEF Schedule

LEMMA FixedType ==
  ASSUME TypeOK, NEW s \in Sources
  PROVE  /\ \A form \in EditForms : CreateFixed(s, form) => TypeOK'
         /\ \A form \in EnvelopeForms : CreateEnvelope(s, form) => TypeOK'
<1>1. [Blank EXCEPT !.envelope = TRUE] \in Definition BY BlankType DEF Definition
<1>2. ASSUME NEW form \in EditForms, CreateFixed(s, form) PROVE TypeOK'
  <2>1. Merge(Blank, form) \in Definition BY BlankType, MergeType, ChangeTypes
  <2> QED BY <1>2, <2>1, EnvelopeAssumption DEF TypeOK, CreateFixed, Call
<1>3. ASSUME NEW form \in EnvelopeForms, CreateEnvelope(s, form) PROVE TypeOK'
  <2>1. Merge([Blank EXCEPT !.envelope = TRUE], form) \in Definition
    BY <1>1, MergeType, ChangeTypes
  <2> QED BY <1>3, <2>1, EnvelopeAssumption DEF TypeOK, CreateEnvelope, Call
<1> QED BY <1>2, <1>3

\* The steps that only put a request in flight.
Begins(c) ==
  \E s \in Sources :
     \/ \E form \in EditForms, when \in Months \union {Now} : BeginEdit(c, s, form, when)
     \/ \E form \in EnvelopeForms : BeginSaveEnvelope(c, s, form)
     \/ BeginArchive(c, s)
     \/ BeginDelete(c, s)

\* Each of them is dated in the current month, for a month not before it.
LEMMA BeginsPending ==
  ASSUME TypeOK, NEW c \in Callers, Begins(c)
  PROVE  \E pending \in Pending : /\ Begin(c, pending)
                                  /\ pending.today = month
                                  /\ month <= pending.target
<1> month \in Months /\ month \in Int /\ EnvelopeAssumption
  BY EnvelopeAssumption DEF TypeOK, Months
<1>1. ASSUME NEW s \in Sources, NEW change \in Change, NEW target \in Months,
             BeginSchedule(c, s, change, target)
      PROVE  \E pending \in Pending : /\ Begin(c, pending)
                                      /\ pending.today = month
                                      /\ month <= pending.target
  BY <1>1, ScheduleRequestType DEF BeginSchedule
<1>2. PICK s \in Sources :
     \/ \E form \in EditForms, when \in Months \union {Now} : BeginEdit(c, s, form, when)
     \/ \E form \in EnvelopeForms : BeginSaveEnvelope(c, s, form)
     \/ BeginArchive(c, s)
     \/ BeginDelete(c, s)
  BY DEF Begins
<1>3. ASSUME NEW form \in EditForms, NEW when \in Months \union {Now},
             BeginEdit(c, s, form, when)
      PROVE  \E pending \in Pending : /\ Begin(c, pending)
                                      /\ pending.today = month
                                      /\ month <= pending.target
  <2>1. CASE NeedsVersion(s, form, when)
    BY <1>1, <1>3, <2>1, ChangeTypes DEF BeginEdit
  <2>2. CASE ~NeedsVersion(s, form, when)
    <3>1. [step |-> "editRow", source |-> s, change |-> form,
           target |-> month, today |-> month] \in Pending
      BY ChangeTypes DEF Pending
    <3> QED BY <1>3, <2>2, <3>1 DEF BeginEdit
  <2> QED BY <2>1, <2>2
<1>4. ASSUME NEW form \in EnvelopeForms, BeginSaveEnvelope(c, s, form)
      PROVE  \E pending \in Pending : /\ Begin(c, pending)
                                      /\ pending.today = month
                                      /\ month <= pending.target
  BY <1>1, <1>4, ChangeTypes DEF BeginSaveEnvelope
<1>5. ASSUME BeginArchive(c, s)
      PROVE  \E pending \in Pending : /\ Begin(c, pending)
                                      /\ pending.today = month
                                      /\ month <= pending.target
  BY <1>1, <1>5, ChangeTypes DEF BeginArchive
<1>6. ASSUME BeginDelete(c, s)
      PROVE  \E pending \in Pending : /\ Begin(c, pending)
                                      /\ pending.today = month
                                      /\ month <= pending.target
  <2>1. [step |-> "deleteRow", source |-> s, change |-> Unchanged,
         target |-> month, today |-> month] \in Pending
    BY ChangeTypes DEF Pending
  <2> QED BY <1>6, <2>1 DEF BeginDelete
<1> QED BY <1>2, <1>3, <1>4, <1>5, <1>6

LEMMA RowType ==
  ASSUME TypeOK, NEW c \in Callers
  PROVE  (EditRow(c) => TypeOK') /\ (DeleteRow(c) => TypeOK')
<1>1. ASSUME EditRow(c) PROVE TypeOK'
  <2>1. request[c] \in Pending BY <1>1 DEF TypeOK, EditRow
  <2>2. CASE Exists(request[c].source)
    <3>1. Merge(charge[request[c].source], request[c].change) \in Definition
      BY <2>1, <2>2, MergeType DEF TypeOK, Exists, Pending
    <3> QED BY <1>1, <2>1, <2>2, <3>1 DEF TypeOK, EditRow, Pending
  <2>3. CASE ~Exists(request[c].source)
    BY <1>1, <2>3 DEF TypeOK, EditRow
  <2> QED BY <2>2, <2>3
<1>2. ASSUME DeleteRow(c) PROVE TypeOK'
  <2>1. request[c] \in Pending BY <1>2 DEF TypeOK, DeleteRow
  <2> QED BY <1>2, <2>1 DEF TypeOK, DeleteRow, Pending, NoVersions
<1> QED BY <1>1, <1>2

LEMMA OccurrenceType ==
  ASSUME TypeOK
  PROVE  /\ \A m \in Months, currency \in Currencies : Materialize(m, currency) => TypeOK'
         /\ \A o \in Slots, planned \in Amounts : UpdateOccurrence(o, planned) => TypeOK'
<1>1. ASSUME NEW m \in Months, NEW currency \in Currencies, Materialize(m, currency)
      PROVE  TypeOK'
  <2>1. ASSUME NEW o \in Missing(m, currency)
        PROVE  [currency |-> currency, planned |-> Resolved(o[1], m).amount] \in Occurrence
    <3>1. o[1] \in Sources /\ Exists(o[1]) BY DEF Missing, Slots, EnvelopeSource
    <3> QED BY <3>1, ResolvedType DEF Occurrence, Definition
  <2>2. plan' \in [Slots -> Occurrence \union {NoOccurrence}]
    BY <1>1, <2>1 DEF TypeOK, Materialize
  <2> QED BY <1>1, <2>2 DEF TypeOK, Materialize
<1>2. ASSUME NEW o \in Slots, NEW planned \in Amounts, UpdateOccurrence(o, planned)
      PROVE  TypeOK'
  <2>1. plan[o] \in Occurrence BY <1>2 DEF TypeOK, UpdateOccurrence
  <2>2. [plan[o] EXCEPT !.planned = planned] \in Occurrence BY <2>1 DEF Occurrence
  <2> QED BY <1>2, <2>2, EnvelopeAssumption DEF TypeOK, UpdateOccurrence, Call
<1> QED BY <1>1, <1>2

\* One payment entered, changed, moved or deleted.
PaymentStep(p) ==
  \/ \E wanted, expected \in Slots \union {Unlinked} : Link(p, wanted, expected)
  \/ \E pay \in PaymentForms, wanted \in Slots \union {Unlinked, Omitted} :
       \/ CreatePayment(p, pay, wanted)
       \/ \E expected \in Slots \union {Unlinked} : UpdatePayment(p, pay, wanted, expected)
  \/ DeletePayment(p)

LEMMA PaymentType ==
  ASSUME TypeOK, NEW p \in Payments, PaymentStep(p)
  PROVE  TypeOK'
BY EnvelopeAssumption
   DEF TypeOK, PaymentStep, Link, CreatePayment, UpdatePayment, DeletePayment, Call

LEMMA AroundType ==
  ASSUME TypeOK
  PROVE  /\ \A m \in Months, currency \in Currencies : ClosePeriod(m, currency) => TypeOK'
         /\ MonthEnds => TypeOK'
BY EnvelopeAssumption DEF TypeOK, ClosePeriod, MonthEnds, Months

(* ---------------------------------------------------------------------- *)
(* Linked payments match their occurrence                                  *)

\* Scheduling moves, closes or deletes only what no payment is linked to.
LEMMA ScheduleKeepsLinkedPlans ==
  ASSUME TypeOK, LinksMatch, NEW c \in Callers, Schedule(c),
         NEW p \in Payments, link[p] # Unlinked
  PROVE  plan'[link[p]] # NoOccurrence /\ plan'[link[p]].currency = plan[link[p]].currency
<1> DEFINE s == request[c].source
           target == request[c].target
           d == Merge(Resolved(s, target), request[c].change)
           vs == WithVersion(s, target, d)
           o == link[p]
<1>1. o \in Slots /\ plan[o] # NoOccurrence /\ Linked(o)
  BY DEF TypeOK, LinksMatch, Linked
<1>2. CASE UNCHANGED <<versions, plan>>
  BY <1>1, <1>2
<1>3. CASE /\ Exists(s) /\ ScheduleAccepted(s, target, d, vs)
           /\ versions' = [versions EXCEPT ![s] = vs]
           /\ plan' = [x \in Slots |-> IF x \in Affected(s, target)
                                       THEN Replanned(x, Applicable(vs, x[2]))
                                       ELSE plan[x]]
  <2>1. TypeOK' BY ScheduleType
  <2> HIDE DEF vs, d, s, target, o
  <2>2. CASE o \in Affected(s, target)
    <3>1. /\ ActiveEnvelope(Applicable(vs, o[2]), o[2])
          /\ Applicable(vs, o[2]).currency = plan[o].currency
      BY <1>1, <1>3, <2>2 DEF ScheduleAccepted
    <3>2. plan'[o] = [currency |-> plan[o].currency, planned |-> Applicable(vs, o[2]).amount]
      BY <1>1, <1>3, <2>2, <3>1 DEF Replanned
    <3>3. o[2] \in Months /\ s \in Sources /\ target \in Months
      BY <1>1 DEF TypeOK, Schedule, Slots, Pending, s, target
    <3>4. d \in Definition
      BY <1>3, <3>3, ResolvedType, MergeType DEF TypeOK, Schedule, Pending, d, s, target
    <3>5. Applicable(vs, o[2]) \in Definition
      BY <1>3, <3>3, <3>4, WithVersionType DEF vs
    <3>6. plan'[o] \in Occurrence
      BY <1>1, <3>2, <3>5 DEF Occurrence, Definition, TypeOK
    <3> QED BY <3>2, <3>6, EnvelopeAssumption DEF o
  <2>3. CASE o \notin Affected(s, target)
    BY <1>1, <1>3, <2>3 DEF o
  <2> QED BY <2>2, <2>3
<1> QED BY <1>2, <1>3 DEF Schedule

LEMMA ScheduleLinks ==
  ASSUME TypeOK, LinksMatch, NEW c \in Callers, Schedule(c)
  PROVE  LinksMatch'
<1> SUFFICES ASSUME NEW p \in Payments, link'[p] # Unlinked
             PROVE  /\ payment'[p] # NoPayment
                    /\ plan'[link'[p]] # NoOccurrence
                    /\ Compatible(link[p], payment[p])'
  BY DEF LinksMatch
<1>1. link' = link /\ payment' = payment BY DEF Schedule
<1>2. plan'[link[p]] # NoOccurrence /\ plan'[link[p]].currency = plan[link[p]].currency
  BY <1>1, ScheduleKeepsLinkedPlans
<1> QED BY <1>1, <1>2 DEF LinksMatch, Compatible

LEMMA OccurrenceLinks ==
  ASSUME TypeOK, LinksMatch
  PROVE  /\ \A m \in Months, currency \in Currencies : Materialize(m, currency) => LinksMatch'
         /\ \A o \in Slots, planned \in Amounts : UpdateOccurrence(o, planned) => LinksMatch'
<1>1. ASSUME NEW m \in Months, NEW currency \in Currencies, Materialize(m, currency)
      PROVE  LinksMatch'
  <2>1. \A p \in Payments : link[p] # Unlinked =>
           link[p] \in Slots /\ plan'[link[p]] = plan[link[p]]
    BY <1>1 DEF Materialize, Missing, LinksMatch, TypeOK
  <2> QED BY <1>1, <2>1 DEF Materialize, LinksMatch, Compatible
<1>2. ASSUME NEW o \in Slots, NEW planned \in Amounts, UpdateOccurrence(o, planned)
      PROVE  LinksMatch'
  <2>1. plan[o] \in Occurrence BY <1>2 DEF TypeOK, UpdateOccurrence
  <2>2. /\ [plan[o] EXCEPT !.planned = planned] \in Occurrence
        /\ [plan[o] EXCEPT !.planned = planned].currency = plan[o].currency
    BY <2>1 DEF Occurrence
  <2>3. \A p \in Payments : link[p] # Unlinked =>
           plan'[link[p]] # NoOccurrence /\ plan'[link[p]].currency = plan[link[p]].currency
    BY <1>2, <2>2, EnvelopeAssumption DEF UpdateOccurrence, LinksMatch, TypeOK
  <2> QED BY <1>2, <2>3 DEF UpdateOccurrence, LinksMatch, Compatible
<1> QED BY <1>1, <1>2

LEMMA PaymentLinks ==
  ASSUME TypeOK, LinksMatch, NEW p \in Payments, PaymentStep(p)
  PROVE  LinksMatch'
<1> SUFFICES ASSUME NEW q \in Payments, link'[q] # Unlinked
             PROVE  /\ payment'[q] # NoPayment
                    /\ plan'[link'[q]] # NoOccurrence
                    /\ Compatible(link[q], payment[q])'
  BY DEF LinksMatch
<1>1. plan' = plan
  BY DEF PaymentStep, Link, CreatePayment, UpdatePayment, DeletePayment
<1>2. CASE q # p
  <2>1. link'[q] = link[q] /\ payment'[q] = payment[q]
    BY <1>2 DEF PaymentStep, Link, CreatePayment, UpdatePayment, DeletePayment, TypeOK
  <2> QED BY <1>1, <2>1 DEF LinksMatch, Compatible
<1>3. CASE q = p
  <2>1. ASSUME NEW wanted \in Slots \union {Unlinked}, NEW expected \in Slots \union {Unlinked},
               Link(p, wanted, expected)
        PROVE  /\ payment'[p] # NoPayment /\ plan[link'[p]] # NoOccurrence
               /\ Compatible(link[p], payment[p])'
    <3>1. link'[p] = wanted /\ payment' = payment BY <2>1 DEF Link, TypeOK
    <3> QED BY <1>1, <1>3, <2>1, <3>1 DEF Link, LinkAccepted, Compatible
  <2>2. ASSUME NEW pay \in PaymentForms, NEW wanted \in Slots \union {Unlinked, Omitted},
               CreatePayment(p, pay, wanted)
        PROVE  /\ payment'[p] # NoPayment /\ plan[link'[p]] # NoOccurrence
               /\ Compatible(link[p], payment[p])'
    <3>1. payment'[p] = pay /\ pay # NoPayment
      BY <2>2, EnvelopeAssumption DEF CreatePayment, TypeOK
    <3>2. link[p] = Unlinked BY <2>2 DEF CreatePayment, LinksMatch
    <3>3. wanted # Omitted /\ link'[p] = wanted
      BY <1>3, <2>2, <3>2 DEF CreatePayment, TypeOK
    <3> QED BY <1>1, <1>3, <2>2, <3>1, <3>3 DEF CreatePayment, LinkAccepted, Compatible
  <2>3. ASSUME NEW pay \in PaymentForms, NEW wanted \in Slots \union {Unlinked, Omitted},
               NEW expected \in Slots \union {Unlinked}, UpdatePayment(p, pay, wanted, expected)
        PROVE  /\ payment'[p] # NoPayment /\ plan[link'[p]] # NoOccurrence
               /\ Compatible(link[p], payment[p])'
    <3>1. payment'[p] = pay /\ pay # NoPayment
      BY <2>3, EnvelopeAssumption DEF UpdatePayment, TypeOK
    <3>2. CASE wanted = Omitted
      <4>1. link'[p] = link[p] BY <2>3, <3>2 DEF UpdatePayment
      <4> QED BY <1>1, <1>3, <2>3, <3>1, <3>2, <4>1 DEF UpdatePayment, LinksMatch, Compatible
    <3>3. CASE wanted # Omitted
      <4>1. link'[p] = wanted BY <2>3, <3>3 DEF UpdatePayment, TypeOK
      <4>2. LinkAccepted(pay, link[p], wanted, expected) BY <2>3, <3>3 DEF UpdatePayment
      <4>3. wanted # Unlinked /\ plan[wanted] # NoOccurrence
        BY <1>3, <4>1, <4>2 DEF LinkAccepted
      <4>4. Compatible(wanted, pay) BY <4>2, <4>3 DEF LinkAccepted
      <4> QED BY <1>1, <3>1, <4>1, <4>3, <4>4 DEF Compatible
    <3> QED BY <3>2, <3>3
  <2>4. ~DeletePayment(p) BY <1>3 DEF DeletePayment, TypeOK
  <2> QED BY <1>1, <1>3, <2>1, <2>2, <2>3, <2>4 DEF PaymentStep
<1> QED BY <1>2, <1>3

(* ---------------------------------------------------------------------- *)
(* The inductive invariant                                                 *)

LEMMA NextCases ==
  Next <=>
    \/ \E s \in Sources, form \in EditForms : CreateFixed(s, form)
    \/ \E s \in Sources, form \in EnvelopeForms : CreateEnvelope(s, form)
    \/ \E c \in Callers : Begins(c) \/ EditRow(c) \/ DeleteRow(c) \/ Schedule(c)
    \/ \E m \in Months, currency \in Currencies :
         Materialize(m, currency) \/ ClosePeriod(m, currency)
    \/ \E o \in Slots, planned \in Amounts : UpdateOccurrence(o, planned)
    \/ \E p \in Payments : PaymentStep(p)
    \/ MonthEnds
BY Zenon DEF Next, Begins, PaymentStep

LEMMA NextType == ASSUME TypeOK, Next PROVE TypeOK'
<1>1. ASSUME NEW c \in Callers, Begins(c) PROVE TypeOK'
  BY <1>1, BeginsPending, BeginType
<1> QED BY <1>1, NextCases, FixedType, RowType, ScheduleType, OccurrenceType, PaymentType,
           AroundType

LEMMA NextLinks == ASSUME TypeOK, LinksMatch, Next PROVE LinksMatch'
<1>1. ASSUME UNCHANGED <<plan, payment, link>> PROVE LinksMatch'
  BY <1>1 DEF LinksMatch, Compatible
<1>2. ASSUME NEW c \in Callers, Begins(c) PROVE UNCHANGED <<plan, payment, link>>
  BY <1>2, BeginsPending DEF Begin
<1>3. ASSUME NEW s \in Sources
      PROVE  /\ \A form \in EditForms : CreateFixed(s, form) => UNCHANGED <<plan, payment, link>>
             /\ \A form \in EnvelopeForms :
                   CreateEnvelope(s, form) => UNCHANGED <<plan, payment, link>>
  BY DEF CreateFixed, CreateEnvelope
<1>4. ASSUME NEW c \in Callers, EditRow(c) \/ DeleteRow(c)
      PROVE  UNCHANGED <<plan, payment, link>>
  BY <1>4 DEF EditRow, DeleteRow
<1>5. ASSUME NEW m \in Months, NEW currency \in Currencies, ClosePeriod(m, currency)
      PROVE  UNCHANGED <<plan, payment, link>>
  BY <1>5 DEF ClosePeriod
<1>6. ASSUME MonthEnds PROVE UNCHANGED <<plan, payment, link>>
  BY <1>6 DEF MonthEnds
<1> QED BY <1>1, <1>2, <1>3, <1>4, <1>5, <1>6, NextCases, ScheduleLinks, OccurrenceLinks,
           PaymentLinks

\* A new version comes with the origin.
LEMMA ScheduleOrigin ==
  ASSUME TypeOK, OriginKept, NEW c \in Callers, Schedule(c)
  PROVE  OriginKept'
<1>1. request[c] \in Pending BY DEF TypeOK, Schedule
<1>2. ASSUME NEW s \in Sources, NEW target \in Months, NEW d,
             versions' = [versions EXCEPT ![s] = WithVersion(s, target, d)]
      PROVE  OriginKept'
  <2>1. Origin \in DOMAIN WithVersion(s, target, d) BY DEF WithVersion
  <2> QED BY <1>2, <2>1 DEF OriginKept, TypeOK
<1>3. CASE UNCHANGED versions BY <1>3 DEF OriginKept
<1> QED BY <1>1, <1>2, <1>3 DEF Schedule, Pending

LEMMA NextOrigin == ASSUME TypeOK, OriginKept, Next PROVE OriginKept'
<1>1. ASSUME UNCHANGED versions PROVE OriginKept' BY <1>1 DEF OriginKept
<1>2. ASSUME NEW c \in Callers, Begins(c) PROVE UNCHANGED versions
  BY <1>2, BeginsPending DEF Begin
<1>3. ASSUME NEW s \in Sources
      PROVE  /\ \A form \in EditForms : CreateFixed(s, form) => UNCHANGED versions
             /\ \A form \in EnvelopeForms : CreateEnvelope(s, form) => UNCHANGED versions
  BY DEF CreateFixed, CreateEnvelope
<1>4. ASSUME NEW c \in Callers, EditRow(c) PROVE UNCHANGED versions BY <1>4 DEF EditRow
<1>5. ASSUME NEW c \in Callers, DeleteRow(c) PROVE OriginKept'
  BY <1>5 DEF DeleteRow, OriginKept, NoVersions, TypeOK
<1>6. ASSUME NEW m \in Months, NEW currency \in Currencies,
             Materialize(m, currency) \/ ClosePeriod(m, currency)
      PROVE  UNCHANGED versions
  BY <1>6 DEF Materialize, ClosePeriod
<1>7. ASSUME NEW o \in Slots, NEW planned \in Amounts, UpdateOccurrence(o, planned)
      PROVE  UNCHANGED versions
  BY <1>7 DEF UpdateOccurrence
<1>8. ASSUME NEW p \in Payments, PaymentStep(p) PROVE UNCHANGED versions
  BY <1>8 DEF PaymentStep, Link, CreatePayment, UpdatePayment, DeletePayment
<1>9. ASSUME MonthEnds PROVE UNCHANGED versions BY <1>9 DEF MonthEnds
<1> QED BY <1>1, <1>2, <1>3, <1>4, <1>5, <1>6, <1>7, <1>8, <1>9, NextCases, ScheduleOrigin

LEMMA NextDated == ASSUME TypeOK, RequestsDated, Next PROVE RequestsDated'
<1>0. month \in Int /\ (month' = month \/ month' = month + 1)
  <2>1. month \in Int BY EnvelopeAssumption DEF TypeOK, Months
  <2>2. \A c \in Callers : Begins(c) => month' = month BY BeginsPending DEF Begin
  <2> QED BY <2>1, <2>2, NextCases
       DEF CreateFixed, CreateEnvelope, EditRow, DeleteRow, Schedule, Materialize, ClosePeriod,
           UpdateOccurrence, PaymentStep, Link, CreatePayment, UpdatePayment, DeletePayment,
           MonthEnds
<1>1. \A c \in Callers : request[c] # NoRequest => request[c].today \in Int
  BY EnvelopeAssumption DEF TypeOK, Pending, Months
<1>2. ASSUME \A c \in Callers : request'[c] \in {request[c], NoRequest} PROVE RequestsDated'
  BY <1>0, <1>1, <1>2 DEF RequestsDated
<1>3. ASSUME NEW c \in Callers, Begins(c) PROVE RequestsDated'
  <2>1. PICK pending \in Pending : /\ Begin(c, pending)
                                   /\ pending.today = month
                                   /\ month <= pending.target
    BY <1>3, BeginsPending
  <2> QED BY <1>0, <2>1 DEF Begin, RequestsDated, TypeOK
<1>4. ASSUME NEW c \in Callers, EditRow(c) \/ DeleteRow(c) \/ Schedule(c)
      PROVE  \A d \in Callers : request'[d] \in {request[d], NoRequest}
  BY <1>4 DEF EditRow, DeleteRow, Schedule, TypeOK
<1>5. ASSUME UNCHANGED request PROVE RequestsDated'
  BY <1>2, <1>5
<1>6. ASSUME ~\E c \in Callers : Begins(c) \/ EditRow(c) \/ DeleteRow(c) \/ Schedule(c)
      PROVE  UNCHANGED request
  BY <1>6, NextCases
     DEF CreateFixed, CreateEnvelope, Materialize, ClosePeriod, UpdateOccurrence, PaymentStep,
         Link, CreatePayment, UpdatePayment, DeletePayment, MonthEnds
<1> QED BY <1>2, <1>3, <1>4, <1>5, <1>6

(* ---------------------------------------------------------------------- *)
(* A version leaves the months around its own alone                        *)

\* A version leaves the definitions of the months before it alone.
LEMMA BeforeTheVersion ==
  ASSUME TypeOK, OriginKept, NEW s \in Sources, Exists(s),
         NEW target \in Months, NEW d \in Definition, NEW m \in Months, m < target
  PROVE  Resolve(charge[s], WithVersion(s, target, d), m) = Resolved(s, m)
<1> DEFINE vs == WithVersion(s, target, d)
<1>0. Origin <= m /\ Origin # target /\ LastMonth \in Nat
  BY EnvelopeAssumption DEF Origin, Months
<1>1. DOMAIN vs = DOMAIN versions[s] \union {Origin, target} BY DEF WithVersion
<1>2. DOMAIN vs \subseteq Months \union {Origin} /\ DOMAIN versions[s] \subseteq Months \union {Origin}
  BY <1>1 DEF TypeOK
<1>3. Resolve(charge[s], vs, m) = Applicable(vs, m)
  BY <1>0, <1>1 DEF Resolve
<1>4. CASE DOMAIN versions[s] = {}
  <2>1. vs[Origin] = charge[s] BY <1>0, <1>1, <1>4 DEF WithVersion
  <2>2. \A k \in DOMAIN vs : k <= m => k = Origin
    BY <1>0, <1>1, <1>4 DEF Months
  <2> HIDE DEF vs
  <2>3. Applicable(vs, m) = vs[Origin]
    BY <1>0, <1>1, <1>2, <2>2, ApplicableIsLatest
  <2>4. Resolved(s, m) = charge[s] BY <1>4 DEF Resolved, Resolve
  <2> QED BY <1>3, <2>1, <2>3, <2>4 DEF vs
<1>5. CASE DOMAIN versions[s] # {}
  <2>1. Origin \in DOMAIN versions[s] BY <1>5 DEF OriginKept
  <2>2. \A k \in Months \union {Origin} :
          k <= m => /\ k \in DOMAIN versions[s] <=> k \in DOMAIN vs
                    /\ k \in DOMAIN versions[s] => versions[s][k] = vs[k]
    BY <1>0, <1>1, <2>1 DEF WithVersion, Months
  <2>3. Resolved(s, m) = Applicable(versions[s], m)
    BY <1>0, <2>1 DEF Resolved, Resolve
  <2> HIDE DEF vs
  <2>4. Applicable(versions[s], m) = Applicable(vs, m)
    BY <1>0, <1>2, <2>1, <2>2, SameVersionsSameDefinition
  <2> QED BY <1>3, <2>3, <2>4 DEF vs
<1> QED BY <1>4, <1>5

\* A version leaves the months from the next version on alone.
LEMMA FromTheNextVersion ==
  ASSUME TypeOK, OriginKept, NEW s \in Sources, NEW target \in Months, NEW d \in Definition,
         NEW k \in DOMAIN versions[s], target < k, NEW m \in Months, k <= m
  PROVE  Resolve(charge[s], WithVersion(s, target, d), m) = Resolved(s, m)
<1> DEFINE vs == WithVersion(s, target, d)
<1>1. DOMAIN vs = DOMAIN versions[s] \union {Origin, target} BY DEF WithVersion
<1>2. DOMAIN vs \subseteq Months \union {Origin} /\ DOMAIN versions[s] \subseteq Months \union {Origin}
  BY <1>1 DEF TypeOK
<1>3. k \in DOMAIN vs /\ Origin \in DOMAIN versions[s] BY <1>1 DEF OriginKept
<1>4. \A j \in DOMAIN vs : k <= j => j \in DOMAIN versions[s] /\ vs[j] = versions[s][j]
  <2> SUFFICES ASSUME NEW j \in DOMAIN vs, k <= j
               PROVE  j \in DOMAIN versions[s] /\ vs[j] = versions[s][j]
    OBVIOUS
  <2>1. j # target BY <1>2, EnvelopeAssumption DEF Months, Origin
  <2> QED BY <1>1, <1>3, <2>1 DEF WithVersion
<1> HIDE DEF vs
<1>5. PICK i \in DOMAIN vs : /\ i <= m
                             /\ \A j \in DOMAIN vs : j <= m => j <= i
                             /\ Applicable(vs, m) = vs[i]
  BY <1>2, <1>3, ApplicableIsLatest
<1>6. PICK l \in DOMAIN versions[s] : /\ l <= m
                                      /\ \A j \in DOMAIN versions[s] : j <= m => j <= l
                                      /\ Applicable(versions[s], m) = versions[s][l]
  BY <1>2, ApplicableIsLatest
<1>7. k <= i /\ i \in DOMAIN versions[s] /\ vs[i] = versions[s][i] BY <1>3, <1>4, <1>5
<1>8. i <= l /\ l \in DOMAIN vs /\ l <= i BY <1>1, <1>5, <1>6, <1>7 DEF vs
<1>9. i = l BY <1>8, <1>2, EnvelopeAssumption DEF Months, Origin
<1> QED BY <1>3, <1>5, <1>6, <1>7, <1>9 DEF Resolve, Resolved, vs

(* ---------------------------------------------------------------------- *)
(* What an open month reserves is active                                   *)

LEMMA NextSources == ASSUME TypeOK, SourcesWereCreated, Next PROVE SourcesWereCreated'
<1> USE EnvelopeAssumption
<1>1. ASSUME NEW s \in Sources, charge[s] # NotYet PROVE charge'[s] # NotYet
  <2>1. ASSUME NEW c \in Callers, EditRow(c) PROVE charge'[s] # NotYet
    <3>1. request[c] \in Pending BY <2>1 DEF TypeOK, EditRow
    <3>2. CASE Exists(request[c].source)
      <4>1. Merge(charge[request[c].source], request[c].change) \in Definition
        BY <3>1, <3>2, MergeType DEF TypeOK, Exists, Pending
      <4> QED BY <1>1, <2>1, <3>1, <3>2, <4>1 DEF EditRow, TypeOK
    <3>3. CASE ~Exists(request[c].source) BY <1>1, <2>1, <3>3 DEF EditRow
    <3> QED BY <3>2, <3>3
  <2>2. ASSUME NEW c \in Callers, DeleteRow(c) PROVE charge'[s] # NotYet
    BY <1>1, <2>2 DEF DeleteRow, TypeOK
  <2>3. ASSUME NEW q \in Sources,
               \/ \E form \in EditForms : CreateFixed(q, form)
               \/ \E form \in EnvelopeForms : CreateEnvelope(q, form)
        PROVE  charge'[s] = charge[s]
    BY <1>1, <2>3 DEF CreateFixed, CreateEnvelope, TypeOK
  <2>4. ASSUME NEW c \in Callers, Begins(c) PROVE charge' = charge
    BY <2>4, BeginsPending DEF Begin
  <2> QED BY <1>1, <2>1, <2>2, <2>3, <2>4, NextCases
       DEF Schedule, Materialize, ClosePeriod, UpdateOccurrence, PaymentStep, Link,
           CreatePayment, UpdatePayment, DeletePayment, MonthEnds
<1>2. ASSUME NEW o \in Slots, plan'[o] # NoOccurrence PROVE charge'[o[1]] # NotYet
  <2>1. o[1] \in Sources BY DEF Slots
  <2>2. CASE plan[o] # NoOccurrence BY <1>1, <2>1, <2>2 DEF SourcesWereCreated
  <2>3. CASE plan[o] = NoOccurrence
    <3>1. ~\E c \in Callers : Schedule(c)
      BY <1>2, <2>3 DEF Schedule, Affected
    <3>2. ASSUME NEW m \in Months, NEW currency \in Currencies, Materialize(m, currency)
          PROVE  charge'[o[1]] # NotYet
      BY <1>1, <1>2, <2>1, <2>3, <3>2 DEF Materialize, Missing, EnvelopeSource, Exists
    <3>3. ASSUME NEW c \in Callers, Begins(c) PROVE plan' = plan
      BY <3>3, BeginsPending DEF Begin
    <3>4. ASSUME NEW x \in Slots, NEW planned \in Amounts, UpdateOccurrence(x, planned)
          PROVE  plan'[o] = plan[o]
      BY <2>3, <3>4 DEF UpdateOccurrence, TypeOK
    <3> QED BY <1>2, <2>3, <3>1, <3>2, <3>3, <3>4, NextCases
         DEF CreateFixed, CreateEnvelope, EditRow, DeleteRow, ClosePeriod, PaymentStep, Link,
             CreatePayment, UpdatePayment, DeletePayment, MonthEnds
  <2> QED BY <2>2, <2>3
<1>3. ASSUME NEW c \in Callers, request'[c] # NoRequest
      PROVE  charge'[request'[c].source] # NotYet
  <2>1. CASE request'[c] = request[c]
    BY <1>1, <1>3, <2>1 DEF SourcesWereCreated, TypeOK, Pending
  <2>2. CASE request'[c] # request[c]
    <3>1. ASSUME NEW d \in Callers, EditRow(d) \/ DeleteRow(d) \/ Schedule(d) PROVE FALSE
      BY <1>3, <2>2, <3>1 DEF EditRow, DeleteRow, Schedule, TypeOK
    <3>2. PICK d \in Callers : Begins(d)
      BY <2>2, <3>1, NextCases
      DEF CreateFixed, CreateEnvelope, Materialize, ClosePeriod, UpdateOccurrence, PaymentStep,
          Link, CreatePayment, UpdatePayment, DeletePayment, MonthEnds
    <3>3. \E s \in Sources : /\ charge[s] # NotYet
                             /\ charge' = charge
                             /\ \E pending : /\ request' = [request EXCEPT ![d] = pending]
                                             /\ pending.source = s
      BY <3>2 DEF Begins, BeginEdit, BeginSaveEnvelope, BeginArchive, BeginDelete,
                  BeginSchedule, Begin, Exists
    <3> QED BY <2>2, <3>3 DEF TypeOK
  <2> QED BY <2>1, <2>2
<1> QED BY <1>2, <1>3 DEF SourcesWereCreated

\* A row edited in place is no envelope after the edit either.
LEMMA PlainEdit ==
  ASSUME TypeOK, RowEditsArePlain, NEW c \in Callers, EditRow(c), Exists(request[c].source)
  PROVE  /\ request[c].source \in Sources
         /\ ~charge[request[c].source].envelope
         /\ ~Merge(charge[request[c].source], request[c].change).envelope
         /\ charge' = [charge EXCEPT ![request[c].source] =
                         Merge(charge[request[c].source], request[c].change)]
<1>1. request[c] \in Pending BY DEF TypeOK, EditRow
<1>2. charge[request[c].source] \in Definition BY <1>1 DEF TypeOK, Exists, Pending
<1>3. "envelope" \in DOMAIN charge[request[c].source] BY <1>2 DEF Definition
<1>4. /\ request[c].change.envelope \in {FALSE, Keep}
      /\ ~charge[request[c].source].envelope
  BY <1>1 DEF RowEditsArePlain, EditRow, Pending, Change
<1>5. Merge(charge[request[c].source], request[c].change).envelope =
        IF request[c].change.envelope = Keep THEN charge[request[c].source].envelope
                                             ELSE request[c].change.envelope
  BY <1>3 DEF Merge
<1> QED BY <1>1, <1>4, <1>5 DEF EditRow, Pending

LEMMA NextPlain ==
  ASSUME TypeOK, SourcesWereCreated, RowEditsArePlain, Next
  PROVE  RowEditsArePlain'
<1> SUFFICES ASSUME NEW c \in Callers, request'[c] # NoRequest, request'[c].step = "editRow"
             PROVE  /\ request'[c].change.envelope # TRUE
                    /\ charge'[request'[c].source] \notin {NotYet, Gone} =>
                         ~charge'[request'[c].source].envelope
  BY DEF RowEditsArePlain, Exists
<1>1. CASE request'[c] = request[c]
  <2>1. PICK s \in Sources : /\ s = request[c].source /\ charge[s] # NotYet
                             /\ request[c].change.envelope # TRUE
                             /\ Exists(s) => ~charge[s].envelope
    BY <1>1 DEF TypeOK, Pending, RowEditsArePlain, SourcesWereCreated
  <2> SUFFICES ASSUME charge'[s] \notin {NotYet, Gone} PROVE ~charge'[s].envelope
    BY <1>1, <2>1
  <2>2. CASE charge'[s] = charge[s] BY <2>1, <2>2 DEF Exists
  <2>3. CASE charge'[s] # charge[s]
    <3>1. ASSUME NEW d \in Callers, EditRow(d) PROVE ~charge'[s].envelope
      <4>1. Exists(request[d].source) BY <2>3, <3>1 DEF EditRow
      <4>2. request[d].source = s BY <2>1, <2>3, <3>1, <4>1, PlainEdit DEF TypeOK
      <4> QED BY <2>1, <3>1, <4>1, <4>2, PlainEdit DEF TypeOK
    <3>2. ASSUME NEW d \in Callers, DeleteRow(d) PROVE FALSE
      BY <2>1, <2>3, <3>2 DEF DeleteRow, Exists, TypeOK
    <3>3. ASSUME NEW q \in Sources,
                 \/ \E form \in EditForms : CreateFixed(q, form)
                 \/ \E form \in EnvelopeForms : CreateEnvelope(q, form)
          PROVE  FALSE
      BY <2>1, <2>3, <3>3 DEF CreateFixed, CreateEnvelope, TypeOK
    <3>4. ASSUME NEW d \in Callers, Begins(d) PROVE FALSE
      BY <2>3, <3>4, BeginsPending DEF Begin
    <3> QED BY <2>3, <3>1, <3>2, <3>3, <3>4, NextCases
         DEF Schedule, Materialize, ClosePeriod, UpdateOccurrence, PaymentStep, Link,
             CreatePayment, UpdatePayment, DeletePayment, MonthEnds
  <2> QED BY <2>2, <2>3
<1>2. CASE request'[c] # request[c]
  <2>1. ASSUME NEW d \in Callers, EditRow(d) \/ DeleteRow(d) \/ Schedule(d) PROVE FALSE
    BY <1>2, <2>1 DEF EditRow, DeleteRow, Schedule, TypeOK
  <2>2. PICK d \in Callers : Begins(d)
    BY <1>2, <2>1, NextCases
    DEF CreateFixed, CreateEnvelope, Materialize, ClosePeriod, UpdateOccurrence, PaymentStep,
        Link, CreatePayment, UpdatePayment, DeletePayment, MonthEnds
  <2>3. PICK pending \in Pending : Begin(d, pending) BY <2>2, BeginsPending
  <2>4. d = c /\ charge' = charge /\ request'[c] = pending
    BY <1>2, <2>3 DEF Begin, TypeOK
  <2>5. PICK s \in Sources, form \in EditForms, when \in Months \union {Now} :
           BeginEdit(c, s, form, when) /\ ~NeedsVersion(s, form, when)
    <3>1. ASSUME NEW s, NEW change, NEW target, BeginSchedule(c, s, change, target) PROVE FALSE
      BY <2>4, <3>1 DEF BeginSchedule, Begin, TypeOK
    <3>2. ASSUME NEW s \in Sources, BeginDelete(c, s) PROVE FALSE
      BY <2>4, <3>2 DEF BeginDelete, Begin, TypeOK
    <3> QED BY <2>2, <2>4, <3>1, <3>2
         DEF Begins, BeginEdit, BeginSaveEnvelope, BeginArchive
  <2>6. request'[c] = [step |-> "editRow", source |-> s, change |-> form,
                       target |-> month, today |-> month]
    BY <2>5 DEF BeginEdit, Begin, TypeOK
  <2>7. request'[c].source = s /\ request'[c].change = form BY <2>6
  <2>8. form.envelope # TRUE /\ ~charge[s].envelope
    BY <2>5, Zenon DEF NeedsVersion
  <2> QED BY <2>4, <2>7, <2>8, Zenon
<1> QED BY <1>1, <1>2

\* What an open month reserves for one slot is active.
SlotActive(o) ==
  (plan[o] # NoOccurrence /\ Open(o) /\ Exists(o[1])) =>
     /\ ActiveEnvelope(Resolved(o[1], o[2]), o[2])
     /\ Resolved(o[1], o[2]).currency = plan[o].currency

LEMMA ScheduleActive ==
  ASSUME TypeOK, OriginKept, OpenPlanIsActive, NEW c \in Callers, Schedule(c), NEW o \in Slots
  PROVE  SlotActive(o)'
<1> DEFINE s == request[c].source
           target == request[c].target
           d == Merge(Resolved(s, target), request[c].change)
           vs == WithVersion(s, target, d)
<1>0. /\ UNCHANGED <<month, charge, closed>> /\ SlotActive(o)
      /\ o[1] \in Sources /\ o[2] \in Months
      /\ request[c] \in Pending /\ s \in Sources /\ target \in Months
  BY DEF Schedule, OpenPlanIsActive, SlotActive, Slots, TypeOK, Pending
<1>1. CASE plan'[o] = plan[o] /\ Resolved(o[1], o[2])' = Resolved(o[1], o[2])
  BY <1>0, <1>1 DEF SlotActive, Open, PeriodClosed, Exists
<1>2. CASE UNCHANGED <<versions, plan>>
  BY <1>0, <1>1, <1>2 DEF Resolved
<1>3. CASE /\ Exists(s) /\ ScheduleAccepted(s, target, d, vs)
           /\ versions' = [versions EXCEPT ![s] = vs]
           /\ plan' = [x \in Slots |-> IF x \in Affected(s, target)
                                       THEN Replanned(x, Applicable(vs, x[2]))
                                       ELSE plan[x]]
  <2>1. d \in Definition
    BY <1>0, <1>3, ResolvedType, MergeType DEF Pending
  <2> HIDE DEF vs, d, s, target
  <2>2. CASE o[1] # s
    <3>1. versions'[o[1]] = versions[o[1]] BY <1>0, <1>3, <2>2 DEF TypeOK
    <3>2. plan'[o] = plan[o] BY <1>3, <2>2 DEF Affected
    <3> QED BY <1>0, <1>1, <3>1, <3>2 DEF Resolved
  <2>3. CASE o[1] = s
    <3>1. /\ Resolved(o[1], o[2])' = Resolve(charge[s], vs, o[2])
          /\ Resolved(o[1], o[2]) = Resolved(s, o[2])
      BY <1>0, <1>3, <2>3 DEF Resolved, TypeOK
    <3>2. CASE o[2] < target
      <4>1. Resolved(o[1], o[2])' = Resolved(o[1], o[2])
        BY <1>0, <1>3, <2>1, <3>1, <3>2, BeforeTheVersion DEF vs
      <4>2. o \notin Affected(s, target)
        BY <1>0, <3>2, EnvelopeAssumption DEF Affected, Months
      <4> QED BY <1>0, <1>1, <1>3, <2>3, <4>1, <4>2
    <3>3. CASE ~(o[2] < target) /\ o \in Affected(s, target)
      <4>1. Origin \in DOMAIN vs /\ Origin <= o[2]
        BY <1>0, EnvelopeAssumption DEF vs, WithVersion, Origin, Months
      <4>2. Resolved(o[1], o[2])' = Applicable(vs, o[2])
        BY <3>1, <4>1 DEF Resolve
      <4>3. plan'[o] = Replanned(o, Applicable(vs, o[2]))
        BY <1>3, <3>3
      <4> QED BY <4>2, <4>3 DEF SlotActive, Replanned
    <3>4. CASE ~(o[2] < target) /\ o \notin Affected(s, target)
      <4>1. plan'[o] = plan[o] BY <1>3, <3>4
      <4>2. plan[o] = NoOccurrence \/ <<o[2], plan[o].currency>> \in closed
        BY <1>0, <2>3, <3>4, EnvelopeAssumption DEF Affected, Months
      <4> QED BY <1>0, <4>1, <4>2 DEF SlotActive, Open, PeriodClosed
    <3> QED BY <3>2, <3>3, <3>4
  <2> QED BY <2>2, <2>3
<1> QED BY <1>2, <1>3 DEF Schedule

LEMMA RowActive ==
  ASSUME TypeOK, OriginKept, RowEditsArePlain, OpenPlanIsActive, NEW c \in Callers,
         EditRow(c) \/ DeleteRow(c), NEW o \in Slots
  PROVE  SlotActive(o)'
<1> DEFINE s == o[1]
<1>0. /\ UNCHANGED <<month, plan, closed>> /\ SlotActive(o)
      /\ s \in Sources /\ o[2] \in Months
  BY DEF EditRow, DeleteRow, OpenPlanIsActive, SlotActive, Slots
<1>1. CASE charge'[s] = charge[s] /\ versions'[s] = versions[s]
  BY <1>0, <1>1 DEF SlotActive, Open, PeriodClosed, Exists, Resolved
<1>2. CASE EditRow(c) /\ ~(charge'[s] = charge[s])
  <2>1. versions' = versions BY <1>2 DEF EditRow
  <2>2. Exists(request[c].source) BY <1>2 DEF EditRow
  <2>3. request[c].source = s /\ Exists(s) BY <1>0, <1>2, <2>2, PlainEdit DEF TypeOK
  <2>4. ~charge[s].envelope BY <1>2, <2>2, <2>3, PlainEdit
  <2>5. CASE DOMAIN versions[s] = {}
    <3>1. Resolved(s, o[2]) = charge[s] BY <2>5 DEF Resolved, Resolve
    <3>2. plan[o] = NoOccurrence \/ ~Open(o)
      BY <1>0, <2>3, <2>4, <3>1 DEF SlotActive, ActiveEnvelope
    <3> QED BY <1>0, <3>2 DEF SlotActive, Open, PeriodClosed
  <2>6. CASE DOMAIN versions[s] # {}
    <3>1. Origin \in DOMAIN versions[s] /\ Origin <= o[2]
      BY <1>0, <2>6, EnvelopeAssumption DEF OriginKept, Origin, Months
    <3>2. Resolved(s, o[2])' = Resolved(s, o[2])
      BY <2>1, <3>1 DEF Resolved, Resolve
    <3> QED BY <1>0, <2>3, <3>2 DEF SlotActive, Open, PeriodClosed
  <2> QED BY <2>5, <2>6
<1>3. CASE DeleteRow(c)
  <2>1. request[c] \in Pending BY <1>3 DEF TypeOK, DeleteRow
  <2>2. CASE request[c].source = s
    <3>1. charge'[s] = Gone BY <1>0, <1>3, <2>2 DEF DeleteRow, TypeOK
    <3> QED BY <3>1 DEF SlotActive, Exists
  <2>3. CASE request[c].source # s
    BY <1>0, <1>1, <1>3, <2>1, <2>3 DEF DeleteRow, TypeOK
  <2> QED BY <2>2, <2>3
<1>4. CASE EditRow(c) /\ charge'[s] = charge[s]
  BY <1>1, <1>4 DEF EditRow
<1> QED BY <1>2, <1>3, <1>4

LEMMA OccurrenceActive ==
  ASSUME TypeOK, OpenPlanIsActive, NEW o \in Slots
  PROVE  /\ \A m \in Months, currency \in Currencies : Materialize(m, currency) => SlotActive(o)'
         /\ \A x \in Slots, planned \in Amounts : UpdateOccurrence(x, planned) => SlotActive(o)'
<1>0. SlotActive(o) BY DEF OpenPlanIsActive, SlotActive
<1>1. ASSUME NEW m \in Months, NEW currency \in Currencies, Materialize(m, currency)
      PROVE  SlotActive(o)'
  <2>1. UNCHANGED <<month, charge, versions, closed>> BY <1>1 DEF Materialize
  <2>2. Resolved(o[1], o[2])' = Resolved(o[1], o[2]) BY <2>1 DEF Resolved
  <2>3. CASE o \in Missing(m, currency)
    <3>1. plan'[o].currency = currency BY <1>1, <2>3 DEF Materialize
    <3>2. /\ ActiveEnvelope(Resolved(o[1], o[2]), o[2])
          /\ Resolved(o[1], o[2]).currency = currency
      BY <2>3 DEF Missing, EnvelopeSource
    <3> QED BY <2>2, <3>1, <3>2 DEF SlotActive
  <2>4. CASE o \notin Missing(m, currency)
    <3>1. plan'[o] = plan[o] BY <1>1, <2>4 DEF Materialize
    <3> QED BY <1>0, <2>1, <2>2, <3>1 DEF SlotActive, Open, PeriodClosed, Exists
  <2> QED BY <2>3, <2>4
<1>2. ASSUME NEW x \in Slots, NEW planned \in Amounts, UpdateOccurrence(x, planned)
      PROVE  SlotActive(o)'
  <2>1. UNCHANGED <<month, charge, versions, closed>> BY <1>2 DEF UpdateOccurrence
  <2>2. Resolved(o[1], o[2])' = Resolved(o[1], o[2]) BY <2>1 DEF Resolved
  <2>3. plan[x] \in Occurrence BY <1>2 DEF TypeOK, UpdateOccurrence
  <2>4. /\ plan[o] = NoOccurrence => plan'[o] = NoOccurrence
        /\ plan[o] # NoOccurrence => plan'[o].currency = plan[o].currency
    BY <1>2, <2>3 DEF UpdateOccurrence, TypeOK, Occurrence
  <2> QED BY <1>0, <2>1, <2>2, <2>4 DEF SlotActive, Open, PeriodClosed, Exists
<1> QED BY <1>1, <1>2

LEMMA NextActive ==
  ASSUME TypeOK, OriginKept, SourcesWereCreated, RowEditsArePlain, OpenPlanIsActive, Next
  PROVE  OpenPlanIsActive'
<1> SUFFICES ASSUME NEW o \in Slots PROVE SlotActive(o)'
  BY DEF OpenPlanIsActive, SlotActive
<1>0. SlotActive(o) /\ o[1] \in Sources /\ o[2] \in Months
  BY DEF OpenPlanIsActive, SlotActive, Slots
<1>1. ASSUME UNCHANGED <<charge, versions, plan>>,
             month' = month \/ (MonthEnds /\ month' = month + 1),
             closed \subseteq closed'
      PROVE  SlotActive(o)'
  <2>1. month \in Nat /\ o[2] \in Int BY <1>0, EnvelopeAssumption DEF TypeOK, Months
  <2>2. Open(o)' => Open(o) BY <1>1, <2>1 DEF Open, PeriodClosed
  <2> QED BY <1>0, <1>1, <2>2 DEF SlotActive, Exists, Resolved
<1>2. ASSUME NEW c \in Callers, Begins(c) PROVE SlotActive(o)'
  BY <1>1, <1>2, BeginsPending DEF Begin
<1>3. ASSUME NEW s \in Sources,
             \/ \E form \in EditForms : CreateFixed(s, form)
             \/ \E form \in EnvelopeForms : CreateEnvelope(s, form)
      PROVE  SlotActive(o)'
  <2>1. charge[s] = NotYet /\ \A q \in Sources \ {s} : charge'[q] = charge[q]
    BY <1>3 DEF CreateFixed, CreateEnvelope, TypeOK
  <2>2. UNCHANGED <<month, versions, plan, closed>>
    BY <1>3 DEF CreateFixed, CreateEnvelope
  <2>3. CASE o[1] = s BY <2>1, <2>2, <2>3 DEF SlotActive, SourcesWereCreated
  <2>4. CASE o[1] # s
    BY <1>0, <2>1, <2>2, <2>4 DEF SlotActive, Open, PeriodClosed, Exists, Resolved
  <2> QED BY <2>3, <2>4
<1>4. ASSUME NEW p \in Payments, PaymentStep(p) PROVE SlotActive(o)'
  BY <1>1, <1>4 DEF PaymentStep, Link, CreatePayment, UpdatePayment, DeletePayment
<1>5. ASSUME NEW m \in Months, NEW currency \in Currencies, ClosePeriod(m, currency)
      PROVE  SlotActive(o)'
  BY <1>1, <1>5 DEF ClosePeriod
<1>6. ASSUME MonthEnds PROVE SlotActive(o)'
  BY <1>1, <1>6 DEF MonthEnds
<1> QED BY <1>2, <1>3, <1>4, <1>5, <1>6, NextCases, ScheduleActive, RowActive, OccurrenceActive

(* ---------------------------------------------------------------------- *)
(* The invariant holds                                                     *)

LEMMA InitInv == Init => IInv
<1> SUFFICES ASSUME Init PROVE IInv OBVIOUS
<1>1. TypeOK BY InitType
<1>2. LinksMatch BY DEF Init, LinksMatch
<1>3. OriginKept BY DEF Init, OriginKept, NoVersions
<1>4. RequestsDated BY DEF Init, RequestsDated
<1>5. SourcesWereCreated /\ RowEditsArePlain /\ OpenPlanIsActive
  BY DEF Init, SourcesWereCreated, RowEditsArePlain, OpenPlanIsActive
<1> QED BY <1>1, <1>2, <1>3, <1>4, <1>5 DEF IInv

LEMMA NextInv == IInv /\ [Next]_vars => IInv'
<1> SUFFICES ASSUME IInv, [Next]_vars PROVE IInv' OBVIOUS
<1>1. CASE Next
  BY <1>1, NextType, NextLinks, NextOrigin, NextDated, NextSources, NextPlain, NextActive
  DEF IInv
<1>2. CASE UNCHANGED vars
  <2>1. (TypeOK /\ LinksMatch /\ OriginKept /\ RequestsDated)'
    BY <1>2 DEF vars, IInv, TypeOK, LinksMatch, Compatible, OriginKept, RequestsDated
  <2>2. (SourcesWereCreated /\ RowEditsArePlain)'
    BY <1>2 DEF vars, IInv, SourcesWereCreated, RowEditsArePlain, Exists
  <2>3. OpenPlanIsActive'
    BY <1>2 DEF vars, IInv, OpenPlanIsActive, Open, PeriodClosed, Exists, Resolved
  <2> QED BY <2>1, <2>2, <2>3 DEF IInv
<1> QED BY <1>1, <1>2

\* The inductive invariant holds of every behaviour, for every number of
\* operations, payments, requests and months.
THEOREM InvariantHolds == Spec => []IInv
<1>1. Init => IInv BY InitInv
<1>2. IInv /\ [Next]_vars => IInv' BY NextInv
<1> QED BY <1>1, <1>2, PTL DEF Spec

\* The tables and the requests in flight are always typed.
THEOREM TypeCorrect == Spec => []TypeOK
<1>1. IInv => TypeOK BY DEF IInv
<1> QED BY <1>1, InvariantHolds, PTL

\* A linked payment always matches the occurrence it is linked to.
THEOREM LinksAlwaysMatch == Spec => []LinksMatch
<1>1. IInv => LinksMatch BY DEF IInv
<1> QED BY <1>1, InvariantHolds, PTL

\* What an open month reserves is what the definition of the operation says is
\* active in it, whatever versions were scheduled, moved or archived and
\* whatever rows were edited between a check and its write.
THEOREM OpenPlansAreActive == Spec => []OpenPlanIsActive
<1>1. IInv => OpenPlanIsActive BY DEF IInv
<1> QED BY <1>1, InvariantHolds, PTL

(* ---------------------------------------------------------------------- *)
(* Dated edits leave the past and the later versions alone                 *)

\* What a schedule that was accepted leaves in the versions.
LEMMA ScheduleResult ==
  ASSUME TypeOK, NEW c \in Callers, Schedule(c), versions' # versions
  PROVE  /\ Exists(request[c].source)
         /\ \E d \in Definition :
              versions' = [versions EXCEPT ![request[c].source] =
                             WithVersion(request[c].source, request[c].target, d)]
<1> DEFINE s == request[c].source
           d == Merge(Resolved(s, request[c].target), request[c].change)
<1>1. request[c] \in Pending BY DEF TypeOK, Schedule
<1>2. /\ Exists(s)
      /\ versions' = [versions EXCEPT ![s] = WithVersion(s, request[c].target, d)]
  BY DEF Schedule
<1>3. d \in Definition BY <1>1, <1>2, ResolvedType, MergeType DEF Pending
<1> QED BY <1>2, <1>3

LEMMA StepKeepsPast ==
  ASSUME IInv, Next, NEW s \in Sources, Exists(s), Exists(s)', DOMAIN versions'[s] # {},
         NEW m \in Months, Settled(m)
  PROVE  ResolvedNext(s, m) = Resolved(s, m)
<1> USE DEF IInv
<1>1. CASE charge'[s] = charge[s] /\ versions'[s] = versions[s]
  BY <1>1 DEF Resolved, ResolvedNext
<1>2. ASSUME NEW c \in Callers, Begins(c) PROVE charge' = charge /\ versions' = versions
  BY <1>2, BeginsPending DEF Begin
<1>3. ASSUME NEW q \in Sources,
             \/ \E form \in EditForms : CreateFixed(q, form)
             \/ \E form \in EnvelopeForms : CreateEnvelope(q, form)
      PROVE  charge'[s] = charge[s] /\ versions' = versions
  BY <1>3 DEF CreateFixed, CreateEnvelope, Exists, TypeOK
<1>4. ASSUME NEW c \in Callers, EditRow(c) PROVE ResolvedNext(s, m) = Resolved(s, m)
  <2>1. versions' = versions /\ Origin \in DOMAIN versions[s] BY <1>4 DEF EditRow, OriginKept
  <2>2. Origin <= m BY EnvelopeAssumption DEF Origin, Months
  <2> QED BY <2>1, <2>2 DEF Resolved, ResolvedNext, Resolve
<1>5. ASSUME NEW c \in Callers, DeleteRow(c)
      PROVE  charge'[s] = charge[s] /\ versions'[s] = versions[s]
  <2>1. CASE request[c].source = s
    BY <1>5, <2>1 DEF DeleteRow, Exists, TypeOK
  <2>2. CASE request[c].source # s
    BY <1>5, <2>2 DEF DeleteRow, TypeOK
  <2> QED BY <2>1, <2>2
<1>6. ASSUME NEW c \in Callers, Schedule(c) PROVE ResolvedNext(s, m) = Resolved(s, m)
  <2>1. charge' = charge BY <1>6 DEF Schedule
  <2>2. CASE versions' = versions BY <2>1, <2>2 DEF Resolved, ResolvedNext
  <2>3. CASE versions' # versions
    <3>1. request[c] \in Pending /\ request[c] # NoRequest BY <1>6 DEF TypeOK, Schedule
    <3>2. PICK d \in Definition :
            versions' = [versions EXCEPT ![request[c].source] =
                           WithVersion(request[c].source, request[c].target, d)]
      BY <1>6, <2>3, ScheduleResult
    <3>3. m < request[c].target /\ request[c].target \in Months
      BY <3>1, EnvelopeAssumption DEF Settled, RequestsDated, Pending, Months
    <3>4. CASE request[c].source = s
      <4>1. versions'[s] = WithVersion(s, request[c].target, d) BY <3>2, <3>4 DEF TypeOK
      <4> QED BY <2>1, <3>3, <4>1, BeforeTheVersion DEF ResolvedNext
    <3>5. CASE request[c].source # s
      <4>1. versions'[s] = versions[s] BY <3>2, <3>5 DEF TypeOK
      <4> QED BY <2>1, <4>1 DEF Resolved, ResolvedNext
    <3> QED BY <3>4, <3>5
  <2> QED BY <2>2, <2>3
<1>7. ASSUME NEW i \in Months, NEW currency \in Currencies,
             Materialize(i, currency) \/ ClosePeriod(i, currency)
      PROVE  charge' = charge /\ versions' = versions
  BY <1>7 DEF Materialize, ClosePeriod
<1>8. ASSUME NEW o \in Slots, NEW planned \in Amounts, UpdateOccurrence(o, planned)
      PROVE  charge' = charge /\ versions' = versions
  BY <1>8 DEF UpdateOccurrence
<1>9. ASSUME NEW p \in Payments, PaymentStep(p) PROVE charge' = charge /\ versions' = versions
  BY <1>9 DEF PaymentStep, Link, CreatePayment, UpdatePayment, DeletePayment
<1>10. ASSUME MonthEnds PROVE charge' = charge /\ versions' = versions
  BY <1>10 DEF MonthEnds
<1> QED BY <1>1, <1>2, <1>3, <1>4, <1>5, <1>6, <1>7, <1>8, <1>9, <1>10, NextCases

\* No request changes the definition of a month that had ended before the
\* oldest request in flight began: dated edits are never retroactive.
THEOREM PastIsKept == Spec => PastDefinitionsKept
<1>1. ASSUME IInv, [Next]_vars
      PROVE  [\A s \in Sources :
                (Exists(s) /\ Exists(s)' /\ DOMAIN versions'[s] # {}) =>
                   \A m \in Months : Settled(m) => ResolvedNext(s, m) = Resolved(s, m)]_vars
  BY <1>1, StepKeepsPast
<1> QED BY <1>1, InvariantHolds, PTL DEF Spec, PastDefinitionsKept

\* A version scheduled for a later month survives every edit dated before it.
THEOREM LaterVersionsSurvive == Spec => LaterVersionsRespected
<1>1. ASSUME IInv, NEW c \in Callers, Schedule(c), NEW s \in {request[c].source},
             NEW k \in DOMAIN versions[s], k > request[c].target, NEW m \in Months, m >= k
      PROVE  ResolvedNext(s, m) = Resolved(s, m)
  <2>1. charge' = charge BY <1>1 DEF Schedule
  <2>2. CASE versions' = versions BY <2>1, <2>2 DEF Resolved, ResolvedNext
  <2>3. CASE versions' # versions
    <3>1. request[c] \in Pending BY <1>1 DEF TypeOK, Schedule, IInv
    <3>2. PICK d \in Definition :
            versions' = [versions EXCEPT ![s] = WithVersion(s, request[c].target, d)]
      BY <1>1, <2>3, ScheduleResult DEF IInv
    <3>3. s \in Sources /\ request[c].target \in Months BY <3>1, <1>1 DEF Pending
    <3>4. versions'[s] = WithVersion(s, request[c].target, d) BY <3>2, <3>3, <1>1 DEF TypeOK, IInv
    <3>5. request[c].target < k /\ k <= m
      BY <1>1, <3>3, EnvelopeAssumption DEF TypeOK, IInv, Months, Origin
    <3> QED BY <1>1, <2>1, <3>3, <3>4, <3>5, FromTheNextVersion DEF ResolvedNext, IInv
  <2> QED BY <2>2, <2>3
<1>2. ASSUME IInv, [Next]_vars
      PROVE  [\A c \in Callers :
                Schedule(c) =>
                   \A s \in {request[c].source} : \A k \in DOMAIN versions[s] :
                      k > request[c].target => \A m \in Months :
                         m >= k => ResolvedNext(s, m) = Resolved(s, m)]_vars
  BY <1>1, <1>2
<1> QED BY <1>2, InvariantHolds, PTL DEF Spec, LaterVersionsRespected

(* ---------------------------------------------------------------------- *)
(* The payments implement the register                                     *)

LEMMA RegisterInit == Init => Register!Init
BY DEF Init, Register!Init, SetAgainst, EnvelopeMonth

\* A step that leaves payments, links and the currency of what is linked
\* alone does not move the register.
LEMMA RegisterUnmoved ==
  ASSUME UNCHANGED <<payment, link>>,
         \A p \in Payments : link[p] # Unlinked => plan'[link[p]].currency = plan[link[p]].currency
  PROVE  UNCHANGED <<payment, SetAgainst>>
BY DEF SetAgainst, EnvelopeMonth

LEMMA RegisterRewrite ==
  ASSUME IInv, IInv', NEW p \in Payments, PaymentStep(p)
  PROVE  Register!Rewrite(p)
<1> USE DEF IInv
<1>1. month' = month /\ plan' = plan
  BY DEF PaymentStep, Link, CreatePayment, UpdatePayment, DeletePayment
<1>2. \A q \in Payments \ {p} : payment'[q] = payment[q] /\ link'[q] = link[q]
  BY DEF PaymentStep, Link, CreatePayment, UpdatePayment, DeletePayment, TypeOK
<1>3. \A q \in Payments \ {p} : SetAgainst'[q] = SetAgainst[q]
  BY <1>1, <1>2 DEF SetAgainst, EnvelopeMonth
<1>4. ASSUME link[p] # Unlinked PROVE link'[p] = link[p] \/ link[p][2] >= month
  <2>1. link[p] \in Slots /\ month \in Int /\ link[p][2] \in Int
    BY <1>4, EnvelopeAssumption DEF TypeOK, Slots, Months
  <2>2. Open(link[p]) => link[p][2] >= month BY <2>1 DEF Open, PeriodClosed
  <2>3. ASSUME NEW wanted \in Slots \union {Unlinked}, NEW expected \in Slots \union {Unlinked},
               Link(p, wanted, expected)
        PROVE  link'[p] = link[p] \/ link[p][2] >= month
    BY <1>4, <2>2, <2>3 DEF Link, LinkAccepted, TypeOK
  <2>4. ASSUME NEW pay \in PaymentForms, NEW wanted \in Slots \union {Unlinked, Omitted},
               CreatePayment(p, pay, wanted)
        PROVE  FALSE
    BY <1>4, <2>4 DEF CreatePayment, LinksMatch
  <2> QED BY <1>4, <2>2, <2>3, <2>4 DEF PaymentStep, UpdatePayment, DeletePayment, LinkStillOpen
<1>5. ASSUME link'[p] # Unlinked PROVE link'[p] = link[p] \/ link'[p][2] >= month
  <2>1. link'[p] \in Slots /\ month \in Int /\ link'[p][2] \in Int
    BY <1>5, EnvelopeAssumption DEF TypeOK, Slots, Months
  <2>2. Open(link'[p]) => link'[p][2] >= month BY <2>1 DEF Open, PeriodClosed
  <2>3. ASSUME NEW pay, NEW wanted, NEW expected,
               LinkAccepted(pay, link[p], wanted, expected), link'[p] = wanted
        PROVE  link'[p] = link[p] \/ link'[p][2] >= month
    BY <1>5, <2>2, <2>3 DEF LinkAccepted
  <2>4. ASSUME NEW wanted \in Slots \union {Unlinked}, NEW expected \in Slots \union {Unlinked},
               Link(p, wanted, expected)
        PROVE  link'[p] = link[p] \/ link'[p][2] >= month
    BY <2>3, <2>4 DEF Link, TypeOK
  <2>5. ASSUME NEW pay \in PaymentForms, NEW wanted \in Slots \union {Unlinked, Omitted},
               CreatePayment(p, pay, wanted)
        PROVE  link'[p] = link[p] \/ link'[p][2] >= month
    <3>1. link[p] = Unlinked BY <2>5 DEF CreatePayment, LinksMatch
    <3> QED BY <1>5, <2>3, <2>5, <3>1 DEF CreatePayment, TypeOK
  <2>6. ASSUME NEW pay \in PaymentForms, NEW wanted \in Slots \union {Unlinked, Omitted},
               NEW expected \in Slots \union {Unlinked}, UpdatePayment(p, pay, wanted, expected)
        PROVE  link'[p] = link[p] \/ link'[p][2] >= month
    BY <2>3, <2>6 DEF UpdatePayment, TypeOK
  <2>7. ~DeletePayment(p) BY <1>5 DEF DeletePayment, TypeOK
  <2> QED BY <2>4, <2>5, <2>6, <2>7 DEF PaymentStep
\* a payment that stays linked is itself unchanged once its month has ended
<1>6. ASSUME link[p] # Unlinked, ~(link[p][2] >= month) PROVE FALSE
  <2>1. link[p] \in Slots /\ month \in Int /\ link[p][2] \in Int
    BY <1>6, EnvelopeAssumption DEF TypeOK, Slots, Months
  <2>2. ~Open(link[p]) BY <1>6, <2>1 DEF Open, PeriodClosed
  <2>3. ASSUME NEW wanted \in Slots \union {Unlinked}, NEW expected \in Slots \union {Unlinked},
               Link(p, wanted, expected)
        PROVE  FALSE
    BY <1>6, <2>2, <2>3 DEF Link, LinkAccepted
  <2>4. ASSUME NEW pay \in PaymentForms, NEW wanted \in Slots \union {Unlinked, Omitted},
               CreatePayment(p, pay, wanted)
        PROVE  FALSE
    BY <1>6, <2>4 DEF CreatePayment, LinksMatch
  <2> QED BY <1>6, <2>2, <2>3, <2>4 DEF PaymentStep, UpdatePayment, DeletePayment, LinkStillOpen
<1>7. SetAgainst[p] # Unlinked =>
         link[p] # Unlinked /\ MonthOfEnvelope(SetAgainst[p]) = link[p][2]
  BY DEF SetAgainst, EnvelopeMonth, MonthOfEnvelope
<1>8. SetAgainst'[p] # Unlinked =>
         /\ link'[p] # Unlinked /\ MonthOfEnvelope(SetAgainst'[p]) = link'[p][2]
         /\ SetAgainst'[p].currency = plan[link'[p]].currency
         /\ SetAgainst'[p].slot = link'[p]
  BY <1>1 DEF SetAgainst, EnvelopeMonth, MonthOfEnvelope
<1>9. link'[p] # Unlinked => link'[p][2] >= month BY <1>5, <1>6
<1>10. SetAgainst'[p] # Unlinked =>
         payment'[p] # NoPayment /\ MatchesEnvelope(payment'[p], SetAgainst'[p])
  BY <1>1, <1>8 DEF LinksMatch, Compatible, MatchesEnvelope
<1> QED BY <1>1, <1>2, <1>3, <1>6, <1>7, <1>8, <1>9, <1>10
        DEF Register!Rewrite, Register!IsOpen

LEMMA RegisterNext ==
  ASSUME IInv, IInv', [Next]_vars
  PROVE  [Register!Next]_(Register!vars)
<1> USE DEF IInv
<1>1. ASSUME UNCHANGED <<month, payment, link>>,
             \A p \in Payments : link[p] # Unlinked =>
                plan'[link[p]].currency = plan[link[p]].currency
      PROVE  UNCHANGED Register!vars
  BY <1>1, RegisterUnmoved DEF Register!vars
<1>2. ASSUME UNCHANGED <<month, payment, link, plan>> PROVE UNCHANGED Register!vars
  BY <1>1, <1>2
<1>3. ASSUME NEW c \in Callers, Begins(c) \/ EditRow(c) \/ DeleteRow(c)
      PROVE  UNCHANGED <<month, payment, link, plan>>
  BY <1>3, BeginsPending DEF Begin, EditRow, DeleteRow
<1>4. ASSUME NEW s \in Sources,
             \/ \E form \in EditForms : CreateFixed(s, form)
             \/ \E form \in EnvelopeForms : CreateEnvelope(s, form)
      PROVE  UNCHANGED <<month, payment, link, plan>>
  BY <1>4 DEF CreateFixed, CreateEnvelope
<1>5. ASSUME NEW c \in Callers, Schedule(c) PROVE UNCHANGED Register!vars
  BY <1>1, <1>5, ScheduleKeepsLinkedPlans DEF Schedule
<1>6. ASSUME NEW m \in Months, NEW currency \in Currencies, Materialize(m, currency)
      PROVE  UNCHANGED Register!vars
  <2>1. \A p \in Payments : link[p] # Unlinked => plan'[link[p]] = plan[link[p]]
    BY <1>6 DEF Materialize, Missing, LinksMatch, TypeOK
  <2> QED BY <1>1, <1>6, <2>1 DEF Materialize
<1>7. ASSUME NEW m \in Months, NEW currency \in Currencies, ClosePeriod(m, currency)
      PROVE  UNCHANGED <<month, payment, link, plan>>
  BY <1>7 DEF ClosePeriod
<1>8. ASSUME NEW o \in Slots, NEW planned \in Amounts, UpdateOccurrence(o, planned)
      PROVE  UNCHANGED Register!vars
  <2>1. plan[o] \in Occurrence BY <1>8 DEF TypeOK, UpdateOccurrence
  <2>2. [plan[o] EXCEPT !.planned = planned].currency = plan[o].currency
    BY <2>1 DEF Occurrence
  <2>3. \A p \in Payments : link[p] # Unlinked =>
           plan'[link[p]].currency = plan[link[p]].currency
    BY <1>8, <2>2 DEF UpdateOccurrence, TypeOK
  <2> QED BY <1>1, <1>8, <2>3 DEF UpdateOccurrence
<1>9. ASSUME NEW p \in Payments, PaymentStep(p) PROVE Register!Next
  BY <1>9, RegisterRewrite DEF Register!Next
<1>10. ASSUME MonthEnds PROVE Register!MonthEnds
  <2>1. month' > month BY <1>10, EnvelopeAssumption DEF MonthEnds, TypeOK, Months
  <2>2. UNCHANGED <<payment, SetAgainst>>
    BY <1>10, RegisterUnmoved DEF MonthEnds
  <2> QED BY <2>1, <2>2 DEF Register!MonthEnds
<1>11. ASSUME UNCHANGED vars PROVE UNCHANGED <<month, payment, link, plan>>
  BY <1>11 DEF vars
<1> QED BY <1>2, <1>3, <1>4, <1>5, <1>6, <1>7, <1>8, <1>9, <1>10, <1>11, NextCases
        DEF Register!Next

\* The tables implement the register: a linked payment matches its
\* envelope and is frozen with its month.
THEOREM ImplementsRegister == Spec => RegisterSpec
<1>1. Init => Register!Init BY RegisterInit
<1>2. IInv /\ IInv' /\ [Next]_vars => [Register!Next]_(Register!vars) BY RegisterNext
<1> QED BY <1>1, <1>2, InvariantHolds, PTL DEF Spec, RegisterSpec, Register!Spec
=============================================================================
