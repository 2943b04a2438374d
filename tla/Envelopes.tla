------------------------------ MODULE Envelopes ------------------------------
(***************************************************************************)
(* Fixed charges and incomes, their dated versions, the monthly envelope   *)
(* occurrences materialised from them, and the one-off payments linked to  *)
(* an occurrence, for one owner.                                           *)
(*                                                                         *)
(* Everything that touches occurrences, links and payments runs in a       *)
(* transaction that first locks the owner's row: one action each.  The     *)
(* edit and the deletion of a fixed operation check first and write later, *)
(* the check outside that lock: two actions each, with anything in         *)
(* between.  A refused transaction is rolled back and leaves no trace.     *)
(***************************************************************************)
EXTENDS Integers, FiniteSets

CONSTANTS Charges, Incomes,  \* identifiers of the owner's fixed operations
          Payments,          \* identifiers of one-off operations
          Currencies, Amounts,
          LastMonth,         \* civil months are 0 .. LastMonth
          Horizon,           \* how far ahead a version may start (23 in the code)
          Callers,           \* concurrent requests on fixed operations
          EditForms,         \* bodies of PUT /charges and /revenus
          EnvelopeForms,     \* bodies of POST and PUT /budget-envelopes
          PaymentForms,      \* bodies of POST and PUT /operations
          MaxCalls,          \* bound on the writing requests of a behaviour
          Keep, Now, NotYet, Gone, NoOccurrence, NoPayment, Unlinked, Omitted, NoRequest

VARIABLES month,       \* the civil month
          charge,      \* canonical row of each fixed operation
          versions,    \* dated versions of each fixed operation, by month
          plan,        \* occurrence of each <<operation, month>>
          payment,     \* one-off operations
          link,        \* the occurrence each payment is linked to
          closed,      \* <<month, currency>> of the CLOSED budget periods
          request,     \* the fixed-operation request each caller has in flight
          calls

vars == <<month, charge, versions, plan, payment, link, closed, request, calls>>
-----------------------------------------------------------------------------
Sources == Charges \union Incomes
Months  == 0 .. LastMonth
Forever == LastMonth + 1
Origin  == -1                \* the version kept under 1970-01
Slots   == Sources \X Months
Kinds   == {"DEPENSE", "ENTREE"}

Definition == [amount: Amounts, currency: Currencies, monthly: BOOLEAN, envelope: BOOLEAN,
               from: Months, until: Months \union {Forever}, archived: BOOLEAN]
Occurrence == [currency: Currencies, planned: Amounts]
Payment    == [month: Months, currency: Currencies, kind: Kinds, amount: Amounts]

Change == [amount: Amounts \union {Keep}, currency: Currencies \union {Keep},
           monthly: BOOLEAN \union {Keep}, envelope: BOOLEAN \union {Keep},
           from: Months \union {Keep}, until: Months \union {Forever, Keep},
           archived: BOOLEAN \union {Keep}]
Pending == [step: {"schedule", "editRow", "deleteRow"}, source: Sources, change: Change,
            target: Months, today: Months]

ASSUME EnvelopeAssumption ==
  /\ LastMonth \in Nat /\ Horizon \in Nat /\ MaxCalls \in Nat
  /\ Amounts # {} /\ Currencies # {} /\ Charges \intersect Incomes = {}
  /\ EditForms \subseteq Change /\ EnvelopeForms \subseteq Change
  /\ PaymentForms \subseteq Payment
  /\ Keep \notin BOOLEAN /\ Keep \notin Amounts /\ Keep \notin Currencies /\ Keep \notin Int
  /\ {NotYet, Gone} \intersect Definition = {} /\ NotYet # Gone
  /\ NoOccurrence \notin Occurrence /\ NoPayment \notin Payment
  /\ Unlinked \notin Slots /\ Omitted \notin Slots \union {Unlinked}
  /\ NoRequest \notin Pending /\ Now \notin Months

Unchanged == [amount |-> Keep, currency |-> Keep, monthly |-> Keep, envelope |-> Keep,
              from |-> Keep, until |-> Keep, archived |-> Keep]
Archived == [Unchanged EXCEPT !.archived = TRUE]
Merge(d, change) == [f \in DOMAIN d |-> IF change[f] = Keep THEN d[f] ELSE change[f]]

Exists(s) == charge[s] \notin {NotYet, Gone}

\* the definition of a row that no form names a value for
Blank == [amount |-> CHOOSE a \in Amounts : TRUE, currency |-> CHOOSE x \in Currencies : TRUE,
          monthly |-> TRUE, envelope |-> FALSE, from |-> 0, until |-> Forever,
          archived |-> FALSE]

NoVersions == [k \in {} |-> Blank]
-----------------------------------------------------------------------------
(* Which definition applies *)

Applicable(vs, m) ==
  LET past == {k \in DOMAIN vs : k <= m} IN vs[CHOOSE k \in past : \A j \in past : j <= k]

Resolve(row, vs, m) == IF \E k \in DOMAIN vs : k <= m THEN Applicable(vs, m) ELSE row

Resolved(s, m) == Resolve(charge[s], versions[s], m)

Running(d, m) == ~d.archived /\ d.from <= m /\ m <= d.until

ActiveEnvelope(d, m) == Running(d, m) /\ d.envelope /\ d.monthly

FlagAllowed(s, d) == d.envelope => s \in Charges /\ d.monthly

ResolvedNext(s, m) == Resolve(charge'[s], versions'[s], m)

(* Which month is open, which payment fits an occurrence *)

PeriodClosed(m, currency) == m < month \/ <<m, currency>> \in closed

Open(o) == ~PeriodClosed(o[2], plan[o].currency)

Compatible(o, pay) ==
  /\ plan[o].currency = pay.currency
  /\ pay.kind = "DEPENSE"
  /\ o[2] = pay.month

EnvelopeSource(o) ==
  /\ Exists(o[1])
  /\ o[1] \in Charges
  /\ ActiveEnvelope(Resolved(o[1], o[2]), o[2])

Linked(o) == \E p \in Payments : link[p] = o
-----------------------------------------------------------------------------
Init ==
  /\ month = 0
  /\ charge = [s \in Sources |-> NotYet]
  /\ versions = [s \in Sources |-> NoVersions]
  /\ plan = [o \in Slots |-> NoOccurrence]
  /\ payment = [p \in Payments |-> NoPayment]
  /\ link = [p \in Payments |-> Unlinked]
  /\ closed = {}
  /\ request = [c \in Callers |-> NoRequest]
  /\ calls = 0

Call == calls < MaxCalls /\ calls' = calls + 1

(* Fixed operations ******************************************************)

CreateFixed(s, form) ==
  LET row == Merge(Blank, form) IN
  /\ charge[s] = NotYet
  /\ FlagAllowed(s, row)
  /\ charge' = [charge EXCEPT ![s] = row]
  /\ Call
  /\ UNCHANGED <<month, versions, plan, payment, link, closed, request>>

CreateEnvelope(s, form) ==
  /\ charge[s] = NotYet
  /\ s \in Charges
  /\ charge' = [charge EXCEPT ![s] = Merge([Blank EXCEPT !.envelope = TRUE], form)]
  /\ Call
  /\ UNCHANGED <<month, versions, plan, payment, link, closed, request>>

Begin(c, pending) ==
  /\ request[c] = NoRequest
  /\ request' = [request EXCEPT ![c] = pending]
  /\ Call
  /\ UNCHANGED <<month, charge, versions, plan, payment, link, closed>>
\* Fault: a version may start in a month that has ended
BeginScheduleAnyMonth(c, s, change, target) ==
  /\ target <= month + Horizon
  /\ Begin(c, [step |-> "schedule", source |-> s, change |-> change,
               target |-> target, today |-> month])

\* Today is read here, the lock is taken later.
BeginSchedule(c, s, change, target) ==
  /\ month <= target /\ target <= month + Horizon
  /\ Begin(c, [step |-> "schedule", source |-> s, change |-> change,
               target |-> target, today |-> month])

NeedsVersion(s, form, when) ==
  \/ charge[s].envelope
  \/ form.envelope = TRUE
  \/ when # Now
  \/ DOMAIN versions[s] # {}

BeginEdit(c, s, form, when) ==
  /\ Exists(s)
  /\ IF NeedsVersion(s, form, when)
     THEN BeginSchedule(c, s, form, IF when = Now THEN month ELSE when)
     ELSE Begin(c, [step |-> "editRow", source |-> s, change |-> form,
                    target |-> month, today |-> month])

BeginSaveEnvelope(c, s, form) ==
  /\ Exists(s) /\ s \in Charges
  /\ Resolved(s, month).envelope
  /\ ~Resolved(s, month).archived
  /\ BeginSchedule(c, s, [form EXCEPT !.envelope = TRUE], month)

BeginArchive(c, s) ==
  /\ Exists(s) /\ s \in Charges
  /\ Resolved(s, month).envelope
  /\ ~Resolved(s, month).archived
  /\ BeginSchedule(c, s, Archived, month)

DeletionRefused(s) ==
  /\ Resolved(s, month).envelope
  /\ \E m \in Months : m >= month /\ Linked(<<s, m>>)

BeginDelete(c, s) ==
  /\ Exists(s)
  /\ ~DeletionRefused(s)
  /\ Begin(c, [step |-> "deleteRow", source |-> s, change |-> Unchanged,
               target |-> month, today |-> month])

EditRow(c) ==
  /\ request[c] # NoRequest
  /\ request[c].step = "editRow"
  /\ LET s == request[c].source IN
     charge' = IF Exists(s)
               THEN [charge EXCEPT ![s] = Merge(charge[s], request[c].change)]
               ELSE charge
  /\ request' = [request EXCEPT ![c] = NoRequest]
  /\ UNCHANGED <<month, versions, plan, payment, link, closed, calls>>

\* Versions cascade with the row; occurrences and links have no key to it.
DeleteRow(c) ==
  /\ request[c] # NoRequest
  /\ request[c].step = "deleteRow"
  /\ LET s == request[c].source IN
     /\ charge' = [charge EXCEPT ![s] = Gone]
     /\ versions' = [versions EXCEPT ![s] = NoVersions]
  /\ request' = [request EXCEPT ![c] = NoRequest]
  /\ UNCHANGED <<month, plan, payment, link, closed, calls>>

(* Scheduling a version: one transaction under the owner's lock *)
\* Fault: versions dated after the new one are dropped
WithVersionAlone(s, target, d) ==
  LET dated == {k \in DOMAIN versions[s] \union {Origin, target} : k <= target} IN
  [k \in dated |-> IF k = target THEN d
                   ELSE IF k \in DOMAIN versions[s] THEN versions[s][k]
                   ELSE charge[s]]

\* Fault: the first dated edit does not keep the definition of the past
WithVersionOnly(s, target, d) ==
  [k \in DOMAIN versions[s] \union {target} |-> IF k = target THEN d ELSE versions[s][k]]

WithVersion(s, target, d) ==
  LET dated == DOMAIN versions[s] \union {Origin, target} IN
  [k \in dated |-> IF k = target THEN d
                   ELSE IF k \in DOMAIN versions[s] THEN versions[s][k]
                   ELSE charge[s]]
\* Fault: only the month of the edit is replanned
AffectedThatMonth(s, target) ==
  {o \in Slots : /\ o = <<s, target>>
                 /\ plan[o] # NoOccurrence
                 /\ <<o[2], plan[o].currency>> \notin closed}

Affected(s, target) ==
  {o \in Slots : /\ o[1] = s
                 /\ o[2] >= target
                 /\ plan[o] # NoOccurrence
                 /\ <<o[2], plan[o].currency>> \notin closed}
\* Fault: a linked occurrence may change currency
ScheduleAcceptedAnyCurrency(s, target, d, vs) ==
  /\ Exists(s)
  /\ FlagAllowed(s, d)
  /\ \A o \in Affected(s, target) :
        Linked(o) => ActiveEnvelope(Applicable(vs, o[2]), o[2])

ScheduleAccepted(s, target, d, vs) ==
  /\ Exists(s)
  /\ FlagAllowed(s, d)
  /\ \A o \in Affected(s, target) :
        Linked(o) => /\ ActiveEnvelope(Applicable(vs, o[2]), o[2])
                     /\ Applicable(vs, o[2]).currency = plan[o].currency

Replanned(o, d) == IF ActiveEnvelope(d, o[2])
                   THEN [currency |-> d.currency, planned |-> d.amount]
                   ELSE NoOccurrence

Schedule(c) ==
  /\ request[c] # NoRequest
  /\ request[c].step = "schedule"
  /\ LET s      == request[c].source
         target == request[c].target
         d      == Merge(Resolved(s, target), request[c].change)
         vs     == WithVersion(s, target, d)
     IN IF Exists(s) /\ ScheduleAccepted(s, target, d, vs)
        THEN /\ versions' = [versions EXCEPT ![s] = vs]
             /\ plan' = [o \in Slots |-> IF o \in Affected(s, target)
                                         THEN Replanned(o, Applicable(vs, o[2]))
                                         ELSE plan[o]]
        ELSE UNCHANGED <<versions, plan>>
  /\ request' = [request EXCEPT ![c] = NoRequest]
  /\ UNCHANGED <<month, charge, payment, link, closed, calls>>

(* Occurrences ***********************************************************)

\* Reading a month's occurrences, summary or suggestions creates what is missing.
Missing(m, currency) ==
  {o \in Slots : /\ o[2] = m
                 /\ plan[o] = NoOccurrence
                 /\ EnvelopeSource(o)
                 /\ Resolved(o[1], m).currency = currency}

Materialize(m, currency) ==
  /\ ~PeriodClosed(m, currency)
  /\ Missing(m, currency) # {}
  /\ plan' = [o \in Slots |-> IF o \in Missing(m, currency)
                              THEN [currency |-> currency, planned |-> Resolved(o[1], m).amount]
                              ELSE plan[o]]
  /\ UNCHANGED <<month, charge, versions, payment, link, closed, request, calls>>

UpdateOccurrence(o, planned) ==
  /\ plan[o] # NoOccurrence
  /\ Open(o)
  /\ plan' = [plan EXCEPT ![o] = [plan[o] EXCEPT !.planned = planned]]
  /\ Call
  /\ UNCHANGED <<month, charge, versions, payment, link, closed, request>>

(* Payments and their links **********************************************)

\* What applying a link answers for a payment now linked to current.
LinkAccepted(pay, current, wanted, expected) ==
  /\ wanted # Unlinked => plan[wanted] # NoOccurrence
  /\ current = expected \/ current = wanted
  /\ IF current = wanted
     THEN wanted # Unlinked => Compatible(wanted, pay)
     ELSE /\ current # Unlinked => Open(current)
          /\ wanted # Unlinked => /\ EnvelopeSource(wanted)
                                  /\ Open(wanted)
                                  /\ Compatible(wanted, pay)

Link(p, wanted, expected) ==
  /\ payment[p] # NoPayment
  /\ wanted # link[p]
  /\ LinkAccepted(payment[p], link[p], wanted, expected)
  /\ link' = [link EXCEPT ![p] = wanted]
  /\ Call
  /\ UNCHANGED <<month, charge, versions, plan, payment, closed, request>>

CreatePayment(p, pay, wanted) ==
  /\ payment[p] = NoPayment
  /\ wanted # Omitted => LinkAccepted(pay, Unlinked, wanted, Unlinked)
  /\ payment' = [payment EXCEPT ![p] = pay]
  /\ link' = IF wanted = Omitted THEN link ELSE [link EXCEPT ![p] = wanted]
  /\ Call
  /\ UNCHANGED <<month, charge, versions, plan, closed, request>>
\* Fault: the month of the link is not looked at
LinkAlwaysOpen(p) == TRUE

\* A linked payment may change only while its occurrence is open.
LinkStillOpen(p) == link[p] # Unlinked => Open(link[p])

UpdatePayment(p, pay, wanted, expected) ==
  /\ payment[p] # NoPayment
  /\ LinkStillOpen(p)
  /\ IF wanted = Omitted THEN link[p] # Unlinked => Compatible(link[p], pay)
                         ELSE LinkAccepted(pay, link[p], wanted, expected)
  /\ payment' = [payment EXCEPT ![p] = pay]
  /\ link' = IF wanted = Omitted THEN link ELSE [link EXCEPT ![p] = wanted]
  /\ Call
  /\ UNCHANGED <<month, charge, versions, plan, closed, request>>

DeletePayment(p) ==
  /\ payment[p] # NoPayment
  /\ LinkStillOpen(p)
  /\ payment' = [payment EXCEPT ![p] = NoPayment]
  /\ link' = [link EXCEPT ![p] = Unlinked]
  /\ Call
  /\ UNCHANGED <<month, charge, versions, plan, closed, request>>

(* Around them ***********************************************************)

\* The budget engine closes a period of a month that has ended.
ClosePeriod(m, currency) ==
  /\ m < month
  /\ <<m, currency>> \notin closed
  /\ closed' = closed \union {<<m, currency>>}
  /\ UNCHANGED <<month, charge, versions, plan, payment, link, request, calls>>

MonthEnds ==
  /\ month < LastMonth
  /\ month' = month + 1
  /\ UNCHANGED <<charge, versions, plan, payment, link, closed, request, calls>>

Next ==
  \/ \E s \in Sources, form \in EditForms : CreateFixed(s, form)
  \/ \E s \in Sources, form \in EnvelopeForms : CreateEnvelope(s, form)
  \/ \E c \in Callers, s \in Sources :
       \/ \E form \in EditForms, when \in Months \union {Now} : BeginEdit(c, s, form, when)
       \/ \E form \in EnvelopeForms : BeginSaveEnvelope(c, s, form)
       \/ BeginArchive(c, s)
       \/ BeginDelete(c, s)
  \/ \E c \in Callers : EditRow(c) \/ DeleteRow(c) \/ Schedule(c)
  \/ \E m \in Months, currency \in Currencies :
       Materialize(m, currency) \/ ClosePeriod(m, currency)
  \/ \E o \in Slots, planned \in Amounts : UpdateOccurrence(o, planned)
  \/ \E p \in Payments :
       \/ \E wanted, expected \in Slots \union {Unlinked} : Link(p, wanted, expected)
       \/ \E pay \in PaymentForms, wanted \in Slots \union {Unlinked, Omitted} :
            \/ CreatePayment(p, pay, wanted)
            \/ \E expected \in Slots \union {Unlinked} : UpdatePayment(p, pay, wanted, expected)
       \/ DeletePayment(p)
  \/ MonthEnds

Spec == Init /\ [][Next]_vars
-----------------------------------------------------------------------------
TypeOK ==
  /\ month \in Months
  /\ charge \in [Sources -> Definition \union {NotYet, Gone}]
  /\ DOMAIN versions = Sources
  /\ \A s \in Sources : /\ DOMAIN versions[s] \subseteq Months \union {Origin}
                        /\ \A k \in DOMAIN versions[s] : versions[s][k] \in Definition
  /\ plan \in [Slots -> Occurrence \union {NoOccurrence}]
  /\ payment \in [Payments -> Payment \union {NoPayment}]
  /\ link \in [Payments -> Slots \union {Unlinked}]
  /\ closed \subseteq Months \X Currencies
  /\ request \in [Callers -> Pending \union {NoRequest}]
  /\ calls \in 0 .. MaxCalls

\* A linked payment matches the occurrence it is linked to, whatever was
\* edited, rescheduled or reassigned since the link was made.
LinksMatch ==
  \A p \in Payments : link[p] # Unlinked =>
     /\ payment[p] # NoPayment
     /\ plan[link[p]] # NoOccurrence
     /\ Compatible(link[p], payment[p])

\* The first dated edit keeps the earlier definition, so an operation that
\* has versions has one for every month; a request is dated in a month that
\* had begun, and never before that date.
OriginKept == \A s \in Sources : DOMAIN versions[s] # {} => Origin \in DOMAIN versions[s]
RequestsDated ==
  \A c \in Callers : request[c] # NoRequest =>
     request[c].today <= month /\ request[c].today <= request[c].target

\* Occurrences and requests are about operations that were created; the one
\* edit of a row in place that the code lets through is that of a row which is
\* no envelope and does not become one.
SourcesWereCreated ==
  /\ \A o \in Slots : plan[o] # NoOccurrence => charge[o[1]] # NotYet
  /\ \A c \in Callers : request[c] # NoRequest => charge[request[c].source] # NotYet
RowEditsArePlain ==
  \A c \in Callers :
     (request[c] # NoRequest /\ request[c].step = "editRow") =>
        /\ request[c].change.envelope # TRUE
        /\ Exists(request[c].source) => ~charge[request[c].source].envelope

\* What is reserved in an open month is what its definition says is active:
\* an occurrence whose operation still exists is there only while that
\* operation is, for that month, a running envelope in the same currency,
\* whichever versions were scheduled, moved or archived around it.
OpenPlanIsActive ==
  \A o \in Slots :
     (plan[o] # NoOccurrence /\ Open(o) /\ Exists(o[1])) =>
        /\ ActiveEnvelope(Resolved(o[1], o[2]), o[2])
        /\ Resolved(o[1], o[2]).currency = plan[o].currency

\* The inductive invariant of the proofs.
IInv == /\ TypeOK /\ LinksMatch /\ OriginKept /\ RequestsDated
        /\ SourcesWereCreated /\ RowEditsArePlain /\ OpenPlanIsActive

\* Months that had ended before every request still in flight began.
Settled(m) == m < month /\ \A c \in Callers : request[c] # NoRequest => m < request[c].today

\* A dated edit has no retroactive effect: whatever a request does to an
\* operation that has versions, the definition of every month before the
\* month that request began in stays what it was.
PastDefinitionsKept ==
  [][\A s \in Sources :
        (Exists(s) /\ Exists(s)' /\ DOMAIN versions'[s] # {}) =>
           \A m \in Months : Settled(m) => ResolvedNext(s, m) = Resolved(s, m)]_vars

\* A later version already scheduled survives every edit dated before it.
LaterVersionsRespected ==
  [][\A c \in Callers :
        Schedule(c) =>
           \A s \in {request[c].source} : \A k \in DOMAIN versions[s] :
              k > request[c].target => \A m \in Months :
                 m >= k => ResolvedNext(s, m) = Resolved(s, m)]_vars

\* The payments and their envelopes, as the owner may rely on them.
EnvelopeMonth(p) == IF link[p] = Unlinked THEN Unlinked
                    ELSE [slot |-> link[p], currency |-> plan[link[p]].currency]
SetAgainst == [p \in Payments |-> EnvelopeMonth(p)]
MatchesEnvelope(pay, envelope) ==
  /\ pay.currency = envelope.currency
  /\ pay.kind = "DEPENSE"
  /\ pay.month = envelope.slot[2]
MonthOfEnvelope(envelope) == envelope.slot[2]

Register == INSTANCE PaymentRegister
  WITH today <- month, paid <- payment, against <- SetAgainst,
       Matches <- MatchesEnvelope, MonthOf <- MonthOfEnvelope, NoEnvelope <- Unlinked

\* Linked payments are frozen with their month and match their envelope
\* until then: the tables implement the register.
RegisterSpec == Register!Spec

\* An envelope with payments of an open month is not deleted under them.
OpenPaymentsKeepTheirEnvelope ==
  \A p \in Payments : (link[p] # Unlinked /\ Open(link[p])) => Exists(link[p][1])
=============================================================================
