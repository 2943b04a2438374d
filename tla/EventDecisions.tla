--------------------------- MODULE EventDecisions ---------------------------
(***************************************************************************)
(* The recurring events of one owner and the decisions on their dated      *)
(* occurrences: MonthlyEventUseCases and EventOccurrenceUseCases, their    *)
(* repositories and the maintenance of potential events.                   *)
(*                                                                         *)
(* A rule is CONFIRME, or POTENTIEL until it is confirmed, deleted or its  *)
(* first month is over.  An occurrence of a confirmed rule is realized (a  *)
(* one-off operation is created with the decision) or canceled, once.  Two *)
(* requests on one occurrence are told apart by a unique key.  Requests    *)
(* interleave at every repository call; a call that reads rules or one     *)
(* decision first runs the maintenance, in a transaction of its own.       *)
(*                                                                         *)
(* Abstractions.  Dates are months 1..LastMonth and rules recur monthly    *)
(* without end, so a rule has one occurrence in each month from its start. *)
(* Of a rule, a decision's snapshot, a command and an operation, the       *)
(* amount stands for all that is copied from one to the other (title,      *)
(* amount); categories exist and currencies agree.  A budget period is     *)
(* closed only in a month that is over (PeriodsInTime in BudgetPeriods), so *)
(* the period test of realize is the test of the month.  A command without *)
(* a date is one with the date of its occurrence.                          *)
(***************************************************************************)
EXTENDS Integers, FiniteSets

CONSTANTS
  Workers,      \* requests being served at once
  Events,       \* bound: identifiers of rules, never reused
  OpIds,        \* bound: identifiers of operations, never reused
  Amounts,      \* amounts of rules, commands and operations
  LastMonth,    \* bound: the last civil month of the model
  MaxRequests,  \* bound: requests started
  Requests,     \* which requests are made, a subset of RequestKinds
  Crashes,      \* TRUE when a request may die between two of its calls
  Default,      \* a command leaves the amount to the rule
  NoEvent,      \* an identifier no rule carries yet
  NoDecision,   \* no row: the occurrence is planned
  NoOp,         \* an identifier no operation carries yet; no linked operation
  NoInput,      \* the request carries no body
  Deleted       \* a rule or an operation that was deleted

Months == 1..LastMonth
Occurrences == Events \X Months
Statuses == {"CONFIRME", "POTENTIEL"}
Rule == [status : Statuses, start : Months, amount : Amounts]
Operation == [month : Months, amount : Amounts]
Command == [month : Months, amount : Amounts \cup {Default}]
Decision == [status : {"REALIZED", "CANCELED"}, amount : Amounts,
             operation : OpIds \cup {NoOp}]
RequestKinds ==
  {"create", "update", "delete", "confirm", "clear", "list", "realize",
   "cancel", "edit", "remove", "rollover"}

ASSUME BoundsAssumption == LastMonth \in Nat \ {0} /\ MaxRequests \in Nat
ASSUME RequestsAssumption == Requests \subseteq RequestKinds /\ Crashes \in BOOLEAN
ASSUME EventsAssumption == Events # {}
ASSUME SentinelAssumption ==
  /\ NoEvent \notin Rule /\ Deleted \notin Rule /\ NoEvent # Deleted
  /\ NoDecision \notin Decision
  /\ NoOp \notin Operation /\ Deleted \notin Operation /\ NoOp # Deleted
  /\ NoOp \notin OpIds
  /\ Default \notin Amounts

VARIABLES
  now,       \* civil month in Europe/Paris
  event,     \* the rules (EvenementMensuel)
  decision,  \* the decisions (EventOccurrenceResolution)
  ops,       \* the operations that realizations created
  pc,        \* the call each worker makes next
  due,       \* that call starts with the maintenance of potential events
  kind,      \* the request each worker serves
  target,    \* the occurrence it is about (the rule, for the other requests)
  input,     \* the command of a realization, the new rule of an update
  today,     \* civil month each worker read last
  seen,      \* the rule as each worker read it
  verdict,   \* the answer each worker is about to give
  started,   \* requests started (bounded by MaxRequests)
  realized,  \* history: the commands whose realization committed
  answered   \* history: the answers given to realizations and cancellations

db == <<now, event, decision, ops>>
history == <<realized, answered>>
vars == <<now, event, decision, ops, pc, due, kind, target, input, today,
          seen, verdict, started, realized, answered>>

-----------------------------------------------------------------------------
(* Rules and their occurrences.                                            *)

IsRule(e) == event[e] \in Rule
IsPotential(e) == IsRule(e) /\ event[e].status = "POTENTIEL"
IsConfirmed(e) == IsRule(e) /\ event[e].status = "CONFIRME"

\* Fault: expiry that forgets the status
ExpiredWhateverStatus(r, m) == r.start < m

\* MonthlyEvent.isExpired and potentialCutoff
Expired(r, m) == r.status = "POTENTIEL" /\ r.start < m

\* MonthlyEvent.occurrencesIn, for a monthly rule without end
Occurs(r, m) == r.start <= m

\* deletePotentialEvents: it locks the rules, deletes the decisions on them,
\* then the rules.
DeletePotential(gone) ==
  /\ event' = [e \in Events |-> IF e \in gone THEN Deleted ELSE event[e]]
  /\ decision' = [o \in Occurrences |->
                    IF o[1] \in gone THEN NoDecision ELSE decision[o]]

-----------------------------------------------------------------------------
(* Moving a worker from one call to the next.                              *)

Goto(w, call) ==
  /\ pc' = [pc EXCEPT ![w] = call]
  /\ UNCHANGED <<due, kind, target, input, today>>

\* The call begins with the maintenance, for which it reads the clock.
MaintainThen(w, call) ==
  /\ pc' = [pc EXCEPT ![w] = call]
  /\ due' = [due EXCEPT ![w] = TRUE]
  /\ today' = [today EXCEPT ![w] = now]
  /\ UNCHANGED <<kind, target, input>>

\* The request is over, answered or failed; its local variables are dropped.
Done(w) ==
  /\ pc' = [pc EXCEPT ![w] = "idle"]
  /\ due' = [due EXCEPT ![w] = FALSE]
  /\ kind' = [kind EXCEPT ![w] = "none"]
  /\ target' = [target EXCEPT ![w] = CHOOSE o \in Occurrences : TRUE]
  /\ input' = [input EXCEPT ![w] = NoInput]
  /\ today' = [today EXCEPT ![w] = 1]
  /\ seen' = [seen EXCEPT ![w] = NoEvent]
  /\ verdict' = [verdict EXCEPT ![w] = "none"]

\* A request arrives.  Its first call is made at once: when that is a read it
\* starts with the maintenance.
Begin(w, k, o, i, call, maintains) ==
  /\ pc[w] = "idle"
  /\ k \in Requests
  /\ started < MaxRequests
  /\ started' = started + 1
  /\ pc' = [pc EXCEPT ![w] = call]
  /\ due' = [due EXCEPT ![w] = maintains]
  /\ kind' = [kind EXCEPT ![w] = k]
  /\ target' = [target EXCEPT ![w] = o]
  /\ input' = [input EXCEPT ![w] = i]
  /\ today' = [today EXCEPT ![w] = now]
  /\ UNCHANGED <<now, event, decision, ops, seen, verdict, realized, answered>>

\* A worker makes the call it stands before, its maintenance being over.
At(w, call) == pc[w] = call /\ ~due[w]

-----------------------------------------------------------------------------
(* Requests.  Clients name rules that were created.                        *)

BeginCreate(w) ==
  \E r \in Rule, o \in Occurrences :
    /\ ~Expired(r, now)
    /\ Begin(w, "create", o, r, "insertEvent", FALSE)

BeginUpdate(w) ==
  \E o \in Occurrences, r \in Rule :
    /\ event[o[1]] # NoEvent
    /\ o[2] = 1
    /\ Begin(w, "update", o, r, "get", TRUE)

BeginOnRule(w) ==
  \E o \in Occurrences :
    /\ event[o[1]] # NoEvent
    /\ o[2] = 1
    /\ \/ Begin(w, "delete", o, NoInput, "deletePotential", TRUE)
       \/ Begin(w, "confirm", o, NoInput, "confirm", TRUE)

BeginOnAll(w) ==
  \E o \in Occurrences :
    /\ o = CHOOSE p \in Occurrences : TRUE
    /\ \/ Begin(w, "clear", o, NoInput, "clear", FALSE)
       \/ Begin(w, "list", o, NoInput, "reread", TRUE)

BeginDecision(w) ==
  \E o \in Occurrences :
    /\ event[o[1]] # NoEvent
    /\ \/ \E c \in Command : Begin(w, "realize", o, c, "find", TRUE)
       \/ Begin(w, "cancel", o, NoInput, "find", TRUE)

BeginRequest(w) ==
  \/ BeginCreate(w)
  \/ BeginUpdate(w)
  \/ BeginOnRule(w)
  \/ BeginOnAll(w)
  \/ BeginDecision(w)

-----------------------------------------------------------------------------
(* Rules.                                                                  *)

\* expirePotentialEvents, with the date read when the call was made
Maintain(w) ==
  /\ due[w]
  /\ DeletePotential({e \in Events : IsRule(e) /\ Expired(event[e], today[w])})
  /\ due' = [due EXCEPT ![w] = FALSE]
  /\ UNCHANGED <<now, ops, pc, kind, target, input, today, seen, verdict,
                 started, realized, answered>>

InsertEvent(w) ==
  /\ At(w, "insertEvent")
  /\ \E e \in Events :
       /\ event[e] = NoEvent
       /\ event' = [event EXCEPT ![e] = input[w]]
  /\ Done(w)
  /\ UNCHANGED <<now, decision, ops, started, realized, answered>>

\* MonthlyEventUseCases.update reads the rule: the status may not change, and
\* a potential rule may not move to a month that is over.
Get(w) ==
  LET e == target[w][1]
      accepted == /\ IsRule(e)
                  /\ input[w].status = event[e].status
                  /\ ~Expired(input[w], now)
  IN
  /\ At(w, "get")
  /\ \/ /\ accepted
        /\ Goto(w, "write")
        /\ seen' = [seen EXCEPT ![w] = event[e]]
        /\ UNCHANGED verdict
     \/ ~accepted /\ Done(w)
  /\ UNCHANGED <<now, event, decision, ops, started, realized, answered>>

\* Fault: an update by identifier and owner only
WriteAnyStatus(e, r) == IsRule(e)

\* PrismaMonthlyEventRepository.update, conditioned by the status read
WriteGuard(e, r) == IsRule(e) /\ event[e].status = r.status

Write(w) ==
  LET e == target[w][1] IN
  /\ At(w, "write")
  /\ \/ /\ WriteGuard(e, seen[w])
        /\ event' = [event EXCEPT ![e] = input[w]]
        /\ MaintainThen(w, "reread")
        /\ UNCHANGED <<seen, verdict>>
     \/ /\ ~WriteGuard(e, seen[w])
        /\ Done(w)
        /\ UNCHANGED event
  /\ UNCHANGED <<now, decision, ops, started, realized, answered>>

\* A read that only answers: a list, or the last call of update and confirm
Reread(w) ==
  /\ At(w, "reread")
  /\ Done(w)
  /\ UNCHANGED <<now, event, decision, ops, started, realized, answered>>

\* The date read before the maintenance also bounds the confirmation.
Confirm(w) ==
  LET e == target[w][1]
      confirmable == IsPotential(e) /\ ~Expired(event[e], today[w])
  IN
  /\ At(w, "confirm")
  /\ event' = IF confirmable
                THEN [event EXCEPT ![e] = [status |-> "CONFIRME",
                                           start |-> event[e].start,
                                           amount |-> event[e].amount]]
                ELSE event
  /\ MaintainThen(w, "reread")
  /\ UNCHANGED <<now, decision, ops, seen, verdict, started, realized, answered>>

\* PrismaMonthlyEventRepository.delete tries the rule as a potential one
\* first, then as a confirmed one.
DeleteIfPotential(w) ==
  LET e == target[w][1] IN
  /\ At(w, "deletePotential")
  /\ \/ /\ IsPotential(e)
        /\ DeletePotential({e})
        /\ Done(w)
     \/ /\ ~IsPotential(e)
        /\ Goto(w, "deleteConfirmed")
        /\ UNCHANGED <<event, decision, seen, verdict>>
  /\ UNCHANGED <<now, ops, started, realized, answered>>

DeleteIfConfirmed(w) ==
  LET e == target[w][1] IN
  /\ At(w, "deleteConfirmed")
  /\ event' = IF IsConfirmed(e) THEN [event EXCEPT ![e] = Deleted] ELSE event
  /\ Done(w)
  /\ UNCHANGED <<now, decision, ops, started, realized, answered>>

ClearPotential(w) ==
  /\ At(w, "clear")
  /\ DeletePotential({e \in Events : IsPotential(e)})
  /\ Done(w)
  /\ UNCHANGED <<now, ops, started, realized, answered>>

-----------------------------------------------------------------------------
(* Decisions.                                                              *)

\* The operation a realization asks for: what the command leaves out comes
\* from the snapshot of the decision, or from the rule.
OperationOf(c, default) ==
  [month |-> c.month, amount |-> IF c.amount = Default THEN default ELSE c.amount]

\* Faults: a replay that compares the command with the decision's snapshot,
\* and one that compares only the date
ReplaysSnapshot(d, o) ==
  /\ d.status = "REALIZED" /\ d.operation # NoOp
  /\ ops[d.operation].month = o.month /\ d.amount = o.amount

ReplaysDate(d, o) ==
  d.status = "REALIZED" /\ d.operation # NoOp /\ ops[d.operation].month = o.month

\* replayRealization compares the operation as it is now with the command's.
ReplaysRealization(d, o) ==
  d.status = "REALIZED" /\ d.operation # NoOp /\ ops[d.operation] = o

ReplaysCancellation(d) == d.status = "CANCELED"

\* The answer to a request that meets decision d.
VerdictOn(w, d, default) ==
  IF \/ kind[w] = "realize" /\ ReplaysRealization(d, OperationOf(input[w], default))
     \/ kind[w] = "cancel" /\ ReplaysCancellation(d)
    THEN "replayed"
    ELSE "refused"

Find(w) ==
  LET d == decision[target[w]] IN
  /\ At(w, "find")
  /\ \/ /\ d # NoDecision
        /\ Goto(w, "answer")
        /\ verdict' = [verdict EXCEPT ![w] = VerdictOn(w, d, d.amount)]
     \/ /\ d = NoDecision
        /\ MaintainThen(w, "snapshot")
        /\ UNCHANGED verdict
  /\ UNCHANGED <<now, event, decision, ops, seen, started, realized, answered>>

\* Fault: potential rules are decided upon like the others
MayDecideAny(e, m) == IsRule(e) /\ Occurs(event[e], m)

\* EVENT_NOT_FOUND, EVENT_NOT_CONFIRMED or OCCURRENCE_NOT_FOUND otherwise
MayDecide(e, m) == IsConfirmed(e) /\ Occurs(event[e], m)

Snapshot(w) ==
  LET e == target[w][1]
      m == target[w][2]
  IN
  /\ At(w, "snapshot")
  /\ \/ /\ MayDecide(e, m)
        /\ Goto(w, IF kind[w] = "realize" THEN "period" ELSE "insert")
        /\ seen' = [seen EXCEPT ![w] = event[e]]
        /\ UNCHANGED verdict
     \/ ~MayDecide(e, m) /\ Done(w)
  /\ UNCHANGED <<now, event, decision, ops, started, realized, answered>>

\* assertPeriodOpen: PERIOD_CLOSED for a month that is over
AssertPeriodOpen(w) ==
  /\ At(w, "period")
  /\ \/ input[w].month >= now /\ Goto(w, "insert") /\ UNCHANGED <<seen, verdict>>
     \/ input[w].month < now /\ Done(w)
  /\ UNCHANGED <<now, event, decision, ops, started, realized, answered>>

\* Fault: no unique key
AlwaysFree(o) == TRUE

\* The unique key on owner, rule and date
Free(o) == decision[o] = NoDecision

\* One transaction creates the operation and the decision; the unique key
\* undoes both when the occurrence was decided meanwhile.
InsertRealization(w) ==
  LET o == target[w] IN
  /\ At(w, "insert")
  /\ kind[w] = "realize"
  /\ \/ \E i \in OpIds :
          /\ Free(o)
          /\ ops[i] = NoOp
          /\ ops' = [ops EXCEPT ![i] = OperationOf(input[w], seen[w].amount)]
          /\ decision' = [decision EXCEPT ![o] =
                            [status |-> "REALIZED", amount |-> seen[w].amount,
                             operation |-> i]]
          /\ realized' = realized \cup
               {[occurrence |-> o, command |-> input[w], operation |-> ops'[i]]}
          /\ Goto(w, "answer")
          /\ verdict' = [verdict EXCEPT ![w] = "done"]
     \/ /\ ~Free(o)
        /\ MaintainThen(w, "refind")
        /\ UNCHANGED <<decision, ops, verdict, realized>>
  /\ UNCHANGED <<now, event, seen, started, answered>>

InsertCancellation(w) ==
  LET o == target[w] IN
  /\ At(w, "insert")
  /\ kind[w] = "cancel"
  /\ \/ /\ Free(o)
        /\ decision' = [decision EXCEPT ![o] =
                          [status |-> "CANCELED", amount |-> seen[w].amount,
                           operation |-> NoOp]]
        /\ Goto(w, "answer")
        /\ verdict' = [verdict EXCEPT ![w] = "done"]
     \/ /\ ~Free(o)
        /\ MaintainThen(w, "refind")
        /\ UNCHANGED <<decision, verdict>>
  /\ UNCHANGED <<now, event, ops, seen, started, realized, answered>>

\* The loser of a conflict reads the winner; the conflict is rethrown (500)
\* when there is none.
Refind(w) ==
  LET d == decision[target[w]] IN
  /\ At(w, "refind")
  /\ \/ /\ d # NoDecision
        /\ Goto(w, "answer")
        /\ verdict' = [verdict EXCEPT ![w] = VerdictOn(w, d, seen[w].amount)]
        /\ UNCHANGED seen
     \/ d = NoDecision /\ Done(w)
  /\ UNCHANGED <<now, event, decision, ops, started, realized, answered>>

Answer(w) ==
  /\ At(w, "answer")
  /\ answered' = answered \cup
       {[kind |-> kind[w], occurrence |-> target[w], command |-> input[w],
         answer |-> verdict[w]]}
  /\ Done(w)
  /\ UNCHANGED <<now, event, decision, ops, started, realized>>

-----------------------------------------------------------------------------
(* The operations of realizations, the clock and the process.              *)

EditOperation ==
  /\ "edit" \in Requests
  /\ \E i \in OpIds, o \in Operation :
       /\ ops[i] \in Operation
       /\ ops' = [ops EXCEPT ![i] = o]
  /\ UNCHANGED <<now, event, decision, pc, due, kind, target, input, today,
                 seen, verdict, started, realized, answered>>

\* Fault: a link without a foreign key
KeepLink(d, i) == d

\* The foreign key of a decision on its operation is set to null.
Unlink(d, i) ==
  IF d # NoDecision /\ d.operation = i
    THEN [status |-> d.status, amount |-> d.amount, operation |-> NoOp]
    ELSE d

RemoveOperation ==
  /\ "remove" \in Requests
  /\ \E i \in OpIds :
       /\ ops[i] \in Operation
       /\ ops' = [ops EXCEPT ![i] = Deleted]
       /\ decision' = [o \in Occurrences |-> Unlink(decision[o], i)]
  /\ UNCHANGED <<now, event, pc, due, kind, target, input, today, seen,
                 verdict, started, realized, answered>>

Rollover ==
  /\ "rollover" \in Requests
  /\ now < LastMonth
  /\ now' = now + 1
  /\ UNCHANGED <<event, decision, ops, pc, due, kind, target, input, today,
                 seen, verdict, started, realized, answered>>

\* A request dies between two calls: the process stops, or a call fails.
Crash(w) ==
  /\ Crashes
  /\ pc[w] # "idle"
  /\ Done(w)
  /\ UNCHANGED <<now, event, decision, ops, started, realized, answered>>

-----------------------------------------------------------------------------

\* The owner may have rules already, none of them decided upon.
Init ==
  /\ now = 1
  /\ event \in [Events -> Rule \cup {NoEvent}]
  /\ decision = [o \in Occurrences |-> NoDecision]
  /\ ops = [i \in OpIds |-> NoOp]
  /\ pc = [w \in Workers |-> "idle"]
  /\ due = [w \in Workers |-> FALSE]
  /\ kind = [w \in Workers |-> "none"]
  /\ target = [w \in Workers |-> CHOOSE o \in Occurrences : TRUE]
  /\ input = [w \in Workers |-> NoInput]
  /\ today = [w \in Workers |-> 1]
  /\ seen = [w \in Workers |-> NoEvent]
  /\ verdict = [w \in Workers |-> "none"]
  /\ started = 0
  /\ realized = {}
  /\ answered = {}

RuleStep(w) ==
  \/ Maintain(w)
  \/ InsertEvent(w)
  \/ Get(w)
  \/ Write(w)
  \/ Reread(w)
  \/ Confirm(w)
  \/ DeleteIfPotential(w)
  \/ DeleteIfConfirmed(w)
  \/ ClearPotential(w)

DecisionStep(w) ==
  \/ Find(w)
  \/ Snapshot(w)
  \/ AssertPeriodOpen(w)
  \/ InsertRealization(w)
  \/ InsertCancellation(w)
  \/ Refind(w)
  \/ Answer(w)

Next ==
  \/ \E w \in Workers :
       BeginRequest(w) \/ RuleStep(w) \/ DecisionStep(w) \/ Crash(w)
  \/ EditOperation
  \/ RemoveOperation
  \/ Rollover

Spec == Init /\ [][Next]_vars

-----------------------------------------------------------------------------
(* Properties.                                                             *)

Calls == {"idle", "insertEvent", "get", "write", "reread", "confirm",
          "deletePotential", "deleteConfirmed", "clear", "find", "snapshot",
          "period", "insert", "refind", "answer"}

\* Types of the state.
TypeOK ==
  /\ now \in Months
  /\ event \in [Events -> Rule \cup {NoEvent, Deleted}]
  /\ decision \in [Occurrences -> Decision \cup {NoDecision}]
  /\ ops \in [OpIds -> Operation \cup {NoOp, Deleted}]
  /\ pc \in [Workers -> Calls]
  /\ due \in [Workers -> BOOLEAN]
  /\ kind \in [Workers -> RequestKinds \cup {"none"}]
  /\ target \in [Workers -> Occurrences]
  /\ input \in [Workers -> Command \cup Rule \cup {NoInput}]
  /\ today \in [Workers -> Months]
  /\ seen \in [Workers -> Rule \cup {NoEvent}]
  /\ verdict \in [Workers -> {"none", "done", "replayed", "refused"}]
  /\ started \in 0..MaxRequests
  /\ realized \subseteq
       [occurrence : Occurrences, command : Command, operation : Operation]
  /\ answered \subseteq
       [kind : {"realize", "cancel"}, occurrence : Occurrences,
        command : Command \cup {NoInput},
        answer : {"done", "replayed", "refused"}]

\* The requests on occurrences, and what each call finds out about them.
DecidingCalls == {"find", "snapshot", "period", "insert", "refind", "answer"}

RequestShape(w) ==
  /\ pc[w] \in DecidingCalls =>
       \/ kind[w] = "realize" /\ input[w] \in Command
       \/ kind[w] = "cancel" /\ input[w] = NoInput /\ pc[w] # "period"
  /\ pc[w] \in {"insertEvent", "get", "write"} => input[w] \in Rule
  /\ pc[w] = "write" => seen[w] \in Rule /\ input[w].status = seen[w].status
  /\ pc[w] = "deletePotential" => event[target[w][1]] # NoEvent

\* Only a rule that was confirmed gets a decision, and none turns back.
Decidable(e) == event[e] = Deleted \/ IsConfirmed(e)

DecisionShape(w) ==
  /\ pc[w] \in {"period", "insert", "refind", "deleteConfirmed"} =>
       Decidable(target[w][1])
  /\ pc[w] \in {"period", "insert", "refind"} => seen[w] \in Rule
  /\ pc[w] \in {"refind", "answer"} => decision[target[w]] # NoDecision
  /\ pc[w] = "answer" =>
       /\ verdict[w] # "none"
       /\ verdict[w] # "refused" =>
            decision[target[w]].status =
              IF kind[w] = "realize" THEN "REALIZED" ELSE "CANCELED"

DecidedRules ==
  \A o \in Occurrences : decision[o] # NoDecision => Decidable(o[1])

\* Every operation a realization created and nobody deleted is the operation
\* of exactly one decision, a realization; a decision's operation exists; a
\* cancellation has none ("aucune seconde operation": the transaction of
\* PrismaOccurrenceResolutionRepository.realize and the SetNull key).
OperationsAreDecided ==
  /\ \A o \in Occurrences :
       (decision[o] # NoDecision /\ decision[o].operation # NoOp) =>
         /\ decision[o].status = "REALIZED"
         /\ ops[decision[o].operation] \in Operation
  /\ \A i \in OpIds : ops[i] \in Operation =>
       \E o \in Occurrences : decision[o] # NoDecision /\ decision[o].operation = i
  /\ \A o, p \in Occurrences :
       (/\ decision[o] # NoDecision /\ decision[p] # NoDecision
        /\ decision[o].operation = decision[p].operation
        /\ decision[o].operation # NoOp) => o = p

\* The loser of a conflict always finds the decision it lost to, so realize
\* and cancel never rethrow the conflict: no maintenance run between the
\* conflict and the second find takes the decision away.
ConflictHasWinner ==
  \A w \in Workers : pc[w] = "refind" => decision[target[w]] # NoDecision

\* Delete tries the rule as potential, then as confirmed: whatever runs in
\* between, the rule is not potential at the second try, so a delete that
\* answers EVENT_NOT_FOUND leaves no rule behind.
DeleteMissesNoRule ==
  \A w \in Workers : pc[w] = "deleteConfirmed" => ~IsPotential(target[w][1])

\* The inductive invariant
IInv ==
  /\ TypeOK
  /\ DecidedRules
  /\ OperationsAreDecided
  /\ \A w \in Workers : RequestShape(w) /\ DecisionShape(w)

\* A decision is final: it keeps its kind and its snapshot, whatever happens
\* to the rule, and loses its operation only when that is deleted; the
\* maintenance, which deletes the decisions of the rules it takes, never
\* takes one ("la decision survit a la suppression de la regle").
DecisionsAreFinal ==
  [][\A o \in Occurrences : decision[o] # NoDecision =>
       /\ decision'[o] # NoDecision
       /\ decision'[o].status = decision[o].status
       /\ decision'[o].amount = decision[o].amount
       /\ decision'[o].operation \in {decision[o].operation, NoOp}]_vars

\* A confirmed rule never becomes potential again, and only a delete takes it
\* away: neither an update that read it while it was potential nor a
\* maintenance that started before the confirmation undoes the confirmation.
ConfirmationIsFinal ==
  [][\A e \in Events : IsConfirmed(e) =>
       \/ IsConfirmed(e)'
       \/ /\ event'[e] = Deleted
          /\ \E w \in Workers : pc[w] = "deleteConfirmed" /\ target[w][1] = e]_vars

\* What was decided and what was answered, as the register sees them.
Decided ==
  [o \in Occurrences |-> IF decision[o] = NoDecision THEN "PLANNED"
                                                    ELSE decision[o].status]

AnswerOf(a) ==
  <<a.occurrence, IF a.answer = "refused" THEN "refused"
                  ELSE IF a.kind = "realize" THEN "REALIZED" ELSE "CANCELED">>

Answers == {AnswerOf(a) : a \in answered}

Register == INSTANCE OccurrenceRegister WITH decided <- Decided, answers <- Answers

\* Every run of the requests is a run of write-once registers.
RegisterSpec == Register!Spec

\* Repeating a realization that succeeded is never refused ("Repeter la meme
\* commande renvoie la resolution existante").
RepeatIsReplayed ==
  \A a \in answered, r \in realized :
    ~ /\ a.kind = "realize" /\ a.answer = "refused"
      /\ a.occurrence = r.occurrence /\ a.command = r.command

\* A realization is answered as a replay only when one that asked for the
\* same operation succeeded ("Identical command already succeeded").
ReplayHadSucceeded ==
  \A a \in answered :
    (a.kind = "realize" /\ a.answer = "replayed") =>
      \E r \in realized :
        /\ r.occurrence = a.occurrence
        /\ r.operation.month = a.command.month
        /\ a.command.amount \in {Default, r.operation.amount}

=============================================================================
