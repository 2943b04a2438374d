------------------------ MODULE EventDecisionsProofs ------------------------
(***************************************************************************)
(* Proofs about EventDecisions, for every number of requests, rules,       *)
(* operations, months and amounts: its variables are typed, decisions and  *)
(* confirmations are final, every operation a realization created belongs  *)
(* to its decision, the occurrences are write-once registers, and a        *)
(* repeated command is answered like the one that succeeded.               *)
(***************************************************************************)
EXTENDS EventScenarios, TLAPS

(* ---------------------------------------------------------------------- *)
(* What every step keeps.                                                  *)

\* Rules stay known and decidable, and decisions stay.
Keeps ==
  /\ \A e \in Events : event[e] # NoEvent => event'[e] # NoEvent
  /\ \A e \in Events : Decidable(e) => Decidable(e)'
  /\ \A o \in Occurrences : decision[o] # NoDecision =>
       /\ decision'[o] # NoDecision
       /\ decision'[o].status = decision[o].status
       /\ decision'[o].amount = decision[o].amount
       /\ decision'[o].operation \in {decision[o].operation, NoOp}

\* What the step proves of the tables
TablesKept == Keeps /\ DecidedRules' /\ OperationsAreDecided'

\* The step leaves worker v alone.
Untouched(v) ==
  /\ pc'[v] = pc[v] /\ kind'[v] = kind[v] /\ target'[v] = target[v]
  /\ input'[v] = input[v] /\ seen'[v] = seen[v] /\ verdict'[v] = verdict[v]

LocalTypes ==
  /\ pc \in [Workers -> Calls]
  /\ due \in [Workers -> BOOLEAN]
  /\ kind \in [Workers -> RequestKinds \cup {"none"}]
  /\ target \in [Workers -> Occurrences]
  /\ input \in [Workers -> Command \cup Rule \cup {NoInput}]
  /\ today \in [Workers -> Months]
  /\ seen \in [Workers -> Rule \cup {NoEvent}]
  /\ verdict \in [Workers -> {"none", "done", "replayed", "refused"}]

TableTypes ==
  /\ now \in Months
  /\ event \in [Events -> Rule \cup {NoEvent, Deleted}]
  /\ decision \in [Occurrences -> Decision \cup {NoDecision}]
  /\ ops \in [OpIds -> Operation \cup {NoOp, Deleted}]

HistoryTypes ==
  /\ started \in 0..MaxRequests
  /\ realized \subseteq
       [occurrence : Occurrences, command : Command, operation : Operation]
  /\ answered \subseteq
       [kind : {"realize", "cancel"}, occurrence : Occurrences,
        command : Command \cup {NoInput},
        answer : {"done", "replayed", "refused"}]

\* TypeOK in three parts.
LEMMA TypeParts == TypeOK <=> LocalTypes /\ TableTypes /\ HistoryTypes
BY DEF TypeOK, LocalTypes, TableTypes, HistoryTypes

\* A worker the step leaves alone keeps what it knows.
LEMMA UntouchedShape ==
  ASSUME NEW v \in Workers, IInv, Keeps, Untouched(v)
  PROVE  RequestShape(v)' /\ DecisionShape(v)'
<1>1. target[v] \in Occurrences /\ target[v][1] \in Events
  BY DEF IInv, TypeOK, Occurrences
<1>2. RequestShape(v) /\ DecisionShape(v)
  BY DEF IInv
<1>3. RequestShape(v)'
  BY <1>1, <1>2 DEF RequestShape, Untouched, Keeps
<1>4. DecisionShape(v)'
  <2>1. Decidable(target[v][1]) => Decidable(target[v][1])'
    BY <1>1 DEF Keeps, Untouched, Decidable, IsConfirmed, IsRule
  <2>2. decision[target[v]] # NoDecision =>
          /\ decision'[target'[v]] # NoDecision
          /\ decision'[target'[v]].status = decision[target[v]].status
    BY <1>1 DEF Keeps, Untouched
  <2> QED BY <1>2, <2>1, <2>2 DEF DecisionShape, Untouched
<1> QED BY <1>3, <1>4

\* Putting a step of worker w together.
LEMMA WorkerStep ==
  ASSUME NEW w \in Workers, IInv, TypeOK', TablesKept,
         RequestShape(w)', DecisionShape(w)',
         \A v \in Workers \ {w} : Untouched(v)
  PROVE  IInv' /\ Keeps
<1>1. \A v \in Workers \ {w} : RequestShape(v)' /\ DecisionShape(v)'
  BY UntouchedShape DEF TablesKept
<1> QED BY <1>1 DEF IInv, TablesKept

\* A step that writes none of the tables keeps them.
LEMMA SameTables ==
  ASSUME IInv, UNCHANGED <<event, decision, ops>>
  PROVE  TablesKept
<1>1. Keeps
  BY DEF Keeps, Decidable, IsConfirmed, IsRule
<1>2. DecidedRules'
  BY DEF IInv, DecidedRules, Decidable, IsConfirmed, IsRule
<1>3. OperationsAreDecided'
  BY DEF IInv, OperationsAreDecided
<1> QED BY <1>1, <1>2, <1>3 DEF TablesKept

\* A step that writes only rules keeps the tables when decidable rules stay
\* decidable and known rules known.
LEMMA OnlyRules ==
  ASSUME IInv, UNCHANGED <<decision, ops>>,
         \A e \in Events : event[e] # NoEvent => event'[e] # NoEvent,
         \A e \in Events : Decidable(e) => Decidable(e)'
  PROVE  TablesKept
<1>1. Keeps
  BY DEF Keeps
<1>2. DecidedRules'
  <2> SUFFICES ASSUME NEW o \in Occurrences, decision'[o] # NoDecision
               PROVE  Decidable(o[1])'
    BY DEF DecidedRules, Decidable, IsConfirmed, IsRule
  <2>1. o[1] \in Events
    BY DEF Occurrences
  <2> QED BY <2>1 DEF IInv, DecidedRules
<1>3. OperationsAreDecided'
  BY DEF IInv, OperationsAreDecided
<1> QED BY <1>1, <1>2, <1>3 DEF TablesKept

\* Deleting potential rules takes no decision: they have none.
LEMMA PotentialUndecided ==
  ASSUME IInv, NEW gone \in SUBSET Events, \A e \in gone : IsPotential(e),
         DeletePotential(gone), UNCHANGED ops
  PROVE  /\ decision' = decision
         /\ event' \in [Events -> Rule \cup {NoEvent, Deleted}]
         /\ TablesKept
<1>1. decision' = decision
  <2>1. \A o \in Occurrences : o[1] \in Events
    BY DEF Occurrences
  <2>2. \A e \in gone : ~Decidable(e)
    BY SentinelAssumption DEF IsPotential, Decidable, IsConfirmed, IsRule
  <2>3. \A o \in Occurrences : o[1] \in gone => decision[o] = NoDecision
    BY <2>1, <2>2 DEF IInv, DecidedRules
  <2> QED BY <2>3 DEF DeletePotential, IInv, TypeOK
<1>2. event' \in [Events -> Rule \cup {NoEvent, Deleted}]
  BY DEF DeletePotential, IInv, TypeOK
<1>3. \A e \in Events : event[e] # NoEvent => event'[e] # NoEvent
  BY SentinelAssumption DEF DeletePotential
<1>4. \A e \in Events : Decidable(e) => Decidable(e)'
  BY DEF DeletePotential, Decidable, IsConfirmed, IsRule
<1> QED BY <1>1, <1>2, <1>3, <1>4, OnlyRules

(* ---------------------------------------------------------------------- *)
(* What moving a worker does.                                              *)

\* There is an occurrence to reset a worker's target to.
LEMMA SomeOccurrence == (CHOOSE o \in Occurrences : TRUE) \in Occurrences
<1>1. Events # {} /\ 1 \in Months
  BY EventsAssumption, BoundsAssumption DEF Months
<1>2. PICK e \in Events : TRUE
  BY <1>1
<1>3. <<e, 1>> \in Occurrences
  BY <1>1 DEF Occurrences
<1> QED BY <1>3

\* A request that is over knows nothing.
LEMMA DoneFacts ==
  ASSUME NEW w \in Workers, LocalTypes, Done(w)
  PROVE  /\ LocalTypes'
         /\ RequestShape(w)' /\ DecisionShape(w)'
         /\ \A v \in Workers \ {w} : Untouched(v)
<1>1. LocalTypes'
  <2>1. 1 \in Months
    BY BoundsAssumption DEF Months
  <2> QED BY <2>1, SomeOccurrence DEF Done, LocalTypes, Calls, RequestKinds
<1>2. pc'[w] = "idle"
  BY DEF LocalTypes, Done
<1>3. RequestShape(w)' /\ DecisionShape(w)'
  BY <1>2 DEF RequestShape, DecisionShape, DecidingCalls
<1>4. \A v \in Workers \ {w} : Untouched(v)
  BY DEF Done, LocalTypes, Untouched
<1> QED BY <1>1, <1>3, <1>4

\* A step that ends a request.
LEMMA EndStep ==
  ASSUME NEW w \in Workers, IInv, Done(w), TableTypes', HistoryTypes', TablesKept
  PROVE  IInv' /\ Keeps
<1>1. LocalTypes
  BY TypeParts DEF IInv
<1>2. LocalTypes' /\ RequestShape(w)' /\ DecisionShape(w)'
  BY <1>1, DoneFacts
<1>3. \A v \in Workers \ {w} : Untouched(v)
  BY <1>1, DoneFacts
<1>4. TypeOK'
  BY <1>2 DEF TypeOK, LocalTypes, TableTypes, HistoryTypes
<1> QED BY <1>2, <1>3, <1>4, WorkerStep

\* A step that moves worker w and writes no table.
LEMMA MoveStep ==
  ASSUME NEW w \in Workers, IInv, UNCHANGED db, HistoryTypes', LocalTypes',
         RequestShape(w)', DecisionShape(w)',
         \A v \in Workers \ {w} : Untouched(v)
  PROVE  IInv' /\ Keeps
<1>1. TableTypes'
  BY DEF IInv, TypeOK, TableTypes, db
<1>2. TypeOK'
  BY <1>1 DEF TypeOK, LocalTypes, TableTypes, HistoryTypes
<1>3. TablesKept
  BY SameTables DEF db
<1> QED BY <1>2, <1>3, WorkerStep

(* ---------------------------------------------------------------------- *)
(* One lemma per action: it preserves the invariant.                       *)

FirstCalls == {"insertEvent", "get", "deletePotential", "confirm", "clear",
               "reread", "find"}

\* A request begins.
LEMMA BeginStep ==
  ASSUME NEW w \in Workers, NEW k \in RequestKinds, NEW o \in Occurrences,
         NEW i \in Command \cup Rule \cup {NoInput}, NEW call \in FirstCalls,
         NEW maintains \in BOOLEAN, IInv, Begin(w, k, o, i, call, maintains),
         call \in {"insertEvent", "get"} => i \in Rule,
         call = "find" => \/ k = "realize" /\ i \in Command
                          \/ k = "cancel" /\ i = NoInput,
         call = "deletePotential" => event[o[1]] # NoEvent
  PROVE  IInv' /\ Keeps
<1>1. LocalTypes'
  BY DEF Begin, IInv, TypeOK, LocalTypes, Calls, FirstCalls
<1>2. HistoryTypes'
  <2>1. started' \in 0..MaxRequests
    BY BoundsAssumption DEF Begin, IInv, TypeOK
  <2> QED BY <2>1 DEF Begin, IInv, TypeOK, HistoryTypes
<1>3. /\ pc'[w] = call /\ kind'[w] = k /\ target'[w] = o /\ input'[w] = i
      /\ UNCHANGED db
  BY DEF Begin, IInv, TypeOK, db
<1>4. RequestShape(w)' /\ DecisionShape(w)'
  BY <1>3 DEF RequestShape, DecisionShape, DecidingCalls, FirstCalls, db
<1>5. \A v \in Workers \ {w} : Untouched(v)
  BY DEF Begin, IInv, TypeOK, Untouched
<1> QED BY <1>1, <1>2, <1>3, <1>4, <1>5, MoveStep

LEMMA BeginRequestStep ==
  ASSUME NEW w \in Workers, IInv, BeginRequest(w)
  PROVE  IInv' /\ Keeps
<1>1. CASE BeginCreate(w)
  BY <1>1, BeginStep DEF BeginCreate, FirstCalls, RequestKinds
<1>2. CASE BeginUpdate(w)
  BY <1>2, BeginStep DEF BeginUpdate, FirstCalls, RequestKinds
<1>3. CASE BeginOnRule(w)
  BY <1>3, BeginStep DEF BeginOnRule, FirstCalls, RequestKinds
<1>4. CASE BeginOnAll(w)
  BY <1>4, BeginStep DEF BeginOnAll, FirstCalls, RequestKinds
<1>5. CASE BeginDecision(w)
  BY <1>5, BeginStep DEF BeginDecision, FirstCalls, RequestKinds
<1> QED BY <1>1, <1>2, <1>3, <1>4, <1>5 DEF BeginRequest

LEMMA MaintainStep ==
  ASSUME NEW w \in Workers, IInv, Maintain(w)
  PROVE  IInv' /\ Keeps
<1> DEFINE gone == {e \in Events : IsRule(e) /\ Expired(event[e], today[w])}
<1>1. /\ decision' = decision
      /\ event' \in [Events -> Rule \cup {NoEvent, Deleted}]
      /\ TablesKept
  <2>1. \A e \in gone : IsPotential(e)
    BY DEF IsPotential, Expired
  <2>2. gone \in SUBSET Events
    OBVIOUS
  <2>3. DeletePotential(gone) /\ UNCHANGED ops
    BY DEF Maintain
  <2> HIDE DEF gone
  <2> QED BY <2>1, <2>2, <2>3, PotentialUndecided
<1>2. TypeOK'
  BY <1>1 DEF Maintain, IInv, TypeOK
<1>3. \A v \in Workers : Untouched(v)
  BY DEF Maintain, Untouched
<1>4. RequestShape(w)' /\ DecisionShape(w)'
  BY <1>1, <1>3, UntouchedShape DEF TablesKept
<1> QED BY <1>1, <1>2, <1>3, <1>4, WorkerStep

LEMMA InsertEventStep ==
  ASSUME NEW w \in Workers, IInv, InsertEvent(w)
  PROVE  IInv' /\ Keeps
<1>1. PICK e \in Events : event[e] = NoEvent /\ event' = [event EXCEPT ![e] = input[w]]
  BY DEF InsertEvent
<1>2. input[w] \in Rule
  BY DEF InsertEvent, At, IInv, RequestShape
<1>3. TablesKept
  <2>1. \A f \in Events : event[f] # NoEvent => event'[f] # NoEvent
    BY <1>1, <1>2 DEF IInv, TypeOK
  <2>2. \A f \in Events : Decidable(f) => f # e
    BY <1>1, SentinelAssumption DEF Decidable, IsConfirmed, IsRule
  <2>3. \A f \in Events : Decidable(f) => Decidable(f)'
    BY <1>1, <2>2 DEF Decidable, IsConfirmed, IsRule, IInv, TypeOK
  <2> QED BY <2>1, <2>3, OnlyRules DEF InsertEvent
<1>4. TableTypes' /\ HistoryTypes'
  BY <1>1, <1>2 DEF InsertEvent, IInv, TypeOK, TableTypes, HistoryTypes
<1> QED BY <1>3, <1>4, EndStep DEF InsertEvent

LEMMA GetStep ==
  ASSUME NEW w \in Workers, IInv, Get(w)
  PROVE  IInv' /\ Keeps
<1>1. HistoryTypes' /\ TableTypes' /\ TablesKept
  BY SameTables DEF Get, IInv, TypeOK, HistoryTypes, TableTypes
<1>2. CASE Done(w)
  BY <1>1, <1>2, EndStep
<1>3. CASE ~Done(w)
  <2> DEFINE e == target[w][1]
  <2>1. /\ IsRule(e) /\ input[w].status = event[e].status
        /\ Goto(w, "write") /\ seen' = [seen EXCEPT ![w] = event[e]]
        /\ UNCHANGED <<event, decision, ops, verdict>>
    BY <1>3 DEF Get
  <2>2. input[w] \in Rule
    BY DEF Get, At, IInv, RequestShape
  <2>3. e \in Events /\ event[e] \in Rule
    BY <2>1 DEF IInv, TypeOK, Occurrences, IsRule
  <2> HIDE DEF e
  <2>4. LocalTypes'
    BY <2>1, <2>3 DEF Goto, IInv, TypeOK, LocalTypes, Calls
  <2>5. pc'[w] = "write" /\ input'[w] = input[w] /\ seen'[w] = event[e]
    BY <2>1 DEF Goto, IInv, TypeOK
  <2>6. RequestShape(w)' /\ DecisionShape(w)'
    BY <2>1, <2>2, <2>3, <2>5 DEF RequestShape, DecisionShape, DecidingCalls
  <2>7. \A v \in Workers \ {w} : Untouched(v)
    BY <2>1 DEF Goto, IInv, TypeOK, Untouched
  <2>8. UNCHANGED db
    BY DEF Get, db
  <2> QED BY <1>1, <2>4, <2>6, <2>7, <2>8, MoveStep
<1> QED BY <1>2, <1>3

LEMMA WriteStep ==
  ASSUME NEW w \in Workers, IInv, Write(w)
  PROVE  IInv' /\ Keeps
<1> DEFINE e == target[w][1]
<1>1. HistoryTypes'
  BY DEF Write, IInv, TypeOK, HistoryTypes
<1>2. CASE ~WriteGuard(e, seen[w])
  <2>1. Done(w) /\ UNCHANGED <<now, event, decision, ops>>
    BY <1>2 DEF Write
  <2>2. TableTypes' /\ TablesKept
    BY <2>1, SameTables DEF IInv, TypeOK, TableTypes
  <2> QED BY <1>1, <2>1, <2>2, EndStep
<1>3. CASE WriteGuard(e, seen[w])
  <2>1. /\ event' = [event EXCEPT ![e] = input[w]]
        /\ MaintainThen(w, "reread")
        /\ UNCHANGED <<now, decision, ops, seen, verdict>>
    BY <1>3 DEF Write
  <2>2. input[w] \in Rule /\ seen[w] \in Rule /\ input[w].status = seen[w].status
    BY DEF Write, At, IInv, RequestShape
  <2>3. e \in Events
    BY DEF IInv, TypeOK, Occurrences
  <2>4. event[e] \in Rule /\ event[e].status = input[w].status
    BY <1>3, <2>2 DEF WriteGuard, IsRule
  <2> HIDE DEF e
  <2>5. event'[e] = input[w] /\ \A f \in Events \ {e} : event'[f] = event[f]
    BY <2>1, <2>3 DEF IInv, TypeOK
  <2>6. TablesKept
    <3>1. \A f \in Events : event[f] # NoEvent => event'[f] # NoEvent
      BY <2>2, <2>5, SentinelAssumption
    <3>2. \A f \in Events : Decidable(f) => Decidable(f)'
      BY <2>2, <2>4, <2>5, SentinelAssumption DEF Decidable, IsConfirmed, IsRule
    <3> QED BY <2>1, <3>1, <3>2, OnlyRules
  <2>7. TypeOK'
    <3>1. TableTypes'
      BY <2>1, <2>2 DEF IInv, TypeOK, TableTypes
    <3>2. LocalTypes'
      BY <2>1 DEF MaintainThen, IInv, TypeOK, LocalTypes, Calls
    <3> QED BY <1>1, <3>1, <3>2 DEF TypeOK, LocalTypes, TableTypes, HistoryTypes
  <2>8. pc'[w] = "reread"
    BY <2>1 DEF MaintainThen, IInv, TypeOK
  <2>9. RequestShape(w)' /\ DecisionShape(w)'
    BY <2>8 DEF RequestShape, DecisionShape, DecidingCalls
  <2>10. \A v \in Workers \ {w} : Untouched(v)
    BY <2>1 DEF MaintainThen, IInv, TypeOK, Untouched
  <2> QED BY <2>6, <2>7, <2>9, <2>10, WorkerStep
<1> QED BY <1>2, <1>3

LEMMA ConfirmStep ==
  ASSUME NEW w \in Workers, IInv, Confirm(w)
  PROVE  IInv' /\ Keeps
<1> DEFINE e == target[w][1]
           r == [status |-> "CONFIRME", start |-> event[e].start,
                 amount |-> event[e].amount]
           confirmable == IsPotential(e) /\ ~Expired(event[e], today[w])
<1>1. e \in Events
  BY DEF IInv, TypeOK, Occurrences
<1>2. /\ event' \in [Events -> Rule \cup {NoEvent, Deleted}]
      /\ \A f \in Events : event[f] # NoEvent => event'[f] # NoEvent
      /\ \A f \in Events : Decidable(f) => Decidable(f)'
  <2>1. CASE confirmable
    <3>1. event' = [event EXCEPT ![e] = r]
      BY <2>1 DEF Confirm
    <3>2. r \in Rule /\ r.status = "CONFIRME"
      BY <2>1 DEF IsPotential, IsRule, Rule, Statuses
    <3> HIDE DEF e, r
    <3>3. event'[e] = r /\ \A f \in Events \ {e} : event'[f] = event[f]
      BY <1>1, <3>1 DEF IInv, TypeOK
    <3>4. event' \in [Events -> Rule \cup {NoEvent, Deleted}]
      BY <3>1, <3>2 DEF IInv, TypeOK
    <3>5. \A f \in Events : event[f] # NoEvent => event'[f] # NoEvent
      BY <3>2, <3>3, SentinelAssumption
    <3>6. \A f \in Events : Decidable(f) => Decidable(f)'
      BY <3>2, <3>3 DEF Decidable, IsConfirmed, IsRule
    <3> QED BY <3>4, <3>5, <3>6
  <2>2. CASE ~confirmable
    <3>1. event' = event
      BY <2>2 DEF Confirm
    <3> QED BY <3>1 DEF IInv, TypeOK, Decidable, IsConfirmed, IsRule
  <2> QED BY <2>1, <2>2
<1>4. TablesKept /\ event' \in [Events -> Rule \cup {NoEvent, Deleted}]
  BY <1>2, OnlyRules DEF Confirm
<1>5. TypeOK'
  BY <1>4 DEF Confirm, MaintainThen, IInv, TypeOK, Calls
<1>6. pc'[w] = "reread"
  BY DEF Confirm, MaintainThen, IInv, TypeOK
<1>7. RequestShape(w)' /\ DecisionShape(w)'
  BY <1>6 DEF RequestShape, DecisionShape, DecidingCalls
<1>8. \A v \in Workers \ {w} : Untouched(v)
  BY DEF Confirm, MaintainThen, IInv, TypeOK, Untouched
<1> QED BY <1>4, <1>5, <1>7, <1>8, WorkerStep

\* A read that only answers, or a request that dies.
LEMMA RereadStep ==
  ASSUME NEW w \in Workers, IInv, Reread(w) \/ Crash(w)
  PROVE  IInv' /\ Keeps
<1>1. Done(w) /\ UNCHANGED <<now, event, decision, ops, started, realized, answered>>
  BY DEF Reread, Crash
<1>2. TableTypes' /\ HistoryTypes' /\ TablesKept
  BY <1>1, SameTables DEF IInv, TypeOK, TableTypes, HistoryTypes
<1> QED BY <1>1, <1>2, EndStep

LEMMA DeleteIfPotentialStep ==
  ASSUME NEW w \in Workers, IInv, DeleteIfPotential(w)
  PROVE  IInv' /\ Keeps
<1> DEFINE e == target[w][1]
<1>1. e \in Events
  BY DEF IInv, TypeOK, Occurrences
<1>2. HistoryTypes'
  BY DEF DeleteIfPotential, IInv, TypeOK, HistoryTypes
<1>3. CASE IsPotential(e)
  <2>1. DeletePotential({e}) /\ Done(w) /\ UNCHANGED <<now, ops>>
    BY <1>3 DEF DeleteIfPotential
  <2> HIDE DEF e
  <2>2. TablesKept /\ TableTypes'
    BY <1>1, <1>3, <2>1, PotentialUndecided DEF IInv, TypeOK, TableTypes
  <2> QED BY <1>2, <2>1, <2>2, EndStep
<1>4. CASE ~IsPotential(e)
  <2>1. /\ Goto(w, "deleteConfirmed")
        /\ UNCHANGED <<now, event, decision, ops, seen, verdict>>
    BY <1>4 DEF DeleteIfPotential
  <2>2. LocalTypes'
    BY <2>1 DEF Goto, IInv, TypeOK, LocalTypes, Calls
  <2>3. event[e] # NoEvent
    BY DEF DeleteIfPotential, At, IInv, RequestShape
  <2>4. Decidable(e)
    BY <1>1, <1>4, <2>3
    DEF Decidable, IsConfirmed, IsPotential, IsRule, IInv, TypeOK, Rule, Statuses
  <2>5. pc'[w] = "deleteConfirmed" /\ target'[w] = target[w]
    BY <2>1 DEF Goto, IInv, TypeOK
  <2>6. RequestShape(w)' /\ DecisionShape(w)'
    BY <2>1, <2>4, <2>5
    DEF RequestShape, DecisionShape, DecidingCalls, Decidable, IsConfirmed, IsRule
  <2>7. \A v \in Workers \ {w} : Untouched(v)
    BY <2>1 DEF Goto, IInv, TypeOK, Untouched
  <2> QED BY <1>2, <2>1, <2>2, <2>6, <2>7, MoveStep DEF db
<1> QED BY <1>3, <1>4

LEMMA DeleteIfConfirmedStep ==
  ASSUME NEW w \in Workers, IInv, DeleteIfConfirmed(w)
  PROVE  IInv' /\ Keeps
<1> DEFINE e == target[w][1]
<1>1. e \in Events
  BY DEF IInv, TypeOK, Occurrences
<1>2. event' = IF IsConfirmed(e) THEN [event EXCEPT ![e] = Deleted] ELSE event
  BY DEF DeleteIfConfirmed
<1> HIDE DEF e
<1>3. \A f \in Events : event'[f] \in {event[f], Deleted}
  BY <1>1, <1>2 DEF IInv, TypeOK
<1>4. TablesKept
  <2>1. \A f \in Events : event[f] # NoEvent => event'[f] # NoEvent
    BY <1>3, SentinelAssumption
  <2>2. \A f \in Events : Decidable(f) => Decidable(f)'
    BY <1>3 DEF Decidable, IsConfirmed, IsRule
  <2> QED BY <2>1, <2>2, OnlyRules DEF DeleteIfConfirmed
<1>5. TableTypes' /\ HistoryTypes'
  BY <1>2 DEF DeleteIfConfirmed, IInv, TypeOK, TableTypes, HistoryTypes
<1> QED BY <1>4, <1>5, EndStep DEF DeleteIfConfirmed

LEMMA ClearPotentialStep ==
  ASSUME NEW w \in Workers, IInv, ClearPotential(w)
  PROVE  IInv' /\ Keeps
<1> DEFINE gone == {e \in Events : IsPotential(e)}
<1>1. \A e \in gone : IsPotential(e)
  OBVIOUS
<1>2. gone \in SUBSET Events
  OBVIOUS
<1>3. DeletePotential(gone) /\ UNCHANGED ops
  BY DEF ClearPotential
<1> HIDE DEF gone
<1>4. /\ decision' = decision
      /\ event' \in [Events -> Rule \cup {NoEvent, Deleted}]
      /\ TablesKept
  BY <1>1, <1>2, <1>3, PotentialUndecided
<1>5. TableTypes' /\ HistoryTypes'
  BY <1>4 DEF ClearPotential, IInv, TypeOK, TableTypes, HistoryTypes
<1> QED BY <1>4, <1>5, EndStep DEF ClearPotential

\* The verdict on a decision agrees with it.
LEMMA VerdictAgrees ==
  ASSUME NEW w \in Workers, NEW d, NEW default
  PROVE  /\ VerdictOn(w, d, default) \in {"replayed", "refused"}
         /\ (VerdictOn(w, d, default) # "refused" /\ kind[w] = "realize")
              => d.status = "REALIZED"
         /\ (VerdictOn(w, d, default) # "refused" /\ kind[w] = "cancel")
              => d.status = "CANCELED"
BY DEF VerdictOn, ReplaysRealization, ReplaysCancellation

\* A worker that met a decision goes on to answer.
LEMMA ToAnswer ==
  ASSUME NEW w \in Workers, IInv, NEW default,
         pc[w] \in DecidingCalls, decision[target[w]] # NoDecision,
         Goto(w, "answer"),
         verdict' = [verdict EXCEPT ![w] =
                       VerdictOn(w, decision[target[w]], default)],
         UNCHANGED <<now, event, decision, ops, seen, started, realized, answered>>
  PROVE  IInv' /\ Keeps
<1> DEFINE d == decision[target[w]]
           v == VerdictOn(w, d, default)
<1>1. /\ v \in {"replayed", "refused"}
      /\ (v # "refused" /\ kind[w] = "realize") => d.status = "REALIZED"
      /\ (v # "refused" /\ kind[w] = "cancel") => d.status = "CANCELED"
  BY VerdictAgrees
<1>2. verdict' = [verdict EXCEPT ![w] = v]
  OBVIOUS
<1>3. kind[w] \in {"realize", "cancel"}
  BY DEF IInv, RequestShape
<1> HIDE DEF v
<1>4. LocalTypes' /\ HistoryTypes'
  BY <1>1, <1>2 DEF Goto, IInv, TypeOK, LocalTypes, HistoryTypes, Calls
<1>5. /\ pc'[w] = "answer" /\ verdict'[w] = v /\ kind'[w] = kind[w]
      /\ target'[w] = target[w] /\ input'[w] = input[w]
  BY <1>2 DEF Goto, IInv, TypeOK
<1>6. RequestShape(w)'
  BY <1>5 DEF RequestShape, DecidingCalls, IInv
<1>7. DecisionShape(w)'
  BY <1>1, <1>3, <1>5 DEF DecisionShape
<1>8. \A u \in Workers \ {w} : Untouched(u)
  BY <1>2 DEF Goto, IInv, TypeOK, Untouched
<1> QED BY <1>4, <1>6, <1>7, <1>8, MoveStep DEF db

LEMMA FindStep ==
  ASSUME NEW w \in Workers, IInv, Find(w)
  PROVE  IInv' /\ Keeps
<1>1. pc[w] = "find" /\ UNCHANGED <<now, event, decision, ops, seen, started,
                                    realized, answered>>
  BY DEF Find, At
<1>2. CASE decision[target[w]] # NoDecision
  <2>1. /\ Goto(w, "answer")
        /\ verdict' = [verdict EXCEPT ![w] =
             VerdictOn(w, decision[target[w]], decision[target[w]].amount)]
    BY <1>2 DEF Find
  <2>2. pc[w] \in DecidingCalls
    BY <1>1 DEF DecidingCalls
  <2> QED BY <1>1, <1>2, <2>1, <2>2, ToAnswer
<1>3. CASE decision[target[w]] = NoDecision
  <2>1. MaintainThen(w, "snapshot") /\ UNCHANGED verdict
    BY <1>3 DEF Find
  <2>2. LocalTypes' /\ HistoryTypes'
    BY <1>1, <2>1 DEF MaintainThen, IInv, TypeOK, LocalTypes, HistoryTypes, Calls
  <2>3. /\ pc'[w] = "snapshot" /\ kind'[w] = kind[w]
        /\ input'[w] = input[w]
    BY <2>1 DEF MaintainThen, IInv, TypeOK
  <2>4. RequestShape(w)' /\ DecisionShape(w)'
    BY <1>1, <2>3 DEF RequestShape, DecisionShape, DecidingCalls, IInv
  <2>5. \A v \in Workers \ {w} : Untouched(v)
    BY <1>1, <2>1 DEF MaintainThen, IInv, TypeOK, Untouched
  <2> QED BY <1>1, <2>2, <2>4, <2>5, MoveStep DEF db
<1> QED BY <1>2, <1>3

LEMMA SnapshotStep ==
  ASSUME NEW w \in Workers, IInv, Snapshot(w)
  PROVE  IInv' /\ Keeps
<1>1. pc[w] = "snapshot" /\ UNCHANGED <<now, event, decision, ops, started,
                                        realized, answered>>
  BY DEF Snapshot, At
<1>2. HistoryTypes' /\ TableTypes' /\ TablesKept
  BY <1>1, SameTables DEF IInv, TypeOK, HistoryTypes, TableTypes
<1>3. CASE Done(w)
  BY <1>2, <1>3, EndStep
<1>4. CASE ~Done(w)
  <2> DEFINE e == target[w][1]
             call == IF kind[w] = "realize" THEN "period" ELSE "insert"
  <2>1. /\ MayDecide(e, target[w][2])
        /\ Goto(w, call) /\ seen' = [seen EXCEPT ![w] = event[e]]
        /\ UNCHANGED verdict
    BY <1>4 DEF Snapshot
  <2>2. event[e] \in Rule /\ Decidable(e)
    BY <2>1 DEF MayDecide, IsConfirmed, IsRule, Decidable
  <2>3. LocalTypes'
    BY <1>1, <2>1, <2>2 DEF Goto, IInv, TypeOK, LocalTypes, Calls
  <2>4. /\ pc'[w] = call /\ kind'[w] = kind[w] /\ input'[w] = input[w]
        /\ target'[w] = target[w] /\ seen'[w] \in Rule
    BY <2>1, <2>2 DEF Goto, IInv, TypeOK
  <2>5. RequestShape(w)'
    BY <1>1, <2>4 DEF RequestShape, DecidingCalls, IInv
  <2>6. DecisionShape(w)'
    BY <1>1, <2>2, <2>4 DEF DecisionShape, Decidable, IsConfirmed, IsRule
  <2>7. \A v \in Workers \ {w} : Untouched(v)
    BY <2>1 DEF Goto, IInv, TypeOK, Untouched
  <2> QED BY <1>1, <1>2, <2>3, <2>5, <2>6, <2>7, MoveStep DEF db
<1> QED BY <1>3, <1>4

LEMMA AssertPeriodOpenStep ==
  ASSUME NEW w \in Workers, IInv, AssertPeriodOpen(w)
  PROVE  IInv' /\ Keeps
<1>1. pc[w] = "period" /\ UNCHANGED <<now, event, decision, ops, started,
                                      realized, answered>>
  BY DEF AssertPeriodOpen, At
<1>2. HistoryTypes' /\ TableTypes' /\ TablesKept
  BY <1>1, SameTables DEF IInv, TypeOK, HistoryTypes, TableTypes
<1>3. CASE Done(w)
  BY <1>2, <1>3, EndStep
<1>4. CASE ~Done(w)
  <2>1. Goto(w, "insert") /\ UNCHANGED <<seen, verdict>>
    BY <1>4 DEF AssertPeriodOpen
  <2>2. LocalTypes'
    BY <2>1 DEF Goto, IInv, TypeOK, LocalTypes, Calls
  <2>3. /\ pc'[w] = "insert" /\ kind'[w] = kind[w] /\ input'[w] = input[w]
        /\ target'[w] = target[w] /\ seen'[w] = seen[w]
    BY <2>1 DEF Goto, IInv, TypeOK
  <2>4. RequestShape(w)'
    BY <1>1, <2>3 DEF RequestShape, DecidingCalls, IInv
  <2>5. DecisionShape(w)'
    BY <1>1, <2>3 DEF DecisionShape, Decidable, IsConfirmed, IsRule, IInv
  <2>6. \A v \in Workers \ {w} : Untouched(v)
    BY <2>1 DEF Goto, IInv, TypeOK, Untouched
  <2> QED BY <1>1, <1>2, <2>2, <2>4, <2>5, <2>6, MoveStep DEF db
<1> QED BY <1>3, <1>4

\* The loser of a conflict goes on to the second find.
LEMMA ConflictStep ==
  ASSUME NEW w \in Workers, IInv, pc[w] = "insert",
         decision[target[w]] # NoDecision, MaintainThen(w, "refind"),
         UNCHANGED <<now, event, decision, ops, seen, verdict, started,
                     realized, answered>>
  PROVE  IInv' /\ Keeps
<1>1. LocalTypes' /\ HistoryTypes'
  BY DEF MaintainThen, IInv, TypeOK, LocalTypes, HistoryTypes, Calls
<1>2. /\ pc'[w] = "refind" /\ kind'[w] = kind[w] /\ input'[w] = input[w]
      /\ target'[w] = target[w]
  BY DEF MaintainThen, IInv, TypeOK
<1>3. RequestShape(w)'
  BY <1>2 DEF RequestShape, DecidingCalls, IInv
<1>4. DecisionShape(w)'
  BY <1>2 DEF DecisionShape, Decidable, IsConfirmed, IsRule, IInv
<1>5. \A v \in Workers \ {w} : Untouched(v)
  BY DEF MaintainThen, IInv, TypeOK, Untouched
<1> QED BY <1>1, <1>3, <1>4, <1>5, MoveStep DEF db

\* The winner wrote decision d on a free occurrence and goes on to answer.
LEMMA DecidedStep ==
  ASSUME NEW w \in Workers, IInv, pc[w] = "insert", NEW d \in Decision,
         Free(target[w]), decision' = [decision EXCEPT ![target[w]] = d],
         d.status = IF kind[w] = "realize" THEN "REALIZED" ELSE "CANCELED",
         UNCHANGED <<now, event, seen>>, Goto(w, "answer"),
         verdict' = [verdict EXCEPT ![w] = "done"],
         ops' \in [OpIds -> Operation \cup {NoOp, Deleted}],
         HistoryTypes', OperationsAreDecided'
  PROVE  IInv' /\ Keeps
<1> DEFINE o == target[w]
<1>1. o \in Occurrences
  BY DEF IInv, TypeOK
<1>2. /\ decision'[o] = d /\ d # NoDecision
      /\ \A p \in Occurrences \ {o} : decision'[p] = decision[p]
      /\ decision[o] = NoDecision
  BY <1>1, SentinelAssumption DEF IInv, TypeOK, Free
<1>3. Decidable(o[1])
  BY DEF IInv, DecisionShape
<1> HIDE DEF o
<1>4. Keeps
  BY <1>2 DEF Keeps, Decidable, IsConfirmed, IsRule
<1>5. DecidedRules'
  BY <1>2, <1>3 DEF DecidedRules, Decidable, IsConfirmed, IsRule, IInv
<1>6. TablesKept
  BY <1>4, <1>5 DEF TablesKept
<1>7. TypeOK'
  <2>1. LocalTypes'
    BY DEF Goto, IInv, TypeOK, LocalTypes, Calls
  <2>2. TableTypes'
    BY DEF IInv, TypeOK, TableTypes
  <2> QED BY <2>1, <2>2 DEF TypeOK, LocalTypes, TableTypes, HistoryTypes
<1>8. /\ pc'[w] = "answer" /\ kind'[w] = kind[w] /\ input'[w] = input[w]
      /\ target'[w] = o /\ verdict'[w] = "done"
  BY DEF Goto, IInv, TypeOK, o
<1>9. RequestShape(w)'
  BY <1>8 DEF RequestShape, DecidingCalls, IInv
<1>10. DecisionShape(w)'
  BY <1>2, <1>8 DEF DecisionShape
<1>11. \A v \in Workers \ {w} : Untouched(v)
  BY DEF Goto, IInv, TypeOK, Untouched
<1> QED BY <1>6, <1>7, <1>9, <1>10, <1>11, WorkerStep

LEMMA InsertRealizationStep ==
  ASSUME NEW w \in Workers, IInv, InsertRealization(w)
  PROVE  IInv' /\ Keeps
<1> DEFINE o == target[w]
<1>1. pc[w] = "insert" /\ kind[w] = "realize" /\ o \in Occurrences
  BY DEF InsertRealization, At, IInv, TypeOK
<1>2. CASE ~Free(o)
  BY <1>1, <1>2, ConflictStep DEF InsertRealization, Free
<1>3. CASE Free(o)
  <2>1. PICK i \in OpIds :
          /\ ops[i] = NoOp
          /\ ops' = [ops EXCEPT ![i] = OperationOf(input[w], seen[w].amount)]
          /\ decision' = [decision EXCEPT ![o] =
                            [status |-> "REALIZED", amount |-> seen[w].amount,
                             operation |-> i]]
          /\ realized' = realized \cup
               {[occurrence |-> o, command |-> input[w], operation |-> ops'[i]]}
          /\ Goto(w, "answer")
          /\ verdict' = [verdict EXCEPT ![w] = "done"]
    BY <1>3 DEF InsertRealization
  <2> DEFINE d == [status |-> "REALIZED", amount |-> seen[w].amount, operation |-> i]
             new == OperationOf(input[w], seen[w].amount)
  <2>2. seen[w] \in Rule /\ input[w] \in Command
    BY <1>1 DEF IInv, DecisionShape, RequestShape, DecidingCalls
  <2>3. seen[w].amount \in Amounts /\ new \in Operation /\ d \in Decision
    BY <2>2 DEF Rule, Command, OperationOf, Operation, Decision
  <2> HIDE DEF new
  <2>4. /\ ops' = [ops EXCEPT ![i] = new] /\ ops'[i] = new
        /\ \A j \in OpIds \ {i} : ops'[j] = ops[j]
    BY <2>1 DEF new, IInv, TypeOK
  <2>5. ops' \in [OpIds -> Operation \cup {NoOp, Deleted}]
    BY <2>3, <2>4 DEF IInv, TypeOK
  <2>6. HistoryTypes'
    BY <1>1, <2>1, <2>2, <2>3, <2>4 DEF InsertRealization, IInv, TypeOK, HistoryTypes
  <2>7. d.status = "REALIZED" /\ d.operation = i
    OBVIOUS
  <2>8. decision' = [decision EXCEPT ![o] = d]
    BY <2>1
  <2> HIDE DEF d, o
  <2>9. /\ decision'[o] = d /\ d # NoDecision /\ decision[o] = NoDecision
        /\ \A p \in Occurrences \ {o} : decision'[p] = decision[p]
    BY <1>1, <1>3, <2>3, <2>8, SentinelAssumption DEF IInv, TypeOK, Free
  <2>10. \A p \in Occurrences \ {o} :
           decision[p] # NoDecision => decision[p].operation # i
    BY <2>1, SentinelAssumption DEF IInv, OperationsAreDecided
  <2>11. OperationsAreDecided'
    <3>1. ASSUME NEW p \in Occurrences, decision'[p] # NoDecision,
                 decision'[p].operation # NoOp
          PROVE  /\ decision'[p].status = "REALIZED"
                 /\ ops'[decision'[p].operation] \in Operation
      <4>1. CASE p = o
        BY <2>3, <2>4, <2>7, <2>9, <4>1
      <4>2. CASE p # o
        <5>1. /\ decision'[p] = decision[p] /\ decision[p].operation # i
              /\ decision[p].operation \in OpIds
          BY <2>9, <2>10, <3>1, <4>2 DEF IInv, TypeOK, Decision
        <5> QED BY <2>4, <3>1, <5>1 DEF IInv, OperationsAreDecided
      <4> QED BY <4>1, <4>2
    <3>2. ASSUME NEW j \in OpIds, ops'[j] \in Operation
          PROVE  \E p \in Occurrences : decision'[p] # NoDecision
                                       /\ decision'[p].operation = j
      <4>1. CASE j = i
        BY <1>1, <2>7, <2>9, <4>1
      <4>2. CASE j # i
        <5>1. PICK p \in Occurrences : decision[p] # NoDecision
                                       /\ decision[p].operation = j
          BY <2>4, <3>2, <4>2 DEF IInv, OperationsAreDecided
        <5>2. p # o
          BY <2>9, <5>1
        <5> QED BY <2>9, <5>1, <5>2
      <4> QED BY <4>1, <4>2
    <3>3. ASSUME NEW p \in Occurrences, NEW q \in Occurrences,
                 decision'[p] # NoDecision, decision'[q] # NoDecision,
                 decision'[p].operation = decision'[q].operation,
                 decision'[p].operation # NoOp
          PROVE  p = q
      BY <2>7, <2>9, <2>10, <3>3 DEF IInv, OperationsAreDecided
    <3> QED BY <3>1, <3>2, <3>3 DEF OperationsAreDecided
  <2> QED BY <1>1, <1>3, <2>1, <2>3, <2>5, <2>6, <2>7, <2>8, <2>11, DecidedStep
          DEF InsertRealization, o
<1> QED BY <1>2, <1>3

LEMMA InsertCancellationStep ==
  ASSUME NEW w \in Workers, IInv, InsertCancellation(w)
  PROVE  IInv' /\ Keeps
<1> DEFINE o == target[w]
           d == [status |-> "CANCELED", amount |-> seen[w].amount, operation |-> NoOp]
<1>1. pc[w] = "insert" /\ kind[w] = "cancel" /\ o \in Occurrences
  BY DEF InsertCancellation, At, IInv, TypeOK
<1>2. CASE ~Free(o)
  BY <1>1, <1>2, ConflictStep DEF InsertCancellation, Free
<1>3. CASE Free(o)
  <2>1. seen[w] \in Rule
    BY <1>1 DEF IInv, DecisionShape
  <2>2. d \in Decision /\ d.status = "CANCELED" /\ d.operation = NoOp
    BY <2>1 DEF Rule, Decision
  <2>3. /\ decision' = [decision EXCEPT ![o] = d] /\ Goto(w, "answer")
        /\ verdict' = [verdict EXCEPT ![w] = "done"]
        /\ UNCHANGED <<now, event, ops, seen, started, realized, answered>>
    BY <1>3 DEF InsertCancellation
  <2> HIDE DEF d
  <2>4. ops' \in [OpIds -> Operation \cup {NoOp, Deleted}] /\ HistoryTypes'
    BY <2>3 DEF IInv, TypeOK, HistoryTypes
  <2>5. /\ decision'[o] = d /\ decision[o] = NoDecision
        /\ \A p \in Occurrences \ {o} : decision'[p] = decision[p]
    BY <1>1, <1>3, <2>3 DEF IInv, TypeOK, Free
  <2>6. OperationsAreDecided'
    <3>1. ASSUME NEW i \in OpIds, ops[i] \in Operation
          PROVE  \E p \in Occurrences \ {o} : decision[p] # NoDecision
                                            /\ decision[p].operation = i
      BY <2>5, <3>1 DEF IInv, OperationsAreDecided
    <3>2. \A i \in OpIds : ops'[i] \in Operation =>
            \E p \in Occurrences : decision'[p] # NoDecision
                                  /\ decision'[p].operation = i
      BY <2>3, <2>5, <3>1
    <3>3. \A p \in Occurrences :
            (decision'[p] # NoDecision /\ decision'[p].operation # NoOp) =>
              p # o /\ decision'[p] = decision[p]
      BY <2>2, <2>5
    <3> HIDE DEF o
    <3> QED BY <2>3, <3>2, <3>3 DEF IInv, OperationsAreDecided
  <2> QED BY <1>1, <1>3, <2>2, <2>3, <2>4, <2>6, DecidedStep
<1> QED BY <1>2, <1>3

LEMMA RefindStep ==
  ASSUME NEW w \in Workers, IInv, Refind(w)
  PROVE  IInv' /\ Keeps
<1>1. pc[w] = "refind" /\ UNCHANGED <<now, event, decision, ops, started,
                                      realized, answered>>
  BY DEF Refind, At
<1>2. decision[target[w]] # NoDecision
  BY <1>1 DEF IInv, DecisionShape
<1>3. /\ Goto(w, "answer") /\ UNCHANGED seen
      /\ verdict' = [verdict EXCEPT ![w] =
           VerdictOn(w, decision[target[w]], seen[w].amount)]
  BY <1>2 DEF Refind
<1>4. pc[w] \in DecidingCalls
  BY <1>1 DEF DecidingCalls
<1> QED BY <1>1, <1>2, <1>3, <1>4, ToAnswer

LEMMA AnswerStep ==
  ASSUME NEW w \in Workers, IInv, Answer(w)
  PROVE  IInv' /\ Keeps
<1>1. /\ kind[w] \in {"realize", "cancel"} /\ target[w] \in Occurrences
      /\ input[w] \in Command \cup {NoInput}
      /\ verdict[w] \in {"done", "replayed", "refused"}
  BY DEF Answer, At, IInv, TypeOK, RequestShape, DecisionShape, DecidingCalls
<1>2. HistoryTypes'
  BY <1>1 DEF Answer, IInv, TypeOK, HistoryTypes
<1>3. TableTypes' /\ TablesKept
  BY SameTables DEF Answer, IInv, TypeOK, TableTypes
<1> QED BY <1>2, <1>3, EndStep DEF Answer

\* A step of the environment, which touches no worker.
LEMMA OutsideStep ==
  ASSUME IInv, TypeOK', TablesKept, \A v \in Workers : Untouched(v)
  PROVE  IInv' /\ Keeps
BY UntouchedShape DEF IInv, TablesKept

LEMMA EditOperationStep ==
  ASSUME IInv, EditOperation
  PROVE  IInv' /\ Keeps
<1>1. PICK i \in OpIds, o \in Operation :
        ops[i] \in Operation /\ ops' = [ops EXCEPT ![i] = o]
  BY DEF EditOperation
<1>2. \A j \in OpIds : ops'[j] \in Operation <=> ops[j] \in Operation
  BY <1>1 DEF IInv, TypeOK
<1>3. UNCHANGED <<event, decision>>
  BY DEF EditOperation
<1>4. OperationsAreDecided'
  BY <1>2, <1>3 DEF IInv, TypeOK, Decision, OperationsAreDecided
<1>5. Keeps /\ DecidedRules'
  BY <1>3 DEF Keeps, Decidable, IsConfirmed, IsRule, DecidedRules, IInv
<1>6. TypeOK'
  BY <1>1 DEF EditOperation, IInv, TypeOK
<1>7. \A v \in Workers : Untouched(v)
  BY DEF EditOperation, Untouched
<1> QED BY <1>4, <1>5, <1>6, <1>7, OutsideStep DEF TablesKept

LEMMA RemoveOperationStep ==
  ASSUME IInv, RemoveOperation
  PROVE  IInv' /\ Keeps /\ Decided' = Decided
<1>1. PICK i \in OpIds :
        /\ ops[i] \in Operation /\ ops' = [ops EXCEPT ![i] = Deleted]
        /\ decision' = [o \in Occurrences |-> Unlink(decision[o], i)]
  BY DEF RemoveOperation
<1>2. \A o \in Occurrences :
        /\ decision[o] = NoDecision => decision'[o] = NoDecision
        /\ decision[o] # NoDecision =>
             /\ decision'[o] \in Decision /\ decision'[o] # NoDecision
             /\ decision'[o].status = decision[o].status
             /\ decision'[o].amount = decision[o].amount
             /\ decision'[o].operation =
                  IF decision[o].operation = i THEN NoOp ELSE decision[o].operation
  <2> SUFFICES ASSUME NEW o \in Occurrences, decision[o] # NoDecision
               PROVE  /\ decision'[o] \in Decision /\ decision'[o] # NoDecision
                      /\ decision'[o].status = decision[o].status
                      /\ decision'[o].amount = decision[o].amount
                      /\ decision'[o].operation =
                           IF decision[o].operation = i THEN NoOp
                                                        ELSE decision[o].operation
    BY <1>1 DEF Unlink
  <2>1. decision[o] \in Decision /\ decision'[o] = Unlink(decision[o], i)
    BY <1>1 DEF IInv, TypeOK
  <2>2. decision'[o] \in Decision
    BY <2>1 DEF Unlink, Decision
  <2> QED BY <2>1, <2>2, SentinelAssumption DEF Unlink
<1>3. UNCHANGED event
  BY DEF RemoveOperation
<1>4. /\ ops'[i] = Deleted /\ \A j \in OpIds \ {i} : ops'[j] = ops[j]
      /\ Deleted \notin Operation
  BY <1>1, SentinelAssumption DEF IInv, TypeOK
<1>5. \A o \in Occurrences :
        (decision'[o] # NoDecision /\ decision'[o].operation # NoOp) =>
          /\ decision[o] # NoDecision /\ decision[o].status = decision'[o].status
          /\ decision[o].operation = decision'[o].operation
          /\ decision[o].operation # i /\ decision[o].operation \in OpIds
  BY <1>2 DEF IInv, TypeOK, Decision
<1>6. OperationsAreDecided'
  <2>1. ASSUME NEW o \in Occurrences, decision'[o] # NoDecision,
               decision'[o].operation # NoOp
        PROVE  /\ decision'[o].status = "REALIZED"
               /\ ops'[decision'[o].operation] \in Operation
    BY <1>4, <1>5, <2>1 DEF IInv, OperationsAreDecided
  <2>2. ASSUME NEW j \in OpIds, ops'[j] \in Operation
        PROVE  \E o \in Occurrences : decision'[o] # NoDecision
                                     /\ decision'[o].operation = j
    <3>1. j # i /\ ops[j] \in Operation
      BY <1>4, <2>2
    <3>2. PICK o \in Occurrences : decision[o] # NoDecision
                                   /\ decision[o].operation = j
      BY <3>1 DEF IInv, OperationsAreDecided
    <3> QED BY <1>2, <3>1, <3>2
  <2>3. ASSUME NEW o \in Occurrences, NEW p \in Occurrences,
               decision'[o] # NoDecision, decision'[p] # NoDecision,
               decision'[o].operation = decision'[p].operation,
               decision'[o].operation # NoOp
        PROVE  o = p
    BY <1>5, <2>3 DEF IInv, OperationsAreDecided
  <2> QED BY <2>1, <2>2, <2>3 DEF OperationsAreDecided
<1>7. Keeps
  BY <1>2, <1>3 DEF Keeps, Decidable, IsConfirmed, IsRule
<1>8. DecidedRules'
  BY <1>2, <1>3 DEF DecidedRules, Decidable, IsConfirmed, IsRule, IInv
<1>9. TypeOK'
  <2>1. decision' \in [Occurrences -> Decision \cup {NoDecision}]
    BY <1>1, <1>2
  <2>2. ops' \in [OpIds -> Operation \cup {NoOp, Deleted}]
    BY <1>1 DEF IInv, TypeOK
  <2> QED BY <2>1, <2>2 DEF RemoveOperation, IInv, TypeOK
<1>10. \A v \in Workers : Untouched(v)
  BY DEF RemoveOperation, Untouched
<1>11. Decided' = Decided
  BY <1>2 DEF Decided
<1> QED BY <1>6, <1>7, <1>8, <1>9, <1>10, <1>11, OutsideStep DEF TablesKept

LEMMA RolloverStep ==
  ASSUME IInv, Rollover
  PROVE  IInv' /\ Keeps
<1>1. TablesKept
  BY SameTables DEF Rollover
<1>2. TypeOK'
  <2>1. now' \in Months
    BY BoundsAssumption DEF Rollover, IInv, TypeOK, Months
  <2> QED BY <2>1 DEF Rollover, IInv, TypeOK
<1>3. \A v \in Workers : Untouched(v)
  BY DEF Rollover, Untouched
<1> QED BY <1>1, <1>2, <1>3, OutsideStep

(* ---------------------------------------------------------------------- *)
(* The invariant.                                                          *)

LEMMA InitInv == Init => IInv
<1> SUFFICES ASSUME Init PROVE IInv
  OBVIOUS
<1>1. 1 \in Months /\ 0 \in 0..MaxRequests
  BY BoundsAssumption DEF Months
<1>2. TypeOK
  BY <1>1, SomeOccurrence DEF Init, TypeOK, Calls
<1>3. DecidedRules
  BY DEF Init, DecidedRules
<1>4. OperationsAreDecided
  BY SentinelAssumption DEF Init, OperationsAreDecided
<1>5. \A w \in Workers : RequestShape(w) /\ DecisionShape(w)
  BY DEF Init, RequestShape, DecisionShape, DecidingCalls
<1> QED BY <1>2, <1>3, <1>4, <1>5 DEF IInv

LEMMA NextInv ==
  ASSUME IInv, [Next]_vars
  PROVE  IInv' /\ Keeps
<1>1. ASSUME NEW w \in Workers, BeginRequest(w)
      PROVE  IInv' /\ Keeps
  BY <1>1, BeginRequestStep
<1>2. ASSUME NEW w \in Workers, RuleStep(w)
      PROVE  IInv' /\ Keeps
  BY <1>2, MaintainStep, InsertEventStep, GetStep, WriteStep, RereadStep,
     ConfirmStep, DeleteIfPotentialStep, DeleteIfConfirmedStep,
     ClearPotentialStep DEF RuleStep
<1>3. ASSUME NEW w \in Workers, DecisionStep(w)
      PROVE  IInv' /\ Keeps
  BY <1>3, FindStep, SnapshotStep, AssertPeriodOpenStep,
     InsertRealizationStep, InsertCancellationStep, RefindStep, AnswerStep
  DEF DecisionStep
<1>4. ASSUME NEW w \in Workers, Crash(w)
      PROVE  IInv' /\ Keeps
  BY <1>4, RereadStep
<1>5. CASE EditOperation \/ RemoveOperation \/ Rollover
  BY <1>5, EditOperationStep, RemoveOperationStep, RolloverStep
<1>6. CASE UNCHANGED vars
  <2>1. TablesKept
    BY <1>6, SameTables DEF vars
  <2>2. TypeOK' /\ \A v \in Workers : Untouched(v)
    BY <1>6 DEF vars, IInv, TypeOK, Untouched
  <2> QED BY <2>1, <2>2, OutsideStep
<1> QED BY <1>1, <1>2, <1>3, <1>4, <1>5, <1>6 DEF Next

\* The inductive invariant holds of every run.
THEOREM Invariant == Spec => []IInv
BY InitInv, NextInv, PTL DEF Spec

\* Every variable keeps its type.
THEOREM TypeCorrect == Spec => []TypeOK
<1>1. IInv => TypeOK
  BY DEF IInv
<1> QED BY <1>1, Invariant, PTL

\* Live operations and realizations correspond one to one: no schedule of
\* concurrent realizations, crashes, corrections and deletions creates a
\* second operation for an occurrence or leaves one without its decision.
THEOREM EveryOperationIsDecided == Spec => []OperationsAreDecided
<1>1. IInv => OperationsAreDecided
  BY DEF IInv
<1> QED BY <1>1, Invariant, PTL

\* The conflict is never rethrown.
THEOREM WinnerIsFound == Spec => []ConflictHasWinner
<1>1. IInv => ConflictHasWinner
  BY DEF IInv, DecisionShape, ConflictHasWinner
<1> QED BY <1>1, Invariant, PTL

\* A delete that finds nothing leaves nothing.
THEOREM DeleteIsThorough == Spec => []DeleteMissesNoRule
<1>1. IInv => DeleteMissesNoRule
  <2> SUFFICES ASSUME IInv, NEW w \in Workers, pc[w] = "deleteConfirmed"
               PROVE  ~IsPotential(target[w][1])
    BY DEF DeleteMissesNoRule
  <2>1. Decidable(target[w][1])
    BY DEF IInv, DecisionShape
  <2> QED BY <2>1, SentinelAssumption DEF Decidable, IsConfirmed, IsPotential, IsRule
<1> QED BY <1>1, Invariant, PTL

\* Decisions are final.
THEOREM Finality == Spec => DecisionsAreFinal
<1>1. IInv /\ [Next]_vars =>
        [\A o \in Occurrences : decision[o] # NoDecision =>
           /\ decision'[o] # NoDecision
           /\ decision'[o].status = decision[o].status
           /\ decision'[o].amount = decision[o].amount
           /\ decision'[o].operation \in {decision[o].operation, NoOp}]_vars
  BY NextInv DEF Keeps
<1> QED BY <1>1, Invariant, PTL DEF Spec, DecisionsAreFinal

(* ---------------------------------------------------------------------- *)
(* Confirmations.                                                          *)

\* A step that deletes a confirmed rule is the second try of a delete.
LEMMA OnlyDeleteTakesConfirmed ==
  ASSUME IInv, [Next]_vars, NEW e \in Events, IsConfirmed(e), event'[e] = Deleted
  PROVE  \E w \in Workers : pc[w] = "deleteConfirmed" /\ target[w][1] = e
<1>1. event[e] \in Rule /\ event[e] # Deleted /\ ~IsPotential(e)
  BY SentinelAssumption DEF IsConfirmed, IsPotential, IsRule
<1>2. ASSUME NEW w \in Workers, RuleStep(w)
      PROVE  pc[w] = "deleteConfirmed" /\ target[w][1] = e
  <2>1. target[w][1] \in Events
    BY DEF IInv, TypeOK, Occurrences
  <2>2. ASSUME NEW gone \in SUBSET Events, DeletePotential(gone),
               \A f \in gone : IsPotential(f)
        PROVE  FALSE
    BY <1>1, <2>2 DEF DeletePotential
  <2>3. ~Maintain(w)
    <3> SUFFICES ASSUME Maintain(w) PROVE FALSE
      OBVIOUS
    <3> DEFINE gone == {f \in Events : IsRule(f) /\ Expired(event[f], today[w])}
    <3>1. gone \in SUBSET Events /\ \A f \in gone : IsPotential(f)
      BY DEF IsPotential, Expired
    <3>2. DeletePotential(gone)
      BY DEF Maintain
    <3> HIDE DEF gone
    <3> QED BY <2>2, <3>1, <3>2
  <2>4. ~ClearPotential(w)
    <3> SUFFICES ASSUME ClearPotential(w) PROVE FALSE
      OBVIOUS
    <3> DEFINE gone == {f \in Events : IsPotential(f)}
    <3>1. gone \in SUBSET Events /\ \A f \in gone : IsPotential(f)
      OBVIOUS
    <3>2. DeletePotential(gone)
      BY DEF ClearPotential
    <3> HIDE DEF gone
    <3> QED BY <2>2, <3>1, <3>2
  <2>5. ~DeleteIfPotential(w)
    <3> SUFFICES ASSUME DeleteIfPotential(w) PROVE FALSE
      OBVIOUS
    <3>1. CASE IsPotential(target[w][1])
      <4>1. DeletePotential({target[w][1]})
        BY <3>1 DEF DeleteIfPotential
      <4> QED BY <2>1, <2>2, <3>1, <4>1
    <3>2. CASE ~IsPotential(target[w][1])
      BY <1>1, <3>2 DEF DeleteIfPotential
    <3> QED BY <3>1, <3>2
  <2>6. ~InsertEvent(w)
    BY <1>1, SentinelAssumption DEF InsertEvent, At, IInv, TypeOK, RequestShape
  <2>7. ~Write(w)
    <3> SUFFICES ASSUME Write(w) PROVE FALSE
      OBVIOUS
    <3>1. input[w] \in Rule
      BY DEF Write, At, IInv, RequestShape
    <3>2. event'[e] \in {event[e], input[w]}
      BY <2>1 DEF Write, IInv, TypeOK
    <3> QED BY <1>1, <3>1, <3>2, SentinelAssumption
  <2>8. ~Confirm(w)
    <3> SUFFICES ASSUME Confirm(w) PROVE FALSE
      OBVIOUS
    <3>1. event'[e] = event[e]
      BY <1>1, <2>1 DEF Confirm, IInv, TypeOK
    <3> QED BY <1>1, <3>1
  <2>9. ~Get(w) /\ ~Reread(w)
    BY <1>1 DEF Get, Reread
  <2>10. DeleteIfConfirmed(w)
    BY <1>2, <2>3, <2>4, <2>5, <2>6, <2>7, <2>8, <2>9 DEF RuleStep
  <2> QED BY <1>1, <2>1, <2>10 DEF DeleteIfConfirmed, At, IInv, TypeOK
<1>3. ASSUME NEW w \in Workers, BeginRequest(w)
      PROVE  FALSE
  BY <1>1, <1>3 DEF BeginRequest, BeginCreate, BeginUpdate, BeginOnRule,
     BeginOnAll, BeginDecision, Begin
<1>4. ASSUME NEW w \in Workers, DecisionStep(w) \/ Crash(w)
      PROVE  FALSE
  BY <1>1, <1>4 DEF DecisionStep, Crash, Find, Snapshot, AssertPeriodOpen,
     InsertRealization, InsertCancellation, Refind, Answer
<1>5. CASE EditOperation \/ RemoveOperation \/ Rollover \/ UNCHANGED vars
  BY <1>1, <1>5 DEF EditOperation, RemoveOperation, Rollover, vars
<1> QED BY <1>2, <1>3, <1>4, <1>5 DEF Next

\* Confirmations are final.
THEOREM ConfirmationStays == Spec => ConfirmationIsFinal
<1>1. ASSUME IInv, [Next]_vars, NEW e \in Events, IsConfirmed(e)
      PROVE  \/ IsConfirmed(e)'
             \/ /\ event'[e] = Deleted
                /\ \E w \in Workers : pc[w] = "deleteConfirmed" /\ target[w][1] = e
  <2>1. Decidable(e)'
    BY <1>1, NextInv DEF Keeps, Decidable
  <2>2. CASE event'[e] = Deleted
    BY <1>1, <2>2, OnlyDeleteTakesConfirmed
  <2>3. CASE event'[e] # Deleted
    BY <2>1, <2>3 DEF Decidable
  <2> QED BY <2>2, <2>3
<1>2. IInv /\ [Next]_vars =>
        [\A e \in Events : IsConfirmed(e) =>
           \/ IsConfirmed(e)'
           \/ /\ event'[e] = Deleted
              /\ \E w \in Workers : pc[w] = "deleteConfirmed" /\ target[w][1] = e]_vars
  BY <1>1
<1> QED BY <1>2, Invariant, PTL DEF Spec, ConfirmationIsFinal

(* ---------------------------------------------------------------------- *)
(* The occurrences are write-once registers.                               *)

\* A decision on a free occurrence is a step of the register.
LEMMA Deciding ==
  ASSUME IInv, NEW o \in Occurrences, NEW d \in Decision, Free(o),
         decision' = [decision EXCEPT ![o] = d], UNCHANGED answered
  PROVE  Register!Next
<1>1. Decided[o] = "PLANNED" /\ Decided' = [Decided EXCEPT ![o] = d.status]
  BY SentinelAssumption DEF Decided, Free, IInv, TypeOK
<1>2. d.status \in {"REALIZED", "CANCELED"}
  BY DEF Decision
<1>3. Answers' = Answers
  BY DEF Answers, AnswerOf
<1> QED BY <1>1, <1>2, <1>3
    DEF Register!Next, Register!Decide, Register!Decisions

\* An answer is a step of the register.
LEMMA Answering ==
  ASSUME NEW w \in Workers, IInv, Answer(w)
  PROVE  Register!Next
<1> DEFINE o == target[w]
           a == [kind |-> kind[w], occurrence |-> o, command |-> input[w],
                 answer |-> verdict[w]]
<1>1. o \in Occurrences /\ kind[w] \in {"realize", "cancel"}
  BY DEF Answer, At, IInv, TypeOK, RequestShape, DecidingCalls
<1>2. /\ decision[o] # NoDecision
      /\ verdict[w] # "refused" =>
           decision[o].status = IF kind[w] = "realize" THEN "REALIZED" ELSE "CANCELED"
  BY DEF Answer, At, IInv, DecisionShape
<1>3. decision[o] \in Decision /\ Decided[o] = decision[o].status
  BY <1>1, <1>2 DEF IInv, TypeOK, Decided
<1>4. Decided[o] # "PLANNED"
  BY <1>3 DEF Decision
<1>5. /\ AnswerOf(a) = <<o, AnswerOf(a)[2]>>
      /\ AnswerOf(a)[2] \in {Decided[o], "refused"}
  BY <1>1, <1>2, <1>3 DEF AnswerOf
<1>6. answered' = answered \cup {a} /\ decision' = decision
  BY DEF Answer
<1> HIDE DEF a, o
<1>7. Answers' = Answers \cup {AnswerOf(a)}
  BY <1>6 DEF Answers, AnswerOf
<1>8. Decided' = Decided
  BY <1>6 DEF Decided
<1> QED BY <1>1, <1>4, <1>5, <1>7, <1>8 DEF Register!Next, Register!Answer

\* Every other step of a request leaves the register alone.
LEMMA RequestsStutter ==
  ASSUME NEW w \in Workers, IInv,
         BeginRequest(w) \/ RuleStep(w) \/ DecisionStep(w) \/ Crash(w),
         ~Answer(w), ~InsertRealization(w), ~InsertCancellation(w)
  PROVE  UNCHANGED <<decision, answered>>
<1>1. CASE Maintain(w)
  <2> DEFINE gone == {e \in Events : IsRule(e) /\ Expired(event[e], today[w])}
  <2>1. /\ gone \in SUBSET Events /\ \A e \in gone : IsPotential(e)
        /\ DeletePotential(gone) /\ UNCHANGED <<ops, answered>>
    BY <1>1 DEF IsPotential, Expired, Maintain
  <2> HIDE DEF gone
  <2> QED BY <2>1, PotentialUndecided
<1>2. CASE ClearPotential(w)
  <2> DEFINE gone == {e \in Events : IsPotential(e)}
  <2>1. /\ gone \in SUBSET Events /\ \A e \in gone : IsPotential(e)
        /\ DeletePotential(gone) /\ UNCHANGED <<ops, answered>>
    BY <1>2 DEF ClearPotential
  <2> HIDE DEF gone
  <2> QED BY <2>1, PotentialUndecided
<1>3. CASE DeleteIfPotential(w)
  <2>1. CASE IsPotential(target[w][1])
    <3>1. DeletePotential({target[w][1]}) /\ UNCHANGED <<ops, answered>>
      BY <1>3, <2>1 DEF DeleteIfPotential
    <3>2. {target[w][1]} \in SUBSET Events
      BY DEF IInv, TypeOK, Occurrences
    <3> QED BY <2>1, <3>1, <3>2, PotentialUndecided
  <2>2. CASE ~IsPotential(target[w][1])
    BY <1>3, <2>2 DEF DeleteIfPotential
  <2> QED BY <2>1, <2>2
<1>4. CASE InsertEvent(w) \/ Get(w) \/ Write(w) \/ Reread(w) \/ Confirm(w)
           \/ DeleteIfConfirmed(w)
  BY <1>4 DEF InsertEvent, Get, Write, Reread, Confirm, DeleteIfConfirmed
<1>5. CASE Find(w) \/ Snapshot(w) \/ AssertPeriodOpen(w) \/ Refind(w) \/ Crash(w)
  BY <1>5 DEF Find, Snapshot, AssertPeriodOpen, Refind, Crash
<1>6. CASE BeginRequest(w)
  BY <1>6 DEF BeginRequest, BeginCreate, BeginUpdate, BeginOnRule, BeginOnAll,
     BeginDecision, Begin
<1> QED BY <1>1, <1>2, <1>3, <1>4, <1>5, <1>6 DEF RuleStep, DecisionStep

\* The conflict of an insertion leaves the register alone.
LEMMA InsertRefines ==
  ASSUME NEW w \in Workers, IInv, InsertRealization(w) \/ InsertCancellation(w)
  PROVE  Register!Next \/ UNCHANGED <<decision, answered>>
<1> DEFINE o == target[w]
<1>1. o \in Occurrences /\ UNCHANGED answered
  BY DEF InsertRealization, InsertCancellation, IInv, TypeOK
<1>2. CASE ~Free(o)
  BY <1>1, <1>2 DEF InsertRealization, InsertCancellation
<1>3. CASE Free(o)
  <2>1. \E status \in {"REALIZED", "CANCELED"}, i \in OpIds \cup {NoOp} :
          decision' = [decision EXCEPT ![o] =
            [status |-> status, amount |-> seen[w].amount, operation |-> i]]
    BY <1>3 DEF InsertRealization, InsertCancellation
  <2>2. seen[w].amount \in Amounts
    BY DEF InsertRealization, InsertCancellation, At, IInv, DecisionShape, Rule
  <2>3. \E d \in Decision : decision' = [decision EXCEPT ![o] = d]
    BY <2>1, <2>2 DEF Decision
  <2> QED BY <1>1, <1>3, <2>3, Deciding
<1> QED BY <1>2, <1>3

\* For every number of concurrent requests, the decisions and the answers
\* are those of write-once registers.
THEOREM ImplementsRegister == Spec => RegisterSpec
<1>1. Init => Register!Init
  BY DEF Init, Register!Init, Decided, Answers
<1>2. IInv /\ [Next]_vars => [Register!Next]_(Register!vars)
  <2> SUFFICES ASSUME IInv, [Next]_vars
               PROVE  Register!Next \/ UNCHANGED Register!vars
    OBVIOUS
  <2>1. UNCHANGED <<decision, answered>> => UNCHANGED Register!vars
    BY DEF Register!vars, Decided, Answers, AnswerOf
  <2>2. ASSUME NEW w \in Workers,
               BeginRequest(w) \/ RuleStep(w) \/ DecisionStep(w) \/ Crash(w)
        PROVE  Register!Next \/ UNCHANGED Register!vars
    BY <2>1, <2>2, Answering, InsertRefines, RequestsStutter
  <2>3. CASE EditOperation \/ Rollover \/ UNCHANGED vars
    BY <2>1, <2>3 DEF EditOperation, Rollover, vars
  <2>4. CASE RemoveOperation
    <3>1. Decided' = Decided /\ UNCHANGED answered
      BY <2>4, RemoveOperationStep DEF RemoveOperation
    <3> QED BY <3>1 DEF Register!vars, Answers, AnswerOf
  <2> QED BY <2>2, <2>3, <2>4 DEF Next
<1> QED BY <1>1, <1>2, Invariant, PTL DEF Spec, RegisterSpec, Register!Spec

(* ---------------------------------------------------------------------- *)
(* Repeated commands.                                                      *)

\* No request changes a rule.
NoUpdate == \A w \in Workers : pc[w] \notin {"get", "write"}

\* The amount x is what somebody knows of rule e: the rule itself, a request
\* that read it, or a decision that copied it.
KnownAs(e, x) ==
  \/ IsRule(e) /\ event[e].amount = x
  \/ \E w \in Workers :
       /\ pc[w] \in {"period", "insert", "refind"}
       /\ target[w][1] = e
       /\ seen[w].amount = x
  \/ \E o \in Occurrences :
       o[1] = e /\ decision[o] # NoDecision /\ decision[o].amount = x

OneAmount == \A e \in Events : \A x, y : KnownAs(e, x) /\ KnownAs(e, y) => x = y

\* A realization and its record: the operation is still the one the command
\* asked for.
RealizationsRecorded ==
  /\ \A o \in Occurrences :
       decision[o] # NoDecision /\ decision[o].status = "REALIZED" =>
         decision[o].operation # NoOp /\ \E r \in realized : r.occurrence = o
  /\ \A r \in realized :
       LET d == decision[r.occurrence]
       IN  /\ d # NoDecision /\ d.status = "REALIZED"
           /\ r.operation = ops[d.operation]
           /\ r.operation = OperationOf(r.command, d.amount)

Succeeded(o, c) ==
  \E r \in realized :
    /\ r.occurrence = o
    /\ r.operation.month = c.month
    /\ c.amount \in {Default, r.operation.amount}

NeverSucceeds(o, c) ==
  /\ decision[o] # NoDecision
  /\ \A r \in realized : ~(r.occurrence = o /\ r.command = c)

RightAnswer(o, c, answer) ==
  /\ answer = "replayed" => Succeeded(o, c)
  /\ answer = "refused" => NeverSucceeds(o, c)

VerdictRight(w) ==
  pc[w] = "answer" /\ kind[w] = "realize" =>
    RightAnswer(target[w], input[w], verdict[w])

AnswersRight ==
  \A a \in answered :
    a.kind = "realize" => RightAnswer(a.occurrence, a.command, a.answer)

RepetitionInv ==
  /\ NoUpdate
  /\ OneAmount
  /\ RealizationsRecorded
  /\ \A w \in Workers : VerdictRight(w)
  /\ AnswersRight

RequestStep(w) == BeginRequest(w) \/ RuleStep(w) \/ DecisionStep(w) \/ Crash(w)

\* A step of one request leaves the others alone.
LEMMA OthersUntouched ==
  ASSUME IInv, NEW w \in Workers, NEW v \in Workers, v # w, RequestStep(w)
  PROVE  Untouched(v)
<1>1. LocalTypes
  BY TypeParts DEF IInv
<1>2. ASSUME Done(w) PROVE Untouched(v)
  BY <1>1, <1>2, DoneFacts
<1>4. ASSUME NEW call, MaintainThen(w, call), UNCHANGED <<seen, verdict>>
      PROVE  Untouched(v)
  BY <1>1, <1>4 DEF MaintainThen, LocalTypes, Untouched
<1>5. CASE BeginRequest(w)
  BY <1>1, <1>5
  DEF BeginRequest, BeginCreate, BeginUpdate, BeginOnRule, BeginOnAll, BeginDecision,
      Begin, LocalTypes, Untouched
<1>6. CASE Maintain(w)
  BY <1>6 DEF Maintain, Untouched
<1>7. CASE InsertEvent(w) \/ Reread(w) \/ DeleteIfConfirmed(w) \/ ClearPotential(w)
           \/ Answer(w) \/ Crash(w)
  BY <1>2, <1>7
  DEF InsertEvent, Reread, DeleteIfConfirmed, ClearPotential, Answer, Crash
<1>8. CASE Get(w) \/ Snapshot(w) \/ AssertPeriodOpen(w)
  <2>1. CASE Done(w)
    BY <1>2, <2>1
  <2>2. CASE ~Done(w)
    BY <1>1, <1>8, <2>2
    DEF Get, Snapshot, AssertPeriodOpen, Goto, LocalTypes, Untouched
  <2> QED BY <2>1, <2>2
<1>9. CASE Write(w) \/ Confirm(w)
  BY <1>2, <1>4, <1>9 DEF Write, Confirm
<1>10. CASE DeleteIfPotential(w)
  <2>1. CASE Done(w)
    BY <1>2, <2>1
  <2>2. CASE ~Done(w)
    BY <1>1, <1>10, <2>2 DEF DeleteIfPotential, Goto, LocalTypes, Untouched
  <2> QED BY <2>1, <2>2
<1>11. CASE Find(w)
  BY <1>1, <1>11 DEF Find, Goto, MaintainThen, LocalTypes, Untouched
<1>12. CASE InsertRealization(w) \/ InsertCancellation(w)
  BY <1>1, <1>12
  DEF InsertRealization, InsertCancellation, Goto, MaintainThen, LocalTypes, Untouched
<1>13. CASE Refind(w)
  <2>1. CASE Done(w)
    BY <1>2, <2>1
  <2>2. CASE ~Done(w)
    BY <1>1, <1>13, <2>2 DEF Refind, Goto, LocalTypes, Untouched
  <2> QED BY <2>1, <2>2
<1> QED BY <1>5, <1>6, <1>7, <1>8, <1>9, <1>10, <1>11, <1>12, <1>13
    DEF RequestStep, RuleStep, DecisionStep

\* What a request knows of a rule, it read from the rule.
LEMMA SeenNext ==
  ASSUME IInv, NEW w \in Workers, RequestStep(w),
         pc'[w] \in {"period", "insert", "refind"}
  PROVE  /\ target'[w] = target[w]
         /\ \/ pc[w] \in {"period", "insert", "refind"} /\ seen'[w] = seen[w]
            \/ IsRule(target[w][1]) /\ seen'[w] = event[target[w][1]]
<1>1. LocalTypes
  BY TypeParts DEF IInv
<1>2. ASSUME Done(w) PROVE FALSE
  BY <1>1, <1>2 DEF Done, LocalTypes
<1>3. ~BeginRequest(w)
  BY <1>1
  DEF BeginRequest, BeginCreate, BeginUpdate, BeginOnRule, BeginOnAll, BeginDecision,
      Begin, LocalTypes
<1>4. CASE Maintain(w)
  BY <1>4 DEF Maintain
<1>5. ~(InsertEvent(w) \/ Reread(w) \/ DeleteIfConfirmed(w) \/ ClearPotential(w)
           \/ Answer(w) \/ Crash(w))
  BY <1>2
  DEF InsertEvent, Reread, DeleteIfConfirmed, ClearPotential, Answer, Crash
<1>6. ~(Get(w) \/ Write(w) \/ Confirm(w) \/ DeleteIfPotential(w) \/ Find(w) \/ Refind(w))
  BY <1>1, <1>2
  DEF Get, Write, Confirm, DeleteIfPotential, Find, Refind, Goto, MaintainThen, LocalTypes
<1>7. CASE Snapshot(w)
  BY <1>1, <1>2, <1>7 DEF Snapshot, MayDecide, IsConfirmed, Goto, LocalTypes
<1>8. CASE AssertPeriodOpen(w)
  BY <1>1, <1>2, <1>8 DEF AssertPeriodOpen, At, Goto, LocalTypes
<1>9. CASE InsertRealization(w) \/ InsertCancellation(w)
  BY <1>1, <1>9
  DEF InsertRealization, InsertCancellation, At, Goto, MaintainThen, LocalTypes
<1> QED BY <1>3, <1>4, <1>5, <1>6, <1>7, <1>8, <1>9
    DEF RequestStep, RuleStep, DecisionStep

\* What a step makes of the decisions and the records of realizations.
Realizes(w) ==
  /\ InsertRealization(w)
  /\ Free(target[w])
  /\ pc'[w] = "answer" /\ verdict'[w] = "done" /\ UNCHANGED <<target, input, kind>>
  /\ \E i \in OpIds :
       /\ ops[i] = NoOp
       /\ ops' = [ops EXCEPT ![i] = OperationOf(input[w], seen[w].amount)]
       /\ decision' = [decision EXCEPT ![target[w]] =
                         [status |-> "REALIZED", amount |-> seen[w].amount,
                          operation |-> i]]
       /\ realized' = realized \cup
            {[occurrence |-> target[w], command |-> input[w],
              operation |-> OperationOf(input[w], seen[w].amount)]}

Cancels(w) ==
  /\ InsertCancellation(w)
  /\ Free(target[w])
  /\ pc'[w] = "answer" /\ verdict'[w] = "done" /\ UNCHANGED <<target, input, kind>>
  /\ decision' = [decision EXCEPT ![target[w]] =
                    [status |-> "CANCELED", amount |-> seen[w].amount,
                     operation |-> NoOp]]
  /\ UNCHANGED <<ops, realized>>

LEMMA TablesNext ==
  ASSUME IInv, NEW w \in Workers, RequestStep(w)
  PROVE  \/ UNCHANGED <<decision, ops, realized>>
         \/ Realizes(w)
         \/ Cancels(w)
<1>1. LocalTypes /\ target[w] \in Occurrences /\ ops \in [OpIds -> Operation \cup {NoOp, Deleted}]
  BY TypeParts DEF IInv, TypeOK
<1>2. CASE InsertRealization(w)
  <2>1. CASE ~Free(target[w])
    BY <1>2, <2>1 DEF InsertRealization
  <2>2. CASE Free(target[w])
    <3>1. PICK i \in OpIds :
            /\ ops[i] = NoOp
            /\ ops' = [ops EXCEPT ![i] = OperationOf(input[w], seen[w].amount)]
            /\ decision' = [decision EXCEPT ![target[w]] =
                              [status |-> "REALIZED", amount |-> seen[w].amount,
                               operation |-> i]]
            /\ realized' = realized \cup
                 {[occurrence |-> target[w], command |-> input[w],
                   operation |-> ops'[i]]}
            /\ Goto(w, "answer")
            /\ verdict' = [verdict EXCEPT ![w] = "done"]
      BY <1>2, <2>2 DEF InsertRealization
    <3>2. ops'[i] = OperationOf(input[w], seen[w].amount)
      BY <1>1, <3>1
    <3>3. /\ pc'[w] = "answer" /\ verdict'[w] = "done"
          /\ UNCHANGED <<target, input, kind>>
      BY <1>1, <3>1 DEF Goto, LocalTypes
    <3> QED BY <1>2, <2>2, <3>1, <3>2, <3>3 DEF Realizes
  <2> QED BY <2>1, <2>2
<1>3. CASE InsertCancellation(w)
  BY <1>1, <1>3 DEF InsertCancellation, Cancels, Goto, LocalTypes
<1>4. CASE Answer(w)
  BY <1>4 DEF Answer
<1>5. CASE ~InsertRealization(w) /\ ~InsertCancellation(w) /\ ~Answer(w)
  <2>1. decision' = decision
    BY <1>5, RequestsStutter DEF RequestStep
  <2>2. UNCHANGED <<ops, realized>>
    BY <1>5
    DEF RequestStep, RuleStep, DecisionStep, BeginRequest, BeginCreate, BeginUpdate,
        BeginOnRule, BeginOnAll, BeginDecision, Begin, Maintain, InsertEvent, Get, Write,
        Reread, Confirm, DeleteIfPotential, DeleteIfConfirmed, ClearPotential, Find,
        Snapshot, AssertPeriodOpen, Refind, Crash
  <2> QED BY <2>1, <2>2
<1> QED BY <1>2, <1>3, <1>4, <1>5

\* What a step makes of a rule when nobody updates rules.
LEMMA RuleNext ==
  ASSUME IInv, NoUpdate, NEW w \in Workers, RequestStep(w), NEW e \in Events, IsRule(e)'
  PROVE  \/ IsRule(e) /\ event'[e].amount = event[e].amount
         \/ event[e] = NoEvent /\ InsertEvent(w) /\ event'[e] = input[w]
<1>1. /\ event \in [Events -> Rule \cup {NoEvent, Deleted}] /\ event'[e] \in Rule
      /\ Deleted \notin Rule /\ target[w][1] \in Events
  BY SentinelAssumption DEF IInv, TypeOK, IsRule, Occurrences
<1>2. CASE event'[e] = event[e]
  BY <1>1, <1>2 DEF IsRule
<1>3. CASE InsertEvent(w)
  BY <1>1, <1>3 DEF InsertEvent, IsRule
<1>4. CASE Maintain(w) \/ ClearPotential(w) \/ DeleteIfPotential(w) \/ DeleteIfConfirmed(w)
  BY <1>1, <1>4
  DEF Maintain, ClearPotential, DeleteIfPotential, DeleteIfConfirmed, DeletePotential,
      IsRule
<1>5. CASE Confirm(w)
  BY <1>1, <1>5 DEF Confirm, IsPotential, IsRule, Rule
<1>6. ~Write(w)
  BY DEF Write, At, NoUpdate
<1>7. CASE BeginRequest(w) \/ Get(w) \/ Reread(w) \/ DecisionStep(w) \/ Crash(w)
  BY <1>2, <1>7
  DEF BeginRequest, BeginCreate, BeginUpdate, BeginOnRule, BeginOnAll, BeginDecision,
      Begin, Get, Reread, DecisionStep, Find, Snapshot, AssertPeriodOpen,
      InsertRealization, InsertCancellation, Refind, Answer, Crash
<1> QED BY <1>3, <1>4, <1>5, <1>6, <1>7 DEF RequestStep, RuleStep

\* Nobody knows anything of a rule that does not exist.
LEMMA NobodyKnows ==
  ASSUME IInv, NEW e \in Events, event[e] = NoEvent, NEW x
  PROVE  ~KnownAs(e, x)
<1>1. ~Decidable(e) /\ ~IsRule(e)
  BY SentinelAssumption DEF Decidable, IsConfirmed, IsRule
<1> QED BY <1>1 DEF IInv, DecidedRules, DecisionShape, KnownAs

\* A request that read a rule keeps the amount it had; nobody learns another.
LEMMA KnownNext ==
  ASSUME IInv, NoUpdate, NEW w \in Workers, RequestStep(w), NEW e \in Events, NEW x,
         KnownAs(e, x)'
  PROVE  \/ KnownAs(e, x)
         \/ event[e] = NoEvent /\ IsRule(e)' /\ x = event'[e].amount
<1>1. ASSUME IsRule(e)', event'[e].amount = x
      PROVE  \/ KnownAs(e, x)
             \/ event[e] = NoEvent /\ IsRule(e)' /\ x = event'[e].amount
  BY <1>1, RuleNext DEF KnownAs
<1>2. ASSUME NEW v \in Workers, pc'[v] \in {"period", "insert", "refind"},
             target'[v][1] = e, seen'[v].amount = x
      PROVE  KnownAs(e, x)
  <2>1. CASE v # w
    BY <1>2, <2>1, OthersUntouched DEF Untouched, KnownAs
  <2>2. CASE v = w
    BY <1>2, <2>2, SeenNext DEF KnownAs
  <2> QED BY <2>1, <2>2
<1>3. ASSUME NEW o \in Occurrences, o[1] = e, decision'[o] # NoDecision,
             decision'[o].amount = x
      PROVE  KnownAs(e, x)
  <2>1. CASE decision'[o] = decision[o]
    BY <1>3, <2>1 DEF KnownAs
  <2>2. CASE decision'[o] # decision[o]
    <3>1. /\ o = target[w] /\ decision'[o].amount = seen[w].amount /\ pc[w] = "insert"
      BY <2>2, TablesNext
      DEF Realizes, Cancels, InsertRealization, InsertCancellation, At, IInv, TypeOK
    <3> QED BY <1>3, <3>1 DEF KnownAs
  <2> QED BY <2>1, <2>2
<1> QED BY <1>1, <1>2, <1>3 DEF KnownAs

LEMMA OneAmountNext ==
  ASSUME IInv, NoUpdate, OneAmount, NEW w \in Workers, RequestStep(w)
  PROVE  OneAmount'
<1> SUFFICES ASSUME NEW e \in Events, NEW x, NEW y, KnownAs(e, x)', KnownAs(e, y)'
             PROVE  x = y
  BY DEF OneAmount, KnownAs, IsRule
<1>1. CASE event[e] = NoEvent
  BY <1>1, KnownNext, NobodyKnows
<1>2. CASE event[e] # NoEvent
  <2>1. KnownAs(e, x) /\ KnownAs(e, y)
    BY <1>2, KnownNext
  <2> QED BY <2>1 DEF OneAmount
<1> QED BY <1>1, <1>2

\* Decisions stay made, and a realization makes one.
LEMMA DecisionNext ==
  ASSUME IInv, NEW w \in Workers, RequestStep(w)
  PROVE  /\ Keeps
         /\ Realizes(w) => decision'[target[w]] # NoDecision
<1>1. Keeps
  BY NextInv DEF RequestStep, Next
<1>2. ASSUME Realizes(w) PROVE decision'[target[w]] # NoDecision
  <2>1. target[w] \in Occurrences /\ seen[w].amount \in Amounts
    BY <1>2 DEF Realizes, InsertRealization, At, IInv, TypeOK, DecisionShape, Rule
  <2>2. PICK i \in OpIds :
          decision' = [decision EXCEPT ![target[w]] =
                         [status |-> "REALIZED", amount |-> seen[w].amount,
                          operation |-> i]]
    BY <1>2 DEF Realizes
  <2>3. [status |-> "REALIZED", amount |-> seen[w].amount, operation |-> i] \in Decision
    BY <2>1 DEF Decision
  <2> QED BY <2>1, <2>2, <2>3, SentinelAssumption DEF IInv, TypeOK
<1> QED BY <1>1, <1>2

\* Records and decisions stay together.
LEMMA RecordsNext ==
  ASSUME IInv, RealizationsRecorded, NEW w \in Workers, RequestStep(w)
  PROVE  RealizationsRecorded'
<1>1. /\ decision \in [Occurrences -> Decision \cup {NoDecision}]
      /\ ops \in [OpIds -> Operation \cup {NoOp, Deleted}]
      /\ target[w] \in Occurrences /\ NoOp \notin OpIds /\ NoOp \notin Operation
      /\ \A r \in realized : r.occurrence \in Occurrences
  BY SentinelAssumption DEF IInv, TypeOK
<1>2. CASE UNCHANGED <<decision, ops, realized>>
  BY <1>2 DEF RealizationsRecorded
<1>3. CASE Cancels(w)
  <2>1. /\ decision'[target[w]].status = "CANCELED"
        /\ \A o \in Occurrences : o # target[w] => decision'[o] = decision[o]
        /\ decision[target[w]] = NoDecision /\ ops' = ops /\ realized' = realized
    BY <1>1, <1>3 DEF Cancels, Free
  <2>2. \A r \in realized : r.occurrence # target[w]
    BY <2>1 DEF RealizationsRecorded
  <2> QED BY <1>1, <2>1, <2>2 DEF RealizationsRecorded
<1>4. CASE Realizes(w)
  <2>10. PICK a : a = seen[w].amount
    OBVIOUS
  <2>11. PICK p : p = OperationOf(input[w], a)
    OBVIOUS
  <2>0. PICK i \in OpIds :
          /\ ops[i] = NoOp
          /\ ops' = [ops EXCEPT ![i] = p]
          /\ decision' = [decision EXCEPT ![target[w]] =
                            [status |-> "REALIZED", amount |-> a, operation |-> i]]
          /\ realized' = realized \cup
               {[occurrence |-> target[w], command |-> input[w], operation |-> p]}
    BY <1>4, <2>10, <2>11 DEF Realizes
  <2>1. /\ ops[i] = NoOp
        /\ p = OperationOf(input[w], a) /\ a = seen[w].amount
        /\ ops' = [ops EXCEPT ![i] = p]
        /\ decision' = [decision EXCEPT ![target[w]] =
                          [status |-> "REALIZED", amount |-> a, operation |-> i]]
        /\ realized' = realized \cup
             {[occurrence |-> target[w], command |-> input[w], operation |-> p]}
    BY <2>0, <2>10, <2>11
  <2>2. /\ decision[target[w]] = NoDecision
        /\ decision'[target[w]] = [status |-> "REALIZED", amount |-> a, operation |-> i]
        /\ \A o \in Occurrences : o # target[w] => decision'[o] = decision[o]
        /\ ops'[i] = p
        /\ \A j \in OpIds : j # i => ops'[j] = ops[j]
    BY <1>1, <1>4, <2>1 DEF Realizes, Free
  <2>3. ASSUME NEW o \in Occurrences, decision'[o] # NoDecision,
               decision'[o].status = "REALIZED"
        PROVE  decision'[o].operation # NoOp /\ \E r \in realized' : r.occurrence = o
    <3>1. CASE o = target[w]
      <4>1. PICK r \in realized' :
              r = [occurrence |-> target[w], command |-> input[w], operation |-> p]
        BY <2>1
      <4>2. r.occurrence = o /\ decision'[o].operation = i
        BY <2>2, <3>1, <4>1
      <4> QED BY <1>1, <4>1, <4>2
    <3>2. CASE o # target[w]
      BY <2>1, <2>2, <2>3, <3>2 DEF RealizationsRecorded
    <3> QED BY <3>1, <3>2
  <2>4. ASSUME NEW r \in realized'
        PROVE  LET d == decision'[r.occurrence]
               IN  /\ d # NoDecision /\ d.status = "REALIZED"
                   /\ r.operation = ops'[d.operation]
                   /\ r.operation = OperationOf(r.command, d.amount)
    <3>1. CASE r \in realized
      <4>1. /\ decision[r.occurrence] # NoDecision
            /\ decision[r.occurrence].status = "REALIZED"
            /\ r.operation = ops[decision[r.occurrence].operation]
            /\ r.operation = OperationOf(r.command, decision[r.occurrence].amount)
            /\ r.occurrence \in Occurrences
            /\ decision[r.occurrence].operation # NoOp
        BY <1>1, <3>1 DEF RealizationsRecorded
      <4>2. decision'[r.occurrence] = decision[r.occurrence]
        BY <2>2, <4>1
      <4>3. /\ decision[r.occurrence].operation \in OpIds
            /\ ops[decision[r.occurrence].operation] \in Operation
        BY <1>1, <4>1 DEF IInv, OperationsAreDecided, Decision
      <4>4. ops'[decision[r.occurrence].operation] = ops[decision[r.occurrence].operation]
        BY <1>1, <2>1, <2>2, <4>3
      <4> QED BY <4>1, <4>2, <4>4
    <3>2. CASE r \notin realized
      <4>1. r = [occurrence |-> target[w], command |-> input[w], operation |-> p]
        BY <2>1, <3>2
      <4>2. decision'[target[w]] # NoDecision
        BY <1>4 , <2>2, DecisionNext
      <4> QED BY <2>1, <2>2, <4>1, <4>2
    <3> QED BY <3>1, <3>2
  <2> QED BY <2>3, <2>4 DEF RealizationsRecorded
<1> QED BY <1>2, <1>3, <1>4, TablesNext

\* What was found out of the past stays true.
LEMMA AnswersStay ==
  ASSUME IInv, NEW w \in Workers, RequestStep(w),
         NEW o \in Occurrences, NEW c, NEW answer, RightAnswer(o, c, answer)
  PROVE  RightAnswer(o, c, answer)'
<1>1. realized \subseteq realized'
  BY TablesNext DEF Realizes, Cancels
<1>2. Succeeded(o, c) => Succeeded(o, c)'
  BY <1>1 DEF Succeeded
<1>3. ASSUME NeverSucceeds(o, c) PROVE NeverSucceeds(o, c)'
  <2>1. decision'[o] # NoDecision
    BY <1>3, DecisionNext DEF NeverSucceeds, Keeps
  <2>2. ASSUME NEW r \in realized', r \notin realized
        PROVE  r.occurrence # o
    <3>1. Realizes(w)
      BY <2>2, TablesNext DEF Cancels
    <3>2. PICK p : r = [occurrence |-> target[w], command |-> input[w], operation |-> p]
      BY <2>2, <3>1 DEF Realizes
    <3> QED BY <1>3, <3>1, <3>2 DEF Realizes, Free, NeverSucceeds
  <2> QED BY <1>3, <2>1, <2>2 DEF NeverSucceeds
<1> QED BY <1>2, <1>3 DEF RightAnswer

\* The answer to a request that meets a decision is the right one.
LEMMA VerdictIsRight ==
  ASSUME IInv, RealizationsRecorded, NEW w \in Workers, kind[w] = "realize",
         input[w] \in Command, target[w] \in Occurrences,
         NEW d, d = decision[target[w]], d # NoDecision
  PROVE  RightAnswer(target[w], input[w], VerdictOn(w, d, d.amount))
<1> DEFINE p == OperationOf(input[w], d.amount)
<1>1. /\ VerdictOn(w, d, d.amount) = "replayed" => ReplaysRealization(d, p)
      /\ VerdictOn(w, d, d.amount) = "refused" => ~ReplaysRealization(d, p)
  BY DEF VerdictOn
<1>2. /\ p.month = input[w].month
      /\ input[w].amount \in {Default, p.amount}
  BY DEF OperationOf
<1> HIDE DEF p
<1>3. ASSUME ReplaysRealization(d, p) PROVE Succeeded(target[w], input[w])
  <2>1. /\ d.status = "REALIZED" /\ ops[d.operation] = p
    BY <1>3 DEF ReplaysRealization
  <2>2. PICK r \in realized : r.occurrence = target[w]
    BY <2>1 DEF RealizationsRecorded
  <2>3. r.operation = p
    BY <2>1, <2>2 DEF RealizationsRecorded
  <2> QED BY <1>2, <2>2, <2>3 DEF Succeeded
<1>4. ASSUME ~ReplaysRealization(d, p) PROVE NeverSucceeds(target[w], input[w])
  <2> SUFFICES ASSUME NEW r \in realized, r.occurrence = target[w], r.command = input[w]
               PROVE  FALSE
    BY DEF NeverSucceeds
  <2>1. /\ d.status = "REALIZED" /\ d.operation # NoOp
        /\ r.operation = ops[d.operation]
        /\ r.operation = OperationOf(input[w], d.amount)
    BY DEF RealizationsRecorded
  <2> QED BY <1>4, <2>1 DEF ReplaysRealization, p
<1> QED BY <1>1, <1>3, <1>4 DEF RightAnswer

\* The request that moves answers rightly.
LEMMA VerdictNext ==
  ASSUME NEW w \in Workers, IInv, RealizationsRecorded, OneAmount, VerdictRight(w),
         RequestStep(w), pc'[w] = "answer", kind'[w] = "realize"
  PROVE  VerdictRight(w)'
<1>1. LocalTypes
  BY TypeParts DEF IInv
<1>2. target[w] \in Occurrences /\ target[w][1] \in Events
  BY DEF IInv, TypeOK, Occurrences
<1>3. ASSUME Done(w) PROVE FALSE
  BY <1>1, <1>3 DEF Done, LocalTypes
<1>4. ASSUME pc[w] \in DecidingCalls, kind[w] = "realize" PROVE input[w] \in Command
  BY <1>4 DEF IInv, RequestShape
<1>5. ASSUME NEW d, d = decision[target[w]], d # NoDecision, Find(w) \/ Refind(w),
             Goto(w, "answer"), verdict' = [verdict EXCEPT ![w] = VerdictOn(w, d, d.amount)]
      PROVE  VerdictRight(w)'
  <2>1. /\ kind[w] = "realize" /\ UNCHANGED <<target, input, decision, realized>>
        /\ verdict'[w] = VerdictOn(w, d, d.amount)
    BY <1>1, <1>5 DEF Goto, LocalTypes, Find, Refind
  <2>2. input[w] \in Command
    BY <1>4, <1>5, <2>1 DEF Find, Refind, At, DecidingCalls
  <2>3. RightAnswer(target[w], input[w], VerdictOn(w, d, d.amount))
    BY <1>2, <1>5, <2>1, <2>2, VerdictIsRight
  <2> QED BY <2>1, <2>3 DEF VerdictRight, RightAnswer, Succeeded, NeverSucceeds
<1>6. CASE Find(w)
  BY <1>1, <1>5, <1>6 DEF Find, MaintainThen, LocalTypes
<1>7. CASE Refind(w)
  <2>1. PICK d : d = decision[target[w]]
    OBVIOUS
  <2>2. /\ d # NoDecision /\ Goto(w, "answer") /\ pc[w] = "refind"
        /\ verdict' = [verdict EXCEPT ![w] = VerdictOn(w, d, seen[w].amount)]
    BY <1>3, <1>7, <2>1 DEF Refind, At
  <2>3. KnownAs(target[w][1], d.amount) /\ KnownAs(target[w][1], seen[w].amount)
    BY <1>2, <2>1, <2>2 DEF KnownAs
  <2>4. seen[w].amount = d.amount
    BY <1>2, <2>3 DEF OneAmount
  <2> QED BY <1>5, <1>7, <2>1, <2>2, <2>4
<1>8. CASE InsertRealization(w) \/ InsertCancellation(w)
  <2>1. verdict'[w] = "done"
    BY <1>1, <1>8 DEF InsertRealization, InsertCancellation, MaintainThen, LocalTypes
  <2> QED BY <2>1 DEF VerdictRight, RightAnswer
<1>9. CASE Maintain(w)
  <2>1. UNCHANGED <<pc, kind, target, input, verdict>>
    BY <1>9 DEF Maintain
  <2>2. RightAnswer(target[w], input[w], verdict[w])
    BY <2>1 DEF VerdictRight
  <2>3. RightAnswer(target[w], input[w], verdict[w])'
    BY <1>2, <2>1, <2>2, AnswersStay
  <2> QED BY <2>3 DEF VerdictRight
<1>10. ~(BeginRequest(w) \/ InsertEvent(w) \/ Get(w) \/ Write(w) \/ Reread(w) \/ Confirm(w)
            \/ DeleteIfPotential(w) \/ DeleteIfConfirmed(w) \/ ClearPotential(w)
            \/ Snapshot(w) \/ AssertPeriodOpen(w) \/ Answer(w) \/ Crash(w))
  BY <1>1, <1>3
  DEF BeginRequest, BeginCreate, BeginUpdate, BeginOnRule, BeginOnAll, BeginDecision,
      Begin, InsertEvent, Get, Write, Reread, Confirm, DeleteIfPotential,
      DeleteIfConfirmed, ClearPotential, Snapshot, AssertPeriodOpen, Answer, Crash, Goto,
      MaintainThen, LocalTypes
<1> QED BY <1>6, <1>7, <1>8, <1>9, <1>10 DEF RequestStep, RuleStep, DecisionStep

\* A step of a request keeps the promise to repeated commands.
LEMMA RepetitionNext ==
  ASSUME IInv, RepetitionInv, NEW w \in Workers, RequestStep(w), NoUpdate'
  PROVE  RepetitionInv'
<1>1. OneAmount' /\ RealizationsRecorded'
  BY OneAmountNext, RecordsNext DEF RepetitionInv
<1>2. ASSUME NEW v \in Workers PROVE VerdictRight(v)'
  <2>1. CASE v = w
    BY <2>1, VerdictNext DEF RepetitionInv, VerdictRight
  <2>2. CASE v # w
    <3>1. Untouched(v) /\ VerdictRight(v) /\ target[v] \in Occurrences
      BY <2>2, OthersUntouched DEF RepetitionInv, IInv, TypeOK
    <3>2. ASSUME RightAnswer(target[v], input[v], verdict[v])
          PROVE  RightAnswer(target[v], input[v], verdict[v])'
      <4>0. PICK o \in Occurrences : o = target[v]
        BY <3>1
      <4>1. PICK c, a : c = input[v] /\ a = verdict[v]
        OBVIOUS
      <4>2. RightAnswer(o, c, a)'
        BY <3>2, <4>0, <4>1, AnswersStay
      <4> QED BY <3>1, <4>0, <4>1, <4>2 DEF Untouched, RightAnswer, Succeeded, NeverSucceeds
    <3> QED BY <3>1, <3>2 DEF VerdictRight, Untouched
  <2> QED BY <2>1, <2>2
<1>3. AnswersRight'
  <2> SUFFICES ASSUME NEW a \in answered', a.kind = "realize"
               PROVE  RightAnswer(a.occurrence, a.command, a.answer)'
    BY DEF AnswersRight
  <2>1. CASE a \in answered
    <3>1. a.occurrence \in Occurrences /\ RightAnswer(a.occurrence, a.command, a.answer)
      BY <2>1 DEF IInv, TypeOK, RepetitionInv, AnswersRight
    <3> QED BY <3>1, AnswersStay
  <2>2. CASE a \notin answered
    <3>1. Answer(w)
      BY <2>2
      DEF RequestStep, RuleStep, DecisionStep, BeginRequest, BeginCreate, BeginUpdate,
          BeginOnRule, BeginOnAll, BeginDecision, Begin, Maintain, InsertEvent, Get,
          Write, Reread, Confirm, DeleteIfPotential, DeleteIfConfirmed, ClearPotential,
          Find, Snapshot, AssertPeriodOpen, InsertRealization, InsertCancellation,
          Refind, Crash
    <3>2. /\ a = [kind |-> kind[w], occurrence |-> target[w], command |-> input[w],
                  answer |-> verdict[w]]
          /\ pc[w] = "answer"
      BY <2>2, <3>1 DEF Answer, At
    <3>3. RightAnswer(target[w], input[w], verdict[w]) /\ target[w] \in Occurrences
      BY <3>2 DEF RepetitionInv, VerdictRight, IInv, TypeOK
    <3>4. RightAnswer(a.occurrence, a.command, a.answer) /\ a.occurrence \in Occurrences
      BY <3>2, <3>3
    <3> QED BY <3>4, AnswersStay
  <2> QED BY <2>1, <2>2
<1> QED BY <1>1, <1>2, <1>3 DEF RepetitionInv

\* The steps of every request but an update.
OtherRequest(w) ==
  \/ BeginCreate(w) \/ BeginOnRule(w) \/ BeginOnAll(w) \/ BeginDecision(w)
  \/ RuleStep(w) \/ DecisionStep(w) \/ Crash(w)

\* Only a request to update leads to an update.
LEMMA UpdateBegins ==
  ASSUME IInv, NoUpdate, NEW w \in Workers, OtherRequest(w)
  PROVE  RequestStep(w) /\ NoUpdate'
<1>1. LocalTypes /\ RequestStep(w)
  BY TypeParts DEF IInv, OtherRequest, RequestStep, BeginRequest
<1> SUFFICES ASSUME NEW v \in Workers PROVE pc'[v] \notin {"get", "write"}
  BY <1>1 DEF NoUpdate
<1>2. CASE v # w
  BY <1>1, <1>2, OthersUntouched DEF Untouched, NoUpdate
<1>3. CASE v = w
  <2>1. CASE BeginCreate(w) \/ BeginOnRule(w) \/ BeginOnAll(w) \/ BeginDecision(w)
    BY <1>1, <1>3, <2>1
    DEF BeginCreate, BeginOnRule, BeginOnAll, BeginDecision, Begin,
        LocalTypes
  <2>2. CASE RuleStep(w)
    BY <1>1, <1>3, <2>2
    DEF RuleStep, Maintain, InsertEvent, Get, Write, Reread, Confirm, DeleteIfPotential,
        DeleteIfConfirmed, ClearPotential, At, Done, Goto, MaintainThen, LocalTypes,
        NoUpdate
  <2>3. CASE DecisionStep(w) \/ Crash(w)
    BY <1>1, <1>3, <2>3
    DEF DecisionStep, Find, Snapshot, AssertPeriodOpen, InsertRealization,
        InsertCancellation, Refind, Answer, Crash, Done, Goto, MaintainThen, LocalTypes
  <2> QED BY <2>1, <2>2, <2>3 DEF OtherRequest
<1> QED BY <1>2, <1>3

LEMMA InitRepetition == Init => RepetitionInv
<1> SUFFICES ASSUME Init PROVE RepetitionInv
  OBVIOUS
<1>1. \A e \in Events : \A x : KnownAs(e, x) => x = event[e].amount
  BY DEF Init, KnownAs
<1>2. OneAmount
  BY <1>1 DEF OneAmount
<1>3. NoUpdate /\ RealizationsRecorded /\ AnswersRight
      /\ \A w \in Workers : VerdictRight(w)
  BY DEF Init, NoUpdate, RealizationsRecorded, AnswersRight, VerdictRight
<1> QED BY <1>2, <1>3 DEF RepetitionInv

\* What the invariant promises to those who repeat a command.
LEMMA RepetitionsAnswered ==
  ASSUME IInv, RepetitionInv
  PROVE  RepeatIsReplayed /\ ReplayHadSucceeded
<1>1. RepeatIsReplayed
  BY DEF RepetitionInv, AnswersRight, RightAnswer, NeverSucceeds, RepeatIsReplayed
<1>2. ReplayHadSucceeded
  BY DEF RepetitionInv, AnswersRight, RightAnswer, Succeeded, ReplayHadSucceeded
<1> QED BY <1>1, <1>2

\* The clock plays no part.
LEMMA StillRepeating ==
  ASSUME RepetitionInv, UNCHANGED <<event, decision, ops, pc, kind, target, input, seen,
                                    verdict, realized, answered>>
  PROVE  RepetitionInv'
<1>1. \A e \in Events : \A x : KnownAs(e, x)' => KnownAs(e, x)
  BY DEF KnownAs, IsRule
<1>2. OneAmount'
  <2> SUFFICES ASSUME NEW e \in Events, NEW x, NEW y, KnownAs(e, x)', KnownAs(e, y)'
               PROVE  x = y
    BY DEF OneAmount, KnownAs, IsRule
  <2> QED BY <1>1 DEF RepetitionInv, OneAmount
<1>3. NoUpdate' /\ RealizationsRecorded'
  BY DEF RepetitionInv, NoUpdate, RealizationsRecorded
<1>4. AnswersRight' /\ \A w \in Workers : VerdictRight(w)'
  BY DEF RepetitionInv, AnswersRight, VerdictRight, RightAnswer, Succeeded, NeverSucceeds
<1> QED BY <1>2, <1>3, <1>4 DEF RepetitionInv

\* In the scenario of repeated commands, with any number of requests dying
\* between any two calls, a command that succeeded is never refused when it is
\* repeated and a replay repeats one that succeeded.
THEOREM RepeatedCommandsAgree == ScenarioSpec => []RepetitionsAgree
<1> DEFINE Repeating == scenario = "repetition" => RepetitionInv
<1>1. ScenarioInit => IInv /\ Repeating
  BY InitInv, InitRepetition DEF ScenarioInit
<1>2. IInv /\ Repeating /\ [ScenarioNext]_<<vars, scenario>> => IInv' /\ Repeating'
  <2> SUFFICES ASSUME IInv, Repeating, [ScenarioNext]_<<vars, scenario>>
               PROVE  IInv' /\ Repeating'
    OBVIOUS
  <2>1. ASSUME NEW w \in Workers, Repetition(w)
        PROVE  IInv' /\ Repeating'
    <3>1. OtherRequest(w)
      BY <2>1 DEF Repetition, Serve, OtherRequest
    <3>2. RepetitionInv /\ RequestStep(w) /\ NoUpdate'
      BY <2>1, <3>1, UpdateBegins DEF Repetition, RepetitionInv
    <3>3. IInv' /\ RepetitionInv'
      BY <3>2, NextInv, RepetitionNext DEF RequestStep, Next
    <3> QED BY <3>3
  <2>2. ASSUME NEW w \in Workers, Maintenance(w) \/ Race(w)
        PROVE  IInv' /\ Repeating'
    <3>1. BeginRequest(w) \/ RuleStep(w) \/ DecisionStep(w)
      BY <2>2 DEF Maintenance, Race, Serve, BeginRequest
    <3>2. scenario' # "repetition"
      BY <2>2 DEF Maintenance, Race, ScenarioNext
    <3> QED BY <3>1, <3>2, NextInv DEF Next
  <2>3. ASSUME RaceOnOperation \/ (scenario # "repetition" /\ Rollover),
               UNCHANGED scenario
        PROVE  IInv' /\ Repeating'
    <3>1. EditOperation \/ RemoveOperation \/ Rollover
      BY <2>3 DEF RaceOnOperation
    <3>2. scenario' # "repetition"
      BY <2>3 DEF RaceOnOperation
    <3>3. IInv'
      BY <3>1, NextInv DEF Next
    <3> QED BY <3>2, <3>3
  <2>4. CASE UNCHANGED <<vars, scenario>>
    <3>1. IInv'
      BY <2>4, NextInv
    <3>2. Repeating'
      BY <2>4, StillRepeating DEF vars
    <3> QED BY <3>1, <3>2
  <2> QED BY <2>1, <2>2, <2>3, <2>4 DEF ScenarioNext
<1>3. IInv /\ Repeating => RepetitionsAgree
  BY RepetitionsAnswered DEF RepetitionsAgree
<1> HIDE DEF Repeating
<1> QED BY <1>1, <1>2, <1>3, PTL DEF ScenarioSpec

\* The same of every behaviour in which nobody updates a rule, edits an
\* operation or deletes one: rules may be created, confirmed, deleted and expire
\* and months may end between a command and its repetition.
THEOREM RepetitionsKept ==
  ASSUME Requests \cap {"update", "edit", "remove"} = {}
  PROVE  Spec => [](RepeatIsReplayed /\ ReplayHadSucceeded)
<1>1. Init => IInv /\ RepetitionInv
  BY InitInv, InitRepetition
<1>2. IInv /\ RepetitionInv /\ [Next]_vars => IInv' /\ RepetitionInv'
  <2> SUFFICES ASSUME IInv, RepetitionInv, [Next]_vars PROVE IInv' /\ RepetitionInv'
    OBVIOUS
  <2>1. ASSUME NEW w \in Workers, RequestStep(w) PROVE RepetitionInv'
    <3>1. ~BeginUpdate(w)
      BY DEF BeginUpdate, Begin
    <3>2. OtherRequest(w)
      BY <2>1, <3>1 DEF RequestStep, BeginRequest, OtherRequest
    <3>3. RequestStep(w) /\ NoUpdate'
      BY <3>2, UpdateBegins DEF RepetitionInv
    <3> QED BY <3>3, RepetitionNext
  <2>2. ~EditOperation /\ ~RemoveOperation
    BY DEF EditOperation, RemoveOperation
  <2>3. ASSUME Rollover \/ UNCHANGED vars PROVE RepetitionInv'
    BY <2>3, StillRepeating DEF Rollover, vars
  <2> QED BY <2>1, <2>2, <2>3, NextInv DEF Next, RequestStep
<1>3. IInv /\ RepetitionInv => RepeatIsReplayed /\ ReplayHadSucceeded
  BY RepetitionsAnswered
<1> QED BY <1>1, <1>2, <1>3, PTL DEF Spec
=============================================================================
