# A verification project for my-happy-wallet-backend

The backend keeps the personal budget of its users: one-off operations, fixed
charges and incomes, recurring events, envelopes and savings goals, and from
them a chain of monthly balances. It is an Express server in TypeScript over
MySQL (through Prisma, isolation REPEATABLE READ) and Redis. Paths below are
those of the repository (`src/modules/...`, `docs/...`).

This directory holds TLA+ modules translated from that code, the TLC runs that
check them on small instances, and theorems that TLAPS checks for every
instance. `PROJECT.json` is the index: components, runs, the source lines of
every definition, findings, hazards, theorems.

To run: `tlc -config BudgetLifecycle.cfg MCBudgetPeriods`, `tlapm BudgetPeriodsProofs.tla`.

## 1. The system

One Node process (or several) serves requests. Handlers are asynchronous: at
every `await` another request of the same owner may run, so the unit of
interleaving is one repository call or one database transaction. The only
mutex is `lockReconciliationOwner`, a `SELECT ... FOR UPDATE` on the owner's row
inside a transaction; inserts that reference the owner wait for it too, through
the foreign key.

| Component | State it keeps | Operations | What is hard | What makes it correct |
| --- | --- | --- | --- | --- |
| Budget periods (`budgetPeriods`) | `BudgetPeriod`: status, fixed snapshot, totals, carry, revision | `summarize`, `resolve`, `previousClosed`, `open`, `updateOpenFixedSnapshot`, `close`, `recalculateFrom`, forecast and history reads | periods are derived lazily, month by month, while operations change; corrections run after the commit | every stored balance equals what the operations of its month and the month before give |
| One-off operations (`operations`) | `OneOffOperationRecord`, categories | create, update, delete, lists | the row before an update is read outside the transaction; a correction follows the commit | each write is counted once in the month it is dated |
| Event occurrences (`eventOccurrences`) | `EventOccurrenceResolution` | `realize`, `cancel`, lists of resolved and pending ones | two decisions on one occurrence; the period test precedes the insert | one decision per occurrence, at most one operation for it, replays give it back |
| Monthly events (`monthlyEvents`) | `EvenementMensuel`: rule, `POTENTIEL` or `CONFIRME` | create, update, confirm, delete, clear, expiry before every read | expiry and deletion race with confirmation and with decisions | a confirmed rule never becomes potential again; decisions outlive rules |
| Fixed operations (`operationsFixes`) | `OperationFixe`, `FixedOperationVersion` | create, plain edit, scheduled version, delete, totals of a month | a plain edit tests for versions outside any transaction | the past keeps the definition it had |
| Reconciliation (`reconciliation`) | `BudgetEnvelope`, `ReconciliationOccurrence`, `ReconciliationLink` | save and archive an envelope, materialize a month, edit a plan, link and unlink payments | several writers under the owner lock, with retries; plans frozen at first read | a payment settles at most one plan, of its own month and currency; closed months do not change |
| Financial goals (`financialGoals`) | `ObjectifFinancier` | CRUD, forecast, capacity, trajectories | arithmetic over calendars | the forecast reaches the goal exactly when the contributions do |
| Refresh sessions (`auth/refreshSession`) | `RefreshSession` | issue, rotate, revoke | two rotations of one token; bounded lifetime | one live token per session, renewed at most until its absolute end |
| Accounts (`user`) | `Utilisateur` | register, confirm, log in, reset and change the password, delete | several awaits between a test and its write | confirmation once; deletion leaves nothing behind |
| Pagination (`pagination`) | none | keyset pages | rows come and go between pages | a row that stays is listed once |
| Operation categories (`operations`) | `OneOffOperationCategory` | create, rename, delete, list | a category is tested in one call and written in another | what refers to a category refers to one that exists and suits it |
| Real budget, forecast, analytics, envelope reports | none | calculations over one read | two codes for one result: TypeScript and SQL, month by month and by division | two views of one thing agree, nothing is counted twice or lost |
| Release and deployment (`scripts/release.cjs`, `deploy-production.sh`) | the files of the project; the server | `prepare`, `notes`; one deployment | a run cut off between two writes | every change is told once; what runs finds its schema |
| Rate limiting, HTTP surface, mail, configuration, backup rehearsal | none of their own | routing, counters kept elsewhere | | |

How they interact: a write of a one-off operation commits under the owner lock,
then asks the budget engine to correct the chain (`BudgetCorrectionService`).
Realizing an occurrence inserts an operation without that correction. Fixed
operations and plans enter a period when it is opened or refreshed. Closing a
period takes the owner lock. The civil month comes from a clock
(`parisCivilDateClock`) read by each request at its own moment.

## 2. Modules

| Modules | What | Runs | Proofs |
| --- | --- | --- | --- |
| `BudgetPeriods` with `BudgetPreview`, `PeriodLifecycle` | the balance chain, its readers, its writers and the forecast's own reading of it; what the period table promises | `BudgetSequential`, `BudgetConcurrent`, `BudgetLifecycle`, `BudgetStaleCarry` | `BudgetPeriodsProofs`, `BudgetChainProofs` |
| `EventDecisions`, `EventScenarios`, `OccurrenceRegister` | rules, expiry, realize and cancel; the write-once registers they implement | `EventScenarios` | `EventDecisionsProofs` |
| `Envelopes`, `PaymentRegister` | fixed operations and their versions, envelopes, occurrences, payments; what the owner may rely on about linked payments | `EnvelopePayments`, `EnvelopeDeleted` | `EnvelopesProofs` |
| `Access`, `SessionRegister` | accounts and refresh sessions; what a session promises | `Access` | `AccessProofs` |
| `Listings` | every paged list while its rows change | `Listings` | `ListingsProofs` |
| `Catalogue` | categories and what refers to them; the deletion of the account | `Catalogue`, `AccountDeletion` | `CatalogueProofs` |
| `Calculations` over `Recurrence`, `EventPlans`, `MonthlyBudget`, `Savings`, `FixedCharges`, `Reporting`, `Release`, `Deployment`, `Calendar` | what keeps no state: one answer per request | `Calculations` | `CalculationsProofs` |

Each stateful component is a module of its own with its own abstraction of what
it shares with the others: the balance chain knows operations as dated units,
`EventDecisions` as results of decisions, `Envelopes` as linked payments,
`Catalogue` as references. Where two components meet in one transaction
(deleting an operation removes its link; realizing an event inserts an
operation; a closed period freezes its payments) the module that owns the
property has both sides.

All runs bound the number of requests (`MaxRequests`, `MaxCalls`,
`MaxChanges`) and set `CHECK_DEADLOCK FALSE`: a server without requests rests.

What could follow: a run of the chain with the bounds of its columns, the
balance chain composed with linked payments, and envelopes with more than one
charge.

## 3. Budget periods (`BudgetPeriods.tla`)

### State and actions

The database: `ops` (one-off operations), `fixed` (what `fixedTotals` gives for
each month), `row` (the `BudgetPeriod` of each month, `NoRow` before it is
opened), `lock` (the owner lock), `now` (the civil month). Each worker serves one
request: `pc` is the call it makes next, the other variables are the locals
that survive an `await`.

| Action | Code |
| --- | --- |
| `Create`, `ReadBefore`, `CommitUpdate`, `CommitDelete`, `CommitNotFound` | `OneOffOperationUseCases` and the transactions of its repository |
| `CheckPeriodOpen`, `InsertRealized` | `EventOccurrenceUseCases.realize`: `assertPeriodOpen`, then the insert |
| `Correct` | `BudgetCorrectionService.afterOperationChange`: earliest past month |
| `ListFrom`, `ComputePeriod`, `WritePeriod`, `WriteConflict` | `recalculateFrom`: list, recompute, conditional write, retry or `CONCURRENT_UPDATE` |
| `Summarize`, `FindPeriod`, `RefreshSnapshot`, `FirstActivity`, `OpenPeriod` | `summarize`, `resolve`, `previousClosed` and their repository calls |
| `CloseRead`, `CloseWrite` | the two halves of the `close` transaction, under the owner lock |
| `Rollover`, `ChangeFixed`, `Crash` | the clock, writes of fixed operations, the death of the process |

The mutual recursion of `resolve` and `previousClosed` is a walk: `cursor` goes
down from `top` while rows are missing, and back up opening and closing one
month at a time. It needs no stack because the frame of a month holds nothing
but the month itself and, on the way up, the closed row below it (`prev`).

Atomicity. A transaction that takes the owner lock first and then only writes
rows nobody else writes without it (the three writes of operations) is one
step, enabled while the lock is free. `close` is two steps, because
`recalculate` and `updateOpenFixedSnapshot` write the same row without the lock.
Its reads are one step: they come from the snapshot MySQL takes at the first
read after the lock. `open` is an upsert, which MySQL runs as a select and an
insert: it keeps a row inserted meanwhile, or fails on the unique key.

Abstractions. Months are `1..LastMonth`. Every operation is worth one minor
unit, so that sums of operations are cardinalities; the chain only adds and
compares sums, and the fixed base takes several values. `fixedIncome` and
`fixedExpense` are kept as their difference. Operations linked to a plan are
left out, so the frozen adjustment of a row is zero; one owner and one currency
(chains of two currencies share nothing but the lock). The reads that feed a
response and write nothing (planned movements, goals, forecast, the second
`resolve` of a closed month) are not steps.

Behaviours start from an empty account, from operations recorded without any
summary, or from a chain closed up to the current month; `SeedCarry` gives the
carries of the latter as a closed formula, independent of the engine.

### Properties

- `SettledChain`: when no request is in flight and none died or gave up, every
  row has the carry of the closed month before it (zero at or before the first
  month with an operation) and every closed row the totals of its operations.
- `ClosedRowAdds`: at every moment, remaining = base + income - expense + carry
  in a closed row.
- `CorrectionRepairs`: a correction that completes leaves every row from its
  month on in agreement with the operations, also after an earlier one died.
- `IInv`, `LifecycleSpec`: see the proofs.
- `EveryRequestAnswered`: every request ends.
- `MonthEndsUpToDate`: the open row of a month has the live base when the month
  ends. The code does not provide it (see below).
- `ForecastFollowsSummary` (`BudgetPreview`): the carry that the forecast
  replays in memory is the one a summary asked for at that moment stores. The
  module notes, beside each summary that starts, what `currentCarry` gives.

### Runs

| Run | Instance | Shows |
| --- | --- | --- |
| `BudgetSequential` (`MCBudgetPreview`) | 1 worker, 3 requests of any kind, 2 operations, 3 months, two fixed bases, a plan in month 2, empty account or settled chain, crashes | one request after another, the chain is right after each one (`SettledChain`); after a crash the next correction repairs it (`CorrectionRepairs`, docs/budget-projection-api.md:80-81); and the forecast agrees with the summary (`ForecastFollowsSummary`) |
| `BudgetConcurrent` (`MCBudgetConcurrent`) | two scenarios: two summaries of three at once over 4 months from the third, chain missing or settled, at most one operation; three workers creating one income each in closed months | two summaries that open and close the same months never disagree; the revision test and the retries lose nothing (`SettledChain`, `ClosedRowAdds`) |
| `BudgetLifecycle` (`MCBudgetPeriods`) | 2 workers, 3 requests of any kind, crashes, 2 months, two attempts per correction, two fixed bases | `IInv`, the refinement of `PeriodLifecycle`, and `EveryRequestAnswered` under `FairSpec` |
| `BudgetStaleCarry` (`MCBudgetPeriods`) | a creation and a summary | the disagreement below |

The bounds are where the cases are: a walk of two missing months needs three
months, a lost update two workers, a month change under a request one
`Rollover`, a retry two attempts. In `BudgetLifecycle`
`MAX_RECALCULATION_ATTEMPTS` is 2 instead of 5, so that a worker can run out of
attempts against few others; the theorems hold for any number of attempts.

`ForecastFollowsSummary` is excused after a correction that died: it may leave
a past month open, which the forecast takes from its row and the engine closes
again. One worker is enough for it and wanted: with two, the chain may change
between the forecast and the summary, and the two should then differ.

Fairness. `FairSpec` asks weak fairness of each worker's next call: the event
loop and the database serve every call. Starting requests, the clock, writes of
fixed operations and crashes are not fair. A call that waits for the owner lock
is enabled whenever the lock is free; with finitely many requests no worker can
be overtaken forever, so weak fairness is enough and no queueing order of the
database is assumed. No other module states liveness: their requests make
boundedly many steps and wait for nothing but the owner lock.

### Where the code and its documents disagree

`BudgetStaleCarry` is a run that TLC must find violated: a period is opened with
a carry that a correction changed in the meantime, after that correction listed
the periods; the documents promise that the new remainder reaches every month up
to the current one.

More schedules break a property of this module. They have no run of their own
and are reached by changing constants of `BudgetStaleCarry.cfg`; the property is
`SettledChain` unless another is named:

- A closing that is torn: a correction changes the carry of an open row between
  the read and the write of its closing; the closed row does not add up
  (`ClosedRowAdds` with `StartMonth = 1`, `LastMonth = 3`, `Seeds = {"recorded"}`
  and `Requests = {"create", "summarize", "rollover"}`).
- A write that is skipped: a correction finds nothing to write because it
  compares with an old listing, so the revision test never runs
  (`Requests = {"create", "delete"}` and two identifiers in `OpIds`). Expenses
  alone are enough: one creation has computed the carry of a month and is about
  to write it, a second one lists the rows, the first writes, and the second
  brings the carry back to what it listed and writes nothing
  (`Requests = {"create"}`, `OpKinds = {"DEPENSE"}`, two identifiers in `OpIds`
  and `StartMonth = LastMonth = 3`; 24 states).
- A snapshot that nobody refreshes: documents say that a write of a fixed
  operation updates the open snapshot in the same transaction; only readings do
  (`MonthEndsUpToDate` with `Requests = {"summarize", "fixed", "rollover"}`,
  `StartMonth = 1`, `Seeds = {"empty"}` and `BaseValues = {1, 3}`).
- A stale date: with `Requests = {"update"}` and `StartMonth = LastMonth = 4`, two
  updates of one operation both read its first date, and a month it passed
  through is not corrected (`OneOffOperationUseCases.ts:85-100`).
- A month change: with `Requests = {"realize", "summarize", "rollover"}`,
  `StartMonth = 1` and `Seeds = {"empty"}`, an occurrence realized across a month
  change lands in a closed month that never counts it
  (`EventOccurrenceUseCases.ts:96-103`).

They need two overlapping requests of one owner (or a month change), and the
next correction of the month concerned repairs all but the unrefreshed snapshot.

### Proofs (`BudgetPeriodsProofs.tla`)

Three theorems, for every value of the constants that satisfies the named
assumptions of `BudgetPeriods` (finitely many operation identifiers, at least
one attempt, a start month among the months, sentinels distinct from data):

- `RequestsInOrder`: `Spec => []IInv`.
- `TypeCorrect`: `Spec => []TypeOK`.
- `ImplementsLifecycle`: `Spec => LifecycleSpec`, under the refinement mapping
  that keeps the status, base and revision of each month.

`IInv` is what the type invariant lacks to be preserved. A step that closes a
period writes by identifier whatever the row has become, so the proof needs
`ClosingIsExclusive` (the row under the lock is still open), hence that only
the walk with the lock closes; closing in time needs `RequestInTime` (what a
request knows lies in months that have started, and it closes only past ones);
and `RequestOnPath` says where a worker can be in its walk, so that the row and
the image it is about to write exist. The proof has one lemma per group of
actions (`WriteInv`, `CorrectionInv`, `WalkInv`, `CloseInv`, `EnvironmentInv`);
`QuietStep` and `RowStep` carry the part common to all steps of one worker.
The refinement is `PeriodStep` (a change of one row is one abstract step) and
`RequestRefines`, one case per action that writes a row.

### Proofs about the chain (`BudgetChainProofs.tla`)

`SettledChain` and `ClosedRowAdds` do not hold of every behaviour of the code,
so each theorem names the condition under which they do. The operations of a
month are counted by cardinalities of finite sets, and the argument goes from
one row to the next, so no sum over the chain is needed.

| Theorem | Condition | Conclusion |
| --- | --- | --- |
| `ReadersKeepChain`, `ReadersSettled` | `ReadersOnly`: no create, update or delete; while months end, only summaries | every row agrees with the facts and with the row before it at every moment, hence `SettledChain` |
| `SequentialSettled` | one request at a time (`Workers = {w}`) | `SettledChain` |
| `SequentialRepairs` | one request at a time | `CorrectionRepairs` |
| `ClosingsAdd` | `ClosingsUndisturbed`: nobody writes the base or the carry of a row between the read and the write of its closing | `ClosedRowAdds` |
| `SequentialAdds`, `ReadersAdd` | as above | `ClosedRowAdds` |
| `WritersAdd` | no month change, from a chain closed up to the current month | `ClosedRowAdds`, for any concurrent corrections |
| `CreatorsSettled` | `CreatorsOnly`: incomes created, on bases that are not negative; the chain starts settled; no month change, no summary | `SettledChain`, for any number of creations and realizations at once |
| `SequentialForecasts` | one request at a time | `ForecastFollowsSummary`: the carry the forecast replays is the one the summary stores |

They hold for any number of months, operations, bases, attempts and requests,
with crashes, and (except where one worker is asked for) of workers.

- Readers. `WalkKnows` says what a walk has in hand: the row it opens or closes
  next is missing or agrees already, and `prev` is the closed row below, which
  agrees. `ReadersInv` joins it with the chain itself; its induction has one
  lemma per call of the walk, each of which shows that the chain is kept
  (`ChainKept`). `ReaderState` is why a realization is harmless without a
  correction: it inserts in the current month or later, whose row is open.
- Sequential requests. `CorrectionOnCourse` says how far a correction is: rows
  below its month agree, rows from `top` on are as they were listed.
  `WriteOnCourse` says that what was read before a write is still true, and
  `AgreesSoFar` up to which month the chain agrees in each phase of a request.
  `excused` (a request died or gave up) weakens the last one only, so that
  `SequentialRepairs` follows from the same invariant.
- Closed rows. `AddsInv` says that a listed row is an earlier state of the row,
  the same one while the revision is the same (`ListedEarlier`), and that what
  a correction or a closing holds adds up with the base and carry the row will
  have (`HeldAdds`). The revision test then carries the corrections through.
- Creations at once. When only incomes are recorded, values only rise
  (`Rises`) and none is ever beyond the facts: what a correction listed is at
  most what the row has become (`ListedBelow`), and the row at most what the
  operations and the row below it give (`RowBounded`). `CreatorsInv` adds what
  each correction holds. Two consequences carry the proof. A correction that
  finds nothing to write is right, because the row lies between what was listed
  and what the facts give (`CreatorComputes`). A write that passes the revision
  test brings a row up, so that it cannot undo what another request brought up to
  date (`WriteCovered`). `EachMonthCovered` is then kept by every step: unless a
  request died or gave up, a row that does not agree is one that some request has
  yet to reach or holds the right values for (`Covers`). Once all are answered
  nobody covers a month, and the chain is settled.
- The forecast. Both sides are compared with one description of the chain that
  is neither of them: `Follows(v, t)` says of bases and carries `v` that each
  month before `t` follows from the month below it, by its row where it has one.
  The forecast's replay, from the latest closed row or from the first month with
  an operation, has this form (`ForecastForetells`; `ReplayedExists` shows that
  its recursive function exists, since it can be built up to any month). The
  summary keeps it: a month is opened with the base it was to have, closing
  keeps it (`WalkForetold`), and a closed month's remaining is the carry that
  was foretold (`ClosedFollows`), because the chain below agrees (the invariant
  of `SequentialSettled`). `PreviewInv` adds where the walk is: the months
  between its cursor and the month asked for are missing (`OnTheWay`). With a
  second request the summary may stop at the unique key or find the chain
  corrected under way, so the theorem asks for one request at a time.

The condition of `CreatorsSettled` is needed: with expenses a carry may fall, and
then the write that is skipped (above) leaves a stale one; incomes on a negative
base do the same. The condition of `ClosingsAdd` is needed. TLC finds a closed row that does not
add up in ten states: two summaries around a month change and a write of a
fixed operation, one refreshing the fixed base of the row between the two steps
of the other's closing, because the owner lock held by `repository.close` keeps
neither `updateOpenFixedSnapshot` nor `recalculateFrom` away. The invariants
`ReadersInv`, `AddsInv`, `CreatorsInv`, `EachMonthCovered` and that of the
sequential requests were checked by TLC before they were proved: the first two
with two workers and all kinds of requests, the next two with three workers over
four months, and with two workers that crash.

The assumptions of `BudgetPeriods` they add: kinds of operations are `ENTREE`
and `DEPENSE`, and the values that stand for no operation are distinct from
each other, from identifiers and from operations.

`SettledChain` has no theorem for other concurrent requests because it does not
hold of them: the schedules listed above break it. Model-checked only: liveness.

## 4. Event decisions (`EventDecisions.tla`)

### State and actions

`event` holds the rules, `decision` the rows of `EventOccurrenceResolution` (one
slot for each rule and month, which is the unique key), `ops` the operations
that realizations created. Each worker serves one request; `pc` is the call it
makes next and `due` says that this call begins with
`expirePotentialEvents`, a transaction of its own that uses the date read when
the call was made (`today`). Each action is one repository call.

| Action | Code |
| --- | --- |
| `BeginCreate`, `InsertEvent` | `MonthlyEventUseCases.create`: the test of expiry, then the insert |
| `BeginUpdate`, `Get`, `Write`, `Reread` | `update`: maintenance and read, tests, `updateMany` conditioned by the status, maintenance and read |
| `Confirm` | `confirm`: `updateMany` of a potential rule that has not expired on the date read before the maintenance |
| `DeleteIfPotential`, `DeleteIfConfirmed`, `ClearPotential` | `delete` in two tries, `clearPotential` |
| `Maintain` | `expirePotentialEvents`, before every read of a rule or a decision |
| `Find`, `Snapshot`, `AssertPeriodOpen` | the reads and tests of `realize` and `cancel` |
| `InsertRealization`, `InsertCancellation` | the transactions of the repository, with the unique key |
| `Refind` | the second `find` of the loser of a conflict |
| `Answer` | the response; a crash between an insert and this step loses it |
| `EditOperation`, `RemoveOperation` | corrections and deletions of the operation by its owner |
| `Rollover`, `Crash` | the clock; a request that dies, or whose next call fails |

`deletePotentialEvents` is one step because it locks the rules first and every
other writer of a rule's status waits for these locks. The category lookup of
`realize` has no effect and is part of the step before it.

Abstractions: dates are months and rules recur every month without end; one
`amount` stands for all that a rule gives to a decision, a command to an
operation (title, amount, category). One owner, one currency. An occurrence
date in a month that is over is allowed, as in the code.

### Properties

- `OperationsAreDecided`: live operations of realizations and realized
  decisions correspond one to one.
- `ConflictHasWinner`: `realize` and `cancel` never rethrow the conflict.
- `DecisionsAreFinal`, `ConfirmationIsFinal` (action properties): no step takes
  a decision away or demotes a rule. `deletePotentialEvents` does delete
  decisions: that it never finds one is a fact about all the other requests.
- `DeleteMissesNoRule`: a rule cannot slip between the two tries of a delete.
- `RegisterSpec`: occurrences are write-once registers (`OccurrenceRegister`),
  and a request is answered with what its register holds, or refused only
  because the register is written.
- `RepeatIsReplayed`, `ReplayHadSucceeded`: what the documents promise of a
  repeated realization.

- `RepetitionsAgree` (`EventScenarios`) puts together what the documents
  promise of a repeated realization, `RepeatIsReplayed` and
  `ReplayHadSucceeded`, while nobody edits the rule or the operation.

### Run

`EventScenarios` (module `EventScenarios`, instantiated by `MCEventScenarios`), with two workers, one rule, two months and
at most 4 requests. A behaviour keeps to the scenario it starts with:

- maintenance: 4 requests on rules, or cancellations, and a month change. Rules
  are created, updated, confirmed, deleted, cleared and expired while
  occurrences are decided.
- repetition: 3 realizations or cancellations with two amounts or the default,
  and requests that die between any two calls.
- race: 3 realizations, cancellations or deletions of rules that race, while
  operations are corrected and removed, across a month change.

Two workers are enough for every race on one rule: a race is between the test
of one request and the write of another, and the requests that set the stage
run one after another on the same workers. Four requests let a rule be read,
confirmed, decided upon and written again. A single rule is enough because no
property relates two rules; two months give it a decision in each, one of them
past after the `Rollover`. The inductive invariant `IInv` of the proofs was
checked on the same instances and needs no run.

### Where the code and its documents disagree

Three schedules break `RepeatIsReplayed` or `ReplayHadSucceeded` of
`EventDecisions`; check them with `Spec` instead of `ScenarioSpec` and
the constants of `EventScenarios.cfg`.

- With `Requests = {"realize", "update"}`, `Crashes = FALSE` and
  `MaxRequests = 3`, the loser of a conflict completes its
  command from the rule it read, the first `find` from the decision; when the
  rule was updated in between, two equal commands differ and the second is
  refused (`EventOccurrenceUseCases.ts:86`).
- With `Requests = {"realize", "edit"}`, a replay is recognised by comparing the
  command with the operation as it is now (`EventOccurrenceUseCases.ts:195-205`),
  so a correction of the operation turns a repeated command into a conflict
  (`RepeatIsReplayed`) and a new command into a replay (`ReplayHadSucceeded`).
- The expiry test of a potential rule and its write see two moments: across a
  month change a potential rule is written into a month that is over, until the
  next maintenance.

### Proofs (`EventDecisionsProofs.tla`)

Ten theorems for every number of workers, rules, operations, months, amounts
and requests, from the named assumptions of `EventDecisions` (a month and a
rule identifier exist, sentinels are distinct from data): `Invariant` and
`TypeCorrect`, `EveryOperationIsDecided`, `WinnerIsFound`, `DeleteIsThorough`,
`Finality`, `ConfirmationStays` and `ImplementsRegister`.

The argument rests on one fact, `DecidedRules`: a rule with a decision is
confirmed or deleted. It needs `DecisionShape` (a request past `snapshot` holds
a rule that was confirmed, and nothing makes it potential again), which needs
the status condition of `update` (`RequestShape`: the status written is the
status read). From it `PotentialUndecided` follows: deleting potential rules
takes no decision. Every action lemma then shows, besides the invariant, what
the step keeps (`Keeps`: known rules stay known, decidable ones decidable,
decisions stay), and `UntouchedShape` gives the invariant of all other workers
from that. `Finality` is a consequence of `Keeps`; the refinement maps the two
insertions to `Decide`, the answer to `Answer` and everything else to a
stutter (`RequestsStutter`).

`RepeatedCommandsAgree` (`ScenarioSpec => []RepetitionsAgree`) and
`RepetitionsKept` are about repeated commands. `RepeatIsReplayed` and
`ReplayHadSucceeded` do not hold of the code when rules are updated or
operations corrected (see above); `RepetitionsKept` proves both of every other
interleaving, crashes included: it assumes only that `update`, `edit` and
`remove` are not among the requests. Both rest on `RepetitionInv`: a rule is
known under one amount for good (`OneAmount`), so the command that a request
completes from the rule it read and the one completed from the decision are the
same; every decision that realized has the operation it recorded, unchanged
(`RealizationsRecorded`); and the verdict a request reached about its command
(`VerdictRight`) and the answers given so far (`AnswersRight`) are those the
recorded realizations call for.

## 5. Fixed operations, envelopes and payments (`Envelopes.tla`)

### State and actions

`charge` holds the row of each fixed operation, `versions` its dated versions
(`Origin` is the version kept under 1970-01), `plan` the occurrence of each
operation and month, `payment` the one-off operations, `link` the occurrence
each is linked to, `closed` the closed budget periods, `month` the civil month.

| Action | Code |
| --- | --- |
| `CreateFixed`, `CreateEnvelope` | `OperationFixeRepo` and `POST /budget-envelopes` |
| `BeginEdit`, `BeginSchedule`, `EditRow`, `Schedule` | an edit: the test that chooses between the row and a dated version, then one of the two; `scheduleFixedVersion` with the check of linked occurrences and their replanning |
| `BeginSaveEnvelope`, `BeginArchive` | `saveBudgetEnvelope`, `archiveBudgetEnvelope` |
| `BeginDelete`, `DeleteRow` | `delete`: the count of open linked payments, then the deletion |
| `Materialize`, `UpdateOccurrence` | reading a month creates what is missing; a plan edited by hand |
| `Link`, `CreatePayment`, `UpdatePayment`, `DeletePayment` | links set alone, or with the operation in one transaction |
| `ClosePeriod`, `MonthEnds` | the budget engine, the clock |

What runs under the owner lock is one action: its retries on a write conflict
start from fresh reads, and a refused transaction leaves nothing. An edit and a
deletion check outside the lock and write later: two actions each, and
`request` holds what was found out. Today is read before the lock is waited for
and kept with the request.

Abstractions: shares of charges, names and categories are left out (`FixedCharges`
and `Catalogue` have them); an occurrence holds its planned amount and currency.

### Properties and runs

- `LinksMatch`: a linked payment has an occurrence of its month, currency and
  kind, on an identifier that was given.
- `OpenPlanIsActive`: an occurrence of an open month, whose operation exists, is
  of an envelope that is active in that month, whatever versions were scheduled
  in whatever order.
- `PastDefinitionsKept`: no step changes what applied in a month that was over
  before every request in flight began.
- `LaterVersionsRespected`: a version dated later stays in force.
- `RegisterSpec`: payments with their links implement `PaymentRegister`: a payment
  is rewritten, moved or withdrawn only while its envelope month is open, and
  what it is set against fits it.

`EnvelopePayments` checks these and `IInv` with one charge, one payment, two
currencies, two amounts, two months, two callers and four requests. One charge
is enough because occurrences of two charges share nothing but the payment's
link, and the link of one payment holds one occurrence; two callers are what a
check apart from its write needs; four requests make a charge an envelope, link
a payment, edit the envelope and act on the payment. Proofs hold for any number
of each.

`EnvelopeDeleted` must be found violated: a payment of an open month is left
linked to an occurrence whose envelope was deleted, when the link is made
between check and write, or in a month in which a later version is the envelope
(docs/budget-reconciliation.md:187-188).

Two things the code does that no document speaks of: archiving writes a version
for the current month only, so an envelope with a later version that is active
comes back in that month; and the occurrences of a deleted operation stay and
are still counted in the fixed base of their months (`reconcileFixedTotals`).

### Proofs (`EnvelopesProofs.tla`)

`InvariantHolds`, `LinksAlwaysMatch`, `PastIsKept`, `LaterVersionsSurvive`,
`OpenPlansAreActive` and `ImplementsRegister`, for any operations, payments, months, currencies, callers
and requests. `IInv` adds to types and links that an operation with a version
has the one under `Origin`, so that the versions in force before a new one do
not change, and that what a request holds is dated before it is served. Past
definitions follow from three lemmas on `WithVersion` alone: what applies
before the new version (`BeforeTheVersion`), from the next one on
(`FromTheNextVersion`), and the result of the step (`ScheduleResult`).
`OpenPlansAreActive` needs two facts more: what occurrences and requests are
about was created, so that no creation changes what an occurrence was made from
(`SourcesWereCreated`), and an edit of a row in place is about an operation that
is no envelope and does not become one (`RowEditsArePlain`). Versions that take effect in a month refresh its open plans
in the same transaction, which the step of each dated edit shows.

## 6. Accounts and sessions (`Access.tla`)

### State and actions

`account` and `session` are the rows; a refresh token is the number of its
session's current token, with the end of life that was signed into it.
`delivered`, `links` and `mailed` are what clients received: every answer and
every mail may be lost, so that a client may hold an old token while the server
has a newer one. `clock` counts units in which all lifetimes are given.

| Action | Code |
| --- | --- |
| `BeginRegister`, `Register`, `Confirm` | `createUser`: `exists`, then `create` or the mail; `confirmRegistrationUser` |
| `BeginLogin`, `Compare`, `OpenSession` | `login`: the account is read, `argon2` compares with what was read, the session is issued |
| `BeginRenewal`, `ReadLimit`, `Exchange`, `RevokeRefused` | `renewSession` and `RefreshSessionService.rotate`: verify, the time left, the conditional `updateMany`, the revocation when it changed nothing |
| `Logout` | `logout` and the native revocation |
| `RequestReset`, `BeginNewPassword`, `NewPassword` | the reset mail, `hasValidResetToken`, then the hash and the transaction |
| `BeginDelete`, `Delete` | `deleteAccount` |
| `Tick`, `Stop` | time; a request that dies between two calls |

`replayed` and `resetUses` are histories for the properties, `renewals` too; no
guard reads them. `late` marks a session opened by a login that was comparing
passwords while the password changed.

### Properties and run

- `OneRenewalPerToken`: a token is exchanged at most once, whichever renewals
  race and whichever answers are lost.
- `RefusedRenewalEndsSession`: a session named by a renewal that was refused at
  the exchange is over, for the holder of the newer token too.
- `SessionsHaveVerifiedOwner`: a stored session is of an account that exists and
  was confirmed, whatever deletions and logins overlap.
- `SettledSessionsMatchPassword`: a live session was opened with the password the
  account has, unless a change overtook its login.
- `ResetTokenWorksOnce`: two forms with one reset token set one password.
- `RegisterSpec`: sessions implement `SessionRegister`, which bounds their life:
  a session is exchanged only while open and unexpired, never past the limit
  counted from its opening, and never opens again.

The run `Access` has two accounts that may have one address after the other, two
passwords, two sessions, two callers, three requests that keep a caller busy
(logout, reset mails, confirmations are not counted), two reset tokens, a clock
up to 3 with lives of 1 (links and resets), 2 (refresh) and 3 (limit): every
limit is passed. A race needs two callers; the third request is what comes
before or after it.

`SessionsFollowPassword` is `SettledSessionsMatchPassword` without its exception
and does not hold: a login that read the account before a password change opens
its session after the change revoked the others, and that session lives on.
Check it with `MCAccess` and the constants of `Access.cfg`.

Two lifetimes meet without harm: the refresh token's own end of life and the
row's are computed from clocks read at two moments, so one may outlive the other
by the latency of a request; both are tested.

`Delete` takes it that nothing else refers to the owner. Section 8 says what does.

### Proofs (`AccessProofs.tla`)

`AccessInvariant` and one theorem for each of the six properties, for any users,
addresses, sessions, callers and lifetimes. `IInv` adds: a token held by a
client or a request names a session that was opened and is of its user; no
address and no reset token is in two rows; a login in flight that was not
overtaken knows the present password; no lifetime granted passes the limit; and
the history of renewals and resets lies behind the present tokens. The lemmas
are one per action; `KeptSessionsInv` and `KeptAccountsInv` carry what actions
on one table leave of the other.

## 7. Listings (`Listings.tla`)

Every paged list of the service, twenty of them, by the order and the condition
"after the cursor" of its repository: two or three parts, ascending or
descending, one entry for several rows (titles, categories), several entries
for one row (dates of an event), a category shifted by one in its cursor. Rows
are added, changed, hidden by the filters and removed between two pages; a
cursor may be presented to another list. The encryption of a cursor is that it
cannot be made by hand.

- `NoneSkipped`: an entry that stays in the list since the first page was served
  or comes after the cursor, and the reader's own cursor is accepted.
- `ServedOnce`: pages follow one another without overlap.

An entry is a position: a row renamed to a later place is another entry, and may
be served under both names, as in the code. The run `Listings` reads seven
lists, one of each shape, with three identifiers, pages of one or two entries
and two changes. `ListingsProofs` proves both (`NoEntrySkipped`,
`NoEntryServedTwice`) for every list, any rows, values, limits and changes; the
invariant adds that a page that is not the last ends at its cursor.

## 8. Categories and the deletion of the account (`Catalogue.tla`)

`category`, `operation` and `fixed` are rows, `versions` the dated versions with
the copy of the category each carries, `rav` the newest row of the former
ResteAVivre table. A request tests a category in one call and writes in another;
the foreign keys and the unique name are conditions of the write, which ends the
request when they refuse.

| Action | Code |
| --- | --- |
| `SaveCategory`, `RenameCategory`, `DeleteCategory` | the statements of `PrismaOperationCategoryRepository` |
| `BeginOperation`, `InsertOperation`, `MoveOperation`, `DeleteOperation` | creation and edit of an operation: `find` of the category, then the write |
| `BeginCreate`, `InsertFixed`, `CreateEnvelope` | creation of a charge, an income or an envelope |
| `BeginEdit`, `ReadFixed`, `EditRow`, `Schedule`, `DeleteFixed` | an edit: the category tested, the row read, then a plain or a dated write |
| `FindRav`, `CreateRav`, `UpdateRav` | what every save of a fixed operation does afterwards |
| `DeleteAccount`, `MonthTurns` | `UserRepo.delete`; the clock |

- `CategoriesFit`: what refers to a category refers to one that exists and is not
  reserved for the other type, and the copies of versions fit too. A category is
  not reserved by a rename and rows do not change type: that a test made some
  calls earlier still holds rests on both.
- `AccountDeletable`: a deletion the owner asks for is not refused. It does not
  hold (`AccountDeletion`): the first fixed operation saved leaves a row whose
  foreign key restricts the deletion of the owner.

The run `Catalogue` has two workers, two categories, one operation, one fixed
operation, two names, two months and four requests. `CatalogueProofs` proves
`ReferencesFit` for any of these. Its invariant adds what a request knows
between its test and its write (`RequestFits`): the category it tested still
suits the type, or is gone, in which case the foreign key refuses; and a row
not yet given has no versions.

What the documents do not say (docs/fixed-operation-categories.md:26-27): a
category that only a dated version copies is deleted without a conflict, and
the version goes on showing it, as it shows the old name of a renamed one. The
ResteAVivre rows are refreshed by every save of a fixed operation and read for
nothing else; a month is that of the server's clock there, not the one of Paris.

## 9. Calculations (`Calculations.tla`)

What keeps no state: an initial state is a request, the one step is its answer.
Each property compares an answer with another view the program gives of the
same data, or with what its parts say it stands for. About 166 000 inputs in
all, chosen at the edges.

| Property | Modules | Compared | Inputs |
| --- | --- | --- | --- |
| `OccurrencesAgree` | `Recurrence` | dates of a rule in TypeScript and in SQL | all recurrences at ends of short months and over leap years |
| `PlansAgree` | `EventPlans` | planned movements by day and currency, the count stored at closing, the queue | two rules that meet on a day, decided or not, three days to ask |
| `BalanceReplacesPlans` | `MonthlyBudget` | day by day, the month, the closed month with its frozen adjustment, the reconciliation summary | February 2024, up to three movements in any order, two plans, below and above |
| `SavingsFollowForecast` | `Savings` | capacity, trajectory and forecast of each month; weekly share to the cent | four months over a new year, with losses, a window that starts later |
| `GoalViewsAgree` | `Savings` | month reached by division, month by month, status, gap, three trajectories | saved none, some, all; contributions that do not divide; deadlines in the horizon |
| `FixedTotalsAgree` | `FixedCharges` | totals with and without a month; occurrences against rows | shares and periods that do not divide, an occurrence of a deleted row |
| `NoOperationLost` | `Reporting` | sum of buckets and series against the operations of the period | days, ISO weeks over two years, months, years |
| `EnvelopeViewsAgree` | `Reporting` | overview by envelope, analytics by category | two envelopes, months without payments, a changed category |
| `FragmentsToldOnce` | `Release` | series of two runs of `release.cjs`, complete or cut off | fragments of four kinds, malformed ones, all options |
| `DeploymentsRecover` | `Deployment` | series of two runs of `deploy-production.sh` | migrations that stop, probes that fail, steps cut off |

`Release` is two programs in one: a tree of files and a run that leaves another
tree, whole or after some of its writes. `Deployment` likewise with a server.

What the runs show beside the properties: a run of `release.cjs` cut off
between the version and the changelog leaves a comparison link that the next run
does not repair, and one cut off before it removes the fragments publishes them
again in the next version; `FragmentsToldOnce` says what holds of such runs and,
more strictly, of runs that are not cut off. A deployment cut off after the new container starts and before its image
is recorded makes the next failed deployment restore the image recorded before
it, which is not the one that ran (docs/ci-cd.md:18-19 speaks of the previous
image). The month estimated for
the maximum trajectory may come later than the planned one; the month scheduled
does not. `envelopeReserve` is always zero. The validator of one-off operations
tests `Number.isInteger(value * 100)`, which refuses amounts such as 19.99 sent
as JSON numbers; amounts here are integer cents.

### Proofs (`CalculationsProofs.tla`)

| Theorem | For all |
| --- | --- |
| `DatesAlwaysAgree` | rules and months |
| `PlansAlwaysAgree` | finite sets of rules, decisions, todays |
| `BalanceAlwaysReplacesPlans` | months: movements in any order, plans, carries, frozen adjustments |
| `FixedTotalsAlwaysAgree` | finite sets of rows and occurrences |
| `SavingsAlwaysFollowForecast`, `GoalViewsAlwaysAgree` | windows of months with any budgets, goals and assumptions |
| `NoOperationEverLost` | periods, groupings, series and finite sets of operations |
| `EnvelopeViewsAlwaysAgree` | finite sets of envelope rows and payments, current months |
| `FragmentsAlwaysToldOnce` | series of releases of any length, any fragments added before each, any options, each complete or cut off after any write |
| `DeploymentsAlwaysRecover` | series of deployments of any length, with any failure in each |

The constants are the sets of cases; what a case may be is assumed in
`Calculations`, part by part, and is what the program stores or accepts: a date
exists, an end is not before its start and only a repeated rule has one
(`MonthlyEvent.create`); a payment has the kind of the plan it is linked to
(`Reconciliation.ts:101`) and lies in the month; a month has one occurrence of a
source, and a row its own identifier (`schema.prisma:412-413`); an operation has a
date, one of two kinds and an amount; a goal has a target and no negative amount; no
assumption of a trajectory is negative (`SavingsTrajectory.ts:40-46`); a project
starts with one section in its changelog, that of the version of its package, a
fragment is added once, and files have different names (`IsSeries`); and the
forecast reserves what the same goals save (`goalSavings`). TLC evaluates these
assumptions on all inputs of the run.

`AnswersFollowRequests` is the invariant: what was asked is one of the cases, and
an answer is what the model computes of it. The rest are lemmas on the
computations alone:

- Sums. A sum is a fold that chooses one element after the other. A family of
  sets that has a set as soon as it has all sets with one element less has every
  finite set (`SubsetInduction`, from the well-foundedness of < on sizes). With
  it, sums over disjoint parts are added (`SumOfParts`) and terms may be grouped
  by name first (`SumByNames`): rows by source, movements by plan, occurrences by
  day on one side and by rule on the other.
- Dates. Day numbers follow the calendar: the next month begins after the last
  day of a month (`MonthLength`), so dates compare as day numbers do
  (`OrderOfDays`), and a weekly rule may be expanded by steps or tested by
  distance (`SameWeeks`).
- Linked payments. What a plan covers of a payment is the difference of what it
  covers up to that payment and before it, in the order of dates. Summed over the
  payments of a plan the differences collapse, whatever the order of the rows.
- Months. A projection is linear in its carry (`ForecastOfMonth`), so the
  forecast with reservations is the one without them less one reservation for
  each month, and the planned trajectory is the forecast. Recursion over months,
  releases or deployments is a recursive function here, which exists because it can be
  built up to any length (`CarriedExists`, `CourseExists`, `TreesExist`, `SeriesExists`).
- Goals. A goal needs the contributions that division tells: so many months give
  enough exactly when that number is reached (`PartsCover`, `NeededMonths`),
  which is what the planned trajectory reaches step by step (`PlannedSaved`,
  `PlannedReach`). A trajectory with a supplement saves at least as much at any
  moment (`MoreSaved`). That the maximum trajectory reaches the goal no later
  than the reasonable one needs an invariant of both: until the maximum one has
  the target, it has saved at least as much, and saved and free amount together
  are at least as large (`AheadOneMonth`). Comparing what is saved alone would
  not do: the reasonable one may keep a free amount back that it spends later.

The proof of `GoalViewsAlwaysAgree` showed where its property ends: a deadline
more than 1200 months ahead may be kept by a goal of which no month is told
(`MaxForecastMonths`, docs/financial-goals.md:37), and it says so.

- Analytics. Every selected operation has a bucket among the keys of the period
  and a key among the series: the Monday of its week lies within the weeks listed
  even when that is in another month or year than the period's first day. What
  keys hold of operations partitions them, so a field summed over keys is the field of
  them all (`WholeOfParts`), once for buckets and once more inside each of them.
- Envelopes. One row per envelope and month makes the rows of a category in a
  month as many envelopes, so sums by row are sums by envelope
  (`CategoryOfMonth`); a payment is linked to one row, so summing by category
  and by month spends it once (`SpentOnce`). A month enters the mean of the
  category only when each of its envelopes has a payment in it, and then it enters
  the mean of each, so both sides take the same months (`SampledTogether`).
- Releases. A section lists its fragments in an order, and is there because a
  finite set has an ascending sequence: each element at its rank, the number of
  those before it (`AscendingExists`, `AscendingLists`). Files are then removed in
  the order of their names, each once. Every run, complete or cut off after any
  write, keeps a tree sound (`SoundTree`): versions descend and each section is
  as far above the one below as its fragments ask for; a fragment is pending or
  told; the notes of a version are those of the fragments of its section. A run
  that is not cut off keeps more (`WholeTree`): a fragment is told once, after
  which it is pending no more. A run cut off before the fragments are removed
  breaks that second part, so the property asks for it only of series in which no
  run was cut off.

## 10. What is proved and what is only checked

Proved for every value of the constants, from the assumptions each module names
(numbers are numbers, sentinels are distinct from data): type correctness and
the inductive invariants of the six stateful components, the safety properties
the sections above list with their theorems, and the four refinements:
`PeriodLifecycle`, `OccurrenceRegister`, `PaymentRegister`, `SessionRegister`.
Inductive invariants that are no run's property (`EventDecisions`, `Access`,
`Listings`, `Catalogue`) were checked on the instances of the runs before they
were proved.

Of the calculations, eight results that hold for all inputs their code accepts,
one for all series of releases and one for all series of deployments (section 9).

Only model-checked: liveness (`EveryRequestAnswered`), which is out of the
prover's reach like `ENABLED`. Every other property of a passing run is
stated by a theorem; those about the chain under a condition that the code does
not always meet, which section 3 names.

## Not modelled

- Rate limiting: counters kept by Redis and by a library; the code configures them.
- Routing, validation of bodies, error mapping, API descriptions, cookies: they
  keep no state; requests of the models are those that validation accepts.
- Mail, configuration, the rehearsal of backups (`scripts/test-backup-recovery.cjs`
  runs `mysqldump` and `mysql` and compares): no state of their own.
- Creation, edit and deletion of a goal: single statements by identifier and
  owner. A savings capacity reads the forecast, with the sum of the goals' monthly
  savings in it, and then the goals (`SavingsCapacityService.ts:34-46`), in
  separate statements: a goal changed in between gives an answer whose two
  halves speak of different goals. `Savings` has every reading at one instant,
  as the trajectory's is (`PrismaSavingsTrajectorySnapshot.ts`), so its results
  on a capacity hold when no goal changes between the two.
- The bounds of columns: amounts are unbounded integers, so a chain that
  accumulates beyond `Decimal(10,2)` is not shown to fail.
- The seed, and the content of migrations: of migrations, `Deployment` has that
  they apply in order and may stop at one.

The reasons are also with each component in `PROJECT.json`.
