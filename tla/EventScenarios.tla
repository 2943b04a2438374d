--------------------------- MODULE EventScenarios ---------------------------
(***************************************************************************)
(* Rules under maintenance; commands that are repeated after the death of  *)
(* a request; or decisions that race with each other, with the deletion of *)
(* their rule and with writes of their operations.  A behaviour keeps to   *)
(* the scenario it starts with, because a repeated command is promised a   *)
(* replay only while its rule stays as it is.                              *)
(***************************************************************************)
EXTENDS EventDecisions

VARIABLE scenario  \* what the requests of this behaviour do

Serve(w) == RuleStep(w) \/ DecisionStep(w)

\* Every request on rules, and cancellations; amounts play no part.
Maintenance(w) ==
  /\ scenario = "maintenance"
  /\ BeginRequest(w) \/ Serve(w)
  /\ kind'[w] # "realize"
  /\ kind'[w] \in {"create", "update"} => input'[w].amount = 1

\* Commands on occurrences, three of them, dying at any point.
Repetition(w) ==
  /\ scenario = "repetition"
  /\ \/ started < 3 /\ BeginDecision(w)
     \/ Serve(w)
     \/ Crash(w)

\* Realizations, cancellations and deletions of rules, three of them; one amount.
Race(w) ==
  /\ scenario = "race"
  /\ \/ started < 3 /\ (BeginDecision(w) \/ BeginOnRule(w))
     \/ Serve(w)
  /\ kind'[w] # "confirm"
  /\ kind'[w] = "realize" => input'[w].amount = 1

RaceOnOperation ==
  /\ scenario = "race"
  /\ EditOperation \/ RemoveOperation
  /\ \A i \in OpIds : ops'[i] \in Operation => ops'[i].amount = 1

ScenarioInit ==
  /\ Init
  /\ scenario \in {"maintenance", "repetition", "race"}
  /\ scenario # "repetition" => \A e \in Events : IsRule(e) => event[e].amount = 1
  /\ scenario = "race" => \A e \in Events : IsConfirmed(e)

ScenarioNext ==
  /\ \/ \E w \in Workers : Maintenance(w) \/ Repetition(w) \/ Race(w)
     \/ RaceOnOperation
     \/ scenario # "repetition" /\ Rollover
  /\ UNCHANGED scenario

\* While nobody changes the rule or its operations, repeating a realization that
\* succeeded is never refused, and a replay repeats one that succeeded
\* (EventOccurrenceUseCases.realize).
RepetitionsAgree == scenario = "repetition" => RepeatIsReplayed /\ ReplayHadSucceeded

ScenarioSpec == ScenarioInit /\ [][ScenarioNext]_<<vars, scenario>>
=============================================================================
