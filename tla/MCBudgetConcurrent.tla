------------------------ MODULE MCBudgetConcurrent ------------------------
(***************************************************************************)
(* Concurrent requests of one family: a behaviour keeps to the scenario it *)
(* starts with, so that a stored chain is either read by everyone or       *)
(* written by everyone: two requests read at once, three write.            *)
(***************************************************************************)
EXTENDS MCBudgetPeriods

VARIABLE scenario  \* the family of requests of this behaviour

Readers == [requests |-> {"summarize", "none"}, kinds |-> {"ENTREE", "DEPENSE"}]
Writers == [requests |-> {"create", "none"}, kinds |-> {"ENTREE"}]

OfKinds(kinds) == \A o \in OpIds : ops[o] # NoOp => ops[o].kind \in kinds

\* Readers find at most one operation, writers a chain that is complete.
ScenarioInit ==
  /\ scenario \in {Readers, Writers}
  /\ Init
  /\ OfKinds(scenario.kinds)
  /\ IF scenario = Writers THEN row[StartMonth] # NoRow
                           ELSE Cardinality({o \in OpIds : ops[o] # NoOp}) <= 1

ScenarioNext ==
  /\ UNCHANGED scenario
  /\ Next
  /\ \A w \in Workers : kind'[w] \in scenario.requests
  /\ IF scenario = Writers THEN now' = now
                           ELSE \E idle \in Workers : pc'[idle] = "idle"
  /\ ops' # ops => OfKinds(scenario.kinds)'

ScenarioSpec == ScenarioInit /\ [][ScenarioNext]_<<vars, scenario>>
===========================================================================
