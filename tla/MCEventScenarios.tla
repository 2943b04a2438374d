-------------------------- MODULE MCEventScenarios --------------------------
(***************************************************************************)
(* Instance of EventScenarios for the model checker.  Requests and         *)
(* operation identifiers are interchangeable in every property.            *)
(***************************************************************************)
EXTENDS EventScenarios, TLC

Symmetry == Permutations(Workers) \cup Permutations(OpIds)
=============================================================================
