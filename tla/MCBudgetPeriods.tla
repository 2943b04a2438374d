-------------------------- MODULE MCBudgetPeriods --------------------------
(***************************************************************************)
(* Instance of BudgetPeriods for the model checker.  Requests and operation *)
(* identifiers are interchangeable in every safety property, so both sets  *)
(* are symmetric.                                                          *)
(***************************************************************************)
EXTENDS BudgetPeriods, TLC

Symmetry == Permutations(Workers) \cup Permutations(OpIds)
=============================================================================
