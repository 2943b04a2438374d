-------------------------- MODULE MCBudgetPreview --------------------------
(***************************************************************************)
(* One request at a time: what it reads cannot change under it except by   *)
(* the passing of months and the fixed operations, so a summary and the    *)
(* forecast asked for at its start must see the same chain.                *)
(***************************************************************************)
EXTENDS BudgetPreview, TLC

Symmetry == Permutations(Workers) \cup Permutations(OpIds)
=============================================================================
