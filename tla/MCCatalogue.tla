----------------------------- MODULE MCCatalogue -----------------------------
(***************************************************************************)
(* Instance of Catalogue for the model checker.  Workers, categories and   *)
(* names are interchangeable in every property.                            *)
(***************************************************************************)
EXTENDS Catalogue, TLC

Symmetry == Permutations(Workers) \union Permutations(Categories) \union Permutations(Names)
=============================================================================
