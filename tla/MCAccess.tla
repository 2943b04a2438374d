------------------------------- MODULE MCAccess -------------------------------
(***************************************************************************)
(* Small instances of Access: two accounts of one address, one of which    *)
(* may be registered at the start, and two requests at a time.             *)
(***************************************************************************)
EXTENDS Access, TLC

Symmetry == Permutations(Callers) \union Permutations(Sessions) \union Permutations(Passwords)
==============================================================================
