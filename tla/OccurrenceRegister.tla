------------------------- MODULE OccurrenceRegister -------------------------
(***************************************************************************)
(* What deciding the occurrences of an owner's events promises: each       *)
(* occurrence is a register that is written at most once, a request that   *)
(* succeeds is answered with what the register holds, and a request is     *)
(* refused as already decided only when it is.                             *)
(***************************************************************************)
CONSTANT Occurrences

VARIABLES
  decided,  \* what was decided on each occurrence: "PLANNED" until then
  answers   \* the answers given, each with its occurrence

vars == <<decided, answers>>

Decisions == {"REALIZED", "CANCELED"}

Init ==
  /\ decided = [o \in Occurrences |-> "PLANNED"]
  /\ answers = {}

Decide(o, d) ==
  /\ decided[o] = "PLANNED"
  /\ decided' = [decided EXCEPT ![o] = d]
  /\ UNCHANGED answers

Answer(o) ==
  /\ decided[o] # "PLANNED"
  /\ \E a \in {decided[o], "refused"} : answers' = answers \cup {<<o, a>>}
  /\ UNCHANGED decided

Next ==
  \E o \in Occurrences :
    \/ \E d \in Decisions : Decide(o, d)
    \/ Answer(o)

Spec == Init /\ [][Next]_vars
=============================================================================
