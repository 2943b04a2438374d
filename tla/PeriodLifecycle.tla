-------------------------- MODULE PeriodLifecycle --------------------------
(***************************************************************************)
(* What the budget period table promises its readers, whatever requests    *)
(* run at once: the life of one period per month.                          *)
(*                                                                         *)
(* A period is opened once its month has started, is closed once its month *)
(* is over, and is closed once: it never reopens.  Its fixed snapshot may  *)
(* follow the live fixed operations while the period is open and is frozen *)
(* from then on.  Every change of a period advances its revision by one,   *)
(* and one step changes one period.                                        *)
(***************************************************************************)
EXTENDS Integers

CONSTANTS LastMonth, StartMonth

VARIABLES
  now,       \* the civil month
  phase,     \* "NONE", "OPEN" or "CLOSED"
  base,      \* fixed snapshot, 0 for "NONE"
  revision   \* 0 for "NONE"

vars == <<now, phase, base, revision>>
Months == 1..LastMonth
Phases == {"NONE", "OPEN", "CLOSED"}

Init ==
  /\ now = StartMonth
  /\ phase \in [Months -> Phases]
  /\ base \in [Months -> Int]
  /\ revision \in [Months -> Nat]
  /\ \A m \in Months :
       /\ phase[m] = "NONE" <=> revision[m] = 0
       /\ phase[m] # "NONE" => m <= now
       /\ phase[m] = "CLOSED" => m < now

Tick ==
  /\ now' = now + 1
  /\ UNCHANGED <<phase, base, revision>>

\* The period of `m' changes, at the next revision; no other period does.
Change(m) ==
  /\ phase' \in [Months -> Phases]
  /\ base' \in [Months -> Int]
  /\ revision' \in [Months -> Nat]
  /\ \A k \in Months \ {m} :
       /\ phase'[k] = phase[k]
       /\ base'[k] = base[k]
       /\ revision'[k] = revision[k]
  /\ revision'[m] = revision[m] + 1
  /\ UNCHANGED now

Open(m) ==
  /\ phase[m] = "NONE" /\ m <= now
  /\ phase'[m] = "OPEN"
  /\ Change(m)

\* The fixed snapshot of an open period follows the live fixed operations.
Refresh(m) ==
  /\ phase[m] = "OPEN"
  /\ phase'[m] = "OPEN"
  /\ Change(m)

Close(m) ==
  /\ phase[m] = "OPEN" /\ m < now
  /\ phase'[m] = "CLOSED"
  /\ base'[m] = base[m]
  /\ Change(m)

\* A correction changes carry and totals, which are not part of this view.
Correct(m) ==
  /\ phase[m] # "NONE"
  /\ phase'[m] = phase[m]
  /\ base'[m] = base[m]
  /\ Change(m)

Next ==
  \/ Tick
  \/ \E m \in Months : Open(m) \/ Refresh(m) \/ Close(m) \/ Correct(m)

Spec == Init /\ [][Next]_vars
=============================================================================
