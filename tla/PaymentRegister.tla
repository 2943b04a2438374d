--------------------------- MODULE PaymentRegister ---------------------------
(***************************************************************************)
(* What the owner may rely on about payments set against a monthly         *)
(* envelope: a payment and the envelope it is set against are one entry;   *)
(* the two match; an entry may be rewritten only while its month is open,  *)
(* and once the month has ended it stays as it was.                        *)
(***************************************************************************)
EXTENDS Integers

CONSTANTS Payments,
          Matches(_, _),   \* may this payment be set against this envelope month?
          MonthOf(_),      \* the month of an envelope month
          NoPayment, NoEnvelope

VARIABLES today, paid, against

vars == <<today, paid, against>>

Init ==
  /\ today = 0
  /\ paid = [p \in Payments |-> NoPayment]
  /\ against = [p \in Payments |-> NoEnvelope]

MonthEnds == today' > today /\ UNCHANGED <<paid, against>>

IsOpen(envelope) == MonthOf(envelope) >= today

\* One payment is entered, changed, moved or withdrawn.
Rewrite(p) ==
  /\ UNCHANGED today
  /\ \A q \in Payments \ {p} : paid'[q] = paid[q] /\ against'[q] = against[q]
  /\ against[p] # NoEnvelope => IsOpen(against[p])
  /\ against'[p] # NoEnvelope => /\ IsOpen(against'[p])
                                 /\ paid'[p] # NoPayment
                                 /\ Matches(paid'[p], against'[p])

Next == MonthEnds \/ \E p \in Payments : Rewrite(p)

Spec == Init /\ [][Next]_vars
=============================================================================
