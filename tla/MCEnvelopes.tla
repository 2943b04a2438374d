----------------------------- MODULE MCEnvelopes -----------------------------
(***************************************************************************)
(* Instances of Envelopes: the bodies the requests of a run carry.         *)
(***************************************************************************)
EXTENDS Envelopes, TLC

CONSTANTS EUR, USD

Form(amount, currency, envelope) ==
  [Unchanged EXCEPT !.amount = amount, !.currency = currency, !.envelope = envelope]

\* an ordinary charge, an envelope, an envelope moved to another currency,
\* an edit that says nothing of the flag
MCEditForms == {Form(1, EUR, FALSE), Form(2, EUR, TRUE), Form(1, USD, TRUE), Form(2, EUR, Keep)}

\* an envelope that ends with the first month
MCEnvelopeForms == {[Form(1, EUR, TRUE) EXCEPT !.from = 0, !.until = 0]}

MCPaymentForms ==
  {[month |-> m, currency |-> EUR, kind |-> "DEPENSE", amount |-> 1] : m \in {0, 1}}
    \union {[month |-> 1, currency |-> USD, kind |-> "DEPENSE", amount |-> 1],
            [month |-> 0, currency |-> EUR, kind |-> "ENTREE", amount |-> 2]}

CallersAlike == Permutations(Callers)
=============================================================================
