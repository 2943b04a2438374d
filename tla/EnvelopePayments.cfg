SPECIFICATION Spec
CONSTANTS
  Charges = {a}
  Incomes = {}
  Payments = {p}
  Currencies = {EUR, USD}
  Amounts = {1, 2}
  LastMonth = 1
  Horizon = 1
  Callers = {c1, c2}
  EditForms <- MCEditForms
  EnvelopeForms <- MCEnvelopeForms
  PaymentForms <- MCPaymentForms
  MaxCalls = 4
  Keep = Keep
  Now = Now
  NotYet = NotYet
  Gone = Gone
  NoOccurrence = NoOccurrence
  NoPayment = NoPayment
  Unlinked = Unlinked
  Omitted = Omitted
  NoRequest = NoRequest
  EUR = EUR
  USD = USD
INVARIANTS IInv LinksMatch OpenPlanIsActive
PROPERTIES PastDefinitionsKept LaterVersionsRespected RegisterSpec
CHECK_DEADLOCK FALSE
SYMMETRY CallersAlike
