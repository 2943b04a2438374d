SPECIFICATION PreviewSpec
CONSTANTS
  w1 = w1
  o1 = o1
  o2 = o2
  Workers = {w1}
  OpIds = {o1, o2}
  LastMonth = 3
  StartMonth = 2
  MaxAttempts = 5
  MaxRequests = 3
  OpKinds = {"ENTREE", "DEPENSE"}
  Requests = {"create", "update", "delete", "realize", "summarize", "fixed", "rollover"}
  Crashes = TRUE
  BaseValues = {1, 3}
  Seeds = {"empty", "settled"}
  PlannedMonths = {2}
  NoRow = NoRow
  NoOp = NoOp
  Deleted = Deleted
  Free = Free
SYMMETRY Symmetry
INVARIANTS
  SettledChain
PROPERTIES
  CorrectionRepairs
  ForecastFollowsSummary
CHECK_DEADLOCK FALSE
