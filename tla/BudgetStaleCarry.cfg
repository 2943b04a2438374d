SPECIFICATION Spec
CONSTANTS
  w1 = w1
  w2 = w2
  o1 = o1
  Workers = {w1, w2}
  OpIds = {o1}
  LastMonth = 2
  StartMonth = 2
  MaxAttempts = 5
  MaxRequests = 2
  OpKinds = {"ENTREE"}
  Requests = {"create", "summarize"}
  Crashes = FALSE
  BaseValues = {1}
  Seeds = {"settled"}
  PlannedMonths = {}
  NoRow = NoRow
  NoOp = NoOp
  Deleted = Deleted
  Free = Free
SYMMETRY Symmetry
INVARIANTS
  SettledChain
CHECK_DEADLOCK FALSE
