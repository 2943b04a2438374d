SPECIFICATION FairSpec
CONSTANTS
  w1 = w1
  w2 = w2
  o1 = o1
  Workers = {w1, w2}
  OpIds = {o1}
  LastMonth = 2
  StartMonth = 1
  MaxAttempts = 2
  MaxRequests = 3
  OpKinds = {"ENTREE"}
  Requests = {"create", "update", "delete", "realize", "summarize", "fixed", "rollover"}
  Crashes = TRUE
  BaseValues = {1, 3}
  Seeds = {"settled"}
  PlannedMonths = {}
  NoRow = NoRow
  NoOp = NoOp
  Deleted = Deleted
  Free = Free
INVARIANTS
  IInv
PROPERTIES
  LifecycleSpec
  EveryRequestAnswered
CHECK_DEADLOCK FALSE
