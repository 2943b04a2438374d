SPECIFICATION ScenarioSpec
CONSTANTS
  w1 = w1
  w2 = w2
  w3 = w3
  o1 = o1
  o2 = o2
  o3 = o3
  Workers = {w1, w2, w3}
  OpIds = {o1, o2, o3}
  LastMonth = 4
  StartMonth = 3
  MaxAttempts = 5
  MaxRequests = 3
  OpKinds = {"ENTREE", "DEPENSE"}
  Requests = {"create", "summarize", "rollover"}
  Crashes = FALSE
  BaseValues = {1}
  Seeds = {"recorded", "settled"}
  PlannedMonths = {}
  NoRow = NoRow
  NoOp = NoOp
  Deleted = Deleted
  Free = Free
SYMMETRY Symmetry
INVARIANTS
  SettledChain
  ClosedRowAdds
CHECK_DEADLOCK FALSE
