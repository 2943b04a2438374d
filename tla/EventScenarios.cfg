SPECIFICATION ScenarioSpec
CONSTANTS
  w1 = w1
  w2 = w2
  e1 = e1
  e2 = e2
  o1 = o1
  o2 = o2
  Workers = {w1, w2}
  Events = {e1}
  OpIds = {o1, o2}
  Amounts = {1, 2}
  LastMonth = 2
  MaxRequests = 4
  Requests = {"create", "update", "delete", "confirm", "clear", "list", "realize", "cancel", "edit", "remove", "rollover"}
  Crashes = TRUE
  Default = Default
  NoEvent = NoEvent
  NoDecision = NoDecision
  NoOp = NoOp
  NoInput = NoInput
  Deleted = Deleted
SYMMETRY Symmetry
INVARIANTS
  OperationsAreDecided
  ConflictHasWinner
  DeleteMissesNoRule
  RepetitionsAgree
PROPERTIES
  ConfirmationIsFinal
  DecisionsAreFinal
  RegisterSpec
CHECK_DEADLOCK FALSE
