SPECIFICATION Spec
CONSTANTS
  w1 = w1
  w2 = w2
  c1 = c1
  c2 = c2
  o1 = o1
  f1 = f1
  n1 = n1
  n2 = n2
  Workers = {w1, w2}
  Categories = {c1, c2}
  Operations = {o1}
  FixedIds = {f1}
  Names = {n1, n2}
  LastMonth = 2
  MaxRequests = 2
  Unknown = Unknown
  Gone = Gone
  None = None
  Keep = Keep
  NoRequest = NoRequest
SYMMETRY Symmetry
INVARIANTS
  AccountDeletable
CHECK_DEADLOCK FALSE
