SPECIFICATION Spec
CONSTANTS
  Ids = {1, 2, 3}
  Values = {1, 2}
  Groups = {0, 1}
  Lists <- MCLists
  InitialRows <- MCInitialRows
  MaxLimit = 2
  MaxChanges = 2
INVARIANTS
  NoneSkipped
  ServedOnce
