CONSTANTS
  Keys <- MCKeys
  Loaded <- MCLoaded
  btree_order = 3
  MaxChanges = 5
SPECIFICATION Spec
INVARIANTS
  WellFormed
  FailuresHaveACause
  KeysAreFound
  ScansAreExact
  SearchesAreRight
CHECK_DEADLOCK FALSE
