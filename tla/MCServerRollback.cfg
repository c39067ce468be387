CONSTANTS
  s1 = s1
  Txns = {0, 1, 2}
  fd = fd
  Tables = {fd}
  Records = {0, 1}
  Keys = {1, 2}
  Loaded <- OneRow
  Sessions = {s1, s2}
  Statements = {"begin", "abort", "select", "insert", "update", "delete"}
  MaxRequests <- Three
SPECIFICATION SafeSpec
INVARIANTS
  RollbackIsNeverRefused
  WritesAreRecorded
PROPERTIES
  NoDirtyRead
SYMMETRY SessionSymmetry
CHECK_DEADLOCK FALSE
